------------------------------ MODULE MCQuotes ------------------------------
(***************************************************************************)
(* Small instances of Quotes: two products and a bundle of them in one     *)
(* store, a third product in another, and two updates of the bundle.       *)
(***************************************************************************)
EXTENDS Quotes, TLC

CONSTANTS p1, p2, p3, b1, s1, s2

Symmetry == Permutations(Editors)

SmallMembers == [b \in Bundles |-> {p1, p2}]
SmallStoreOf == [i \in Items |-> IF i = p3 THEN s2 ELSE s1]
SmallBasePrice == [s \in {SmallStoreOf[i] : i \in Items} |-> IF s = s1 THEN 250 ELSE 99]
=============================================================================
