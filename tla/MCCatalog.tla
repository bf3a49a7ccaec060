------------------------------ MODULE MCCatalog ------------------------------
(***************************************************************************)
(* Small instances of Catalog for TLC.  Products and requests are          *)
(* interchangeable, and the fewer faults the more requests there are.      *)
(***************************************************************************)
EXTENDS Catalog, TLC

Symmetry == Permutations(Products) \cup Permutations(Requests)

EachFault == [f \in {{}, {"failure"}, {"overlap"}} |-> IF f = {} THEN 4 ELSE 3]
=============================================================================
