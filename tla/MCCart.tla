-------------------------------- MODULE MCCart --------------------------------
(***************************************************************************)
(* A small instance of Cart for TLC: two stores, one of them with two      *)
(* items, the other with a bundle.  What a request had loaded no longer    *)
(* matters once it is done.                                                *)
(***************************************************************************)
EXTENDS Cart

CONSTANTS i1, i2, i3, s1, s2

SmallStoreOf == [i \in Items |-> IF i = i3 THEN s2 ELSE s1]

InMemory(f) == [r \in Requests |-> IF pc[r] = "done" THEN None ELSE f[r]]
Live == <<faults, cart, wanted, pc, InMemory(doc), InMemory(target)>>

EachFault == [f \in {{}, {"overlap", "failure"}, Faults} |->
                CASE f = {} -> 6 [] f = Faults -> 4 [] OTHER -> 4]
=============================================================================
