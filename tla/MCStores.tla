------------------------------ MODULE MCStores ------------------------------
(***************************************************************************)
(* Small instances of Stores for TLC.  What a request had loaded no longer *)
(* matters once it is done; the fewer faults the more requests there are.  *)
(***************************************************************************)
EXTENDS Stores, TLC

InMemory(f) == [r \in Requests |-> IF pc[r] = "done" THEN None ELSE f[r]]
Live == <<faults, store, sent, stripe, pc, target, InMemory(doc), InMemory(want)>>

Symmetry == Permutations(Providers) \cup Permutations(Phones)

EachFault == [f \in {{}, {"failure", "reordering"}, Faults} |-> IF f = {} THEN 5 ELSE 4]
NoFault == [f \in {{}} |-> 3]
=============================================================================
