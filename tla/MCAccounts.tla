----------------------------- MODULE MCAccounts -----------------------------
(***************************************************************************)
(* Small instances of Accounts for TLC.  Requests are interchangeable, and *)
(* the fewer faults the more of them there are.                            *)
(***************************************************************************)
EXTENDS Accounts, TLC

Symmetry == Permutations(Requests)

EachFault == [f \in {{}, {"failure"}, Faults} |-> IF f = {} THEN 5 ELSE 4]
=============================================================================
