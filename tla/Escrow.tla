-------------------------------- MODULE Escrow --------------------------------
(***************************************************************************)
(* The promise of the payments component, for each payment: the customer   *)
(* is charged at most once, and afterwards the provider's share, and no    *)
(* more, leaves the platform at most once.                                 *)
(***************************************************************************)
EXTENDS Naturals

CONSTANTS Payments,   \* the payments
          Amounts,    \* what may be charged
          Share(_)    \* the part of an amount that is the provider's

VARIABLES charged,    \* what the customer has paid for each payment, 0 before
          paidOut     \* what the provider has received for each payment

Init ==
  /\ charged = [p \in Payments |-> 0]
  /\ paidOut = [p \in Payments |-> 0]

Charge(p) ==
  /\ charged[p] = 0
  /\ \E a \in Amounts : charged' = [charged EXCEPT ![p] = a]
  /\ UNCHANGED paidOut

PayOut(p) ==
  /\ charged[p] > 0
  /\ paidOut[p] = 0
  /\ paidOut' = [paidOut EXCEPT ![p] = Share(charged[p])]
  /\ UNCHANGED charged

Next == \E p \in Payments : Charge(p) \/ PayOut(p)

Spec == Init /\ [][Next]_<<charged, paidOut>>
=============================================================================
