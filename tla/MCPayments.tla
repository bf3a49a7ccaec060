----------------------------- MODULE MCPayments -----------------------------
(***************************************************************************)
(* Small instances of Payments.  Payments, requests and users are only     *)
(* compared for equality, so permuting them changes nothing.               *)
(***************************************************************************)
EXTENDS Payments, TLC

Symmetry == Permutations(Payments) \cup Permutations(Requests) \cup Permutations(Users)
=============================================================================
