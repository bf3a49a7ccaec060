----------------------------- MODULE MCSettings -----------------------------
(***************************************************************************)
(* Small instances of Settings for TLC: instances and requests are         *)
(* interchangeable.                                                        *)
(***************************************************************************)
EXTENDS Settings, TLC

Symmetry == Permutations(Instances) \cup Permutations(Requests)
=============================================================================
