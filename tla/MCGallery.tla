------------------------------ MODULE MCGallery ------------------------------
(***************************************************************************)
(* Small instances of Gallery for TLC.  What a request had loaded no       *)
(* longer matters once it is done.                                         *)
(***************************************************************************)
EXTENDS Gallery

InMemory(f) == [r \in Requests |-> IF pc[r] = "done" THEN None ELSE f[r]]
Live == <<faults, gallery, portrait, pc, InMemory(doc), InMemory(photos)>>

EachFault == [f \in {{}, {"failure"}, Faults} |-> IF f = Faults THEN 5 ELSE 6]
=============================================================================
