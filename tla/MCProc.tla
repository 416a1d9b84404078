------------------------------- MODULE MCProc -------------------------------
(* The kernel running each of the root programs of MCPrograms. *)
EXTENDS ProcRefinement, MCPrograms
=============================================================================
