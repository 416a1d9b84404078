--------------------------- MODULE MCDeterminism ----------------------------
(* Pairs of executions of each of the regular root programs. *)
EXTENDS Determinism, MCPrograms
=============================================================================
