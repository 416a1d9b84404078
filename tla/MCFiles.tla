------------------------------ MODULE MCFiles ------------------------------
(* A root process with two children, and two names of files. *)
EXTENDS Files

OpenForAppend == {{"w", "creat", "append"}}
WriteOrAppend == {{"w", "creat", "trunc"}, {"w", "append"}}
=============================================================================
