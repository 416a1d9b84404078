------------------------------- MODULE MCPmap -------------------------------
(* Copy-on-write memory of a parent and two children; the children are
   interchangeable. *)
EXTENDS Pmap, TLC

CONSTANTS c1, c2

(* Some bytes of physical page 0 are zero. *)
BootPage == [b \in Bytes |-> IF b = 1 THEN 1 ELSE 0]

ChildrenSymmetry == Permutations({c1, c2})
=============================================================================
