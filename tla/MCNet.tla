------------------------------- MODULE MCNet -------------------------------
EXTENDS Net

(* All processes are at home on node 1. *)
MCHome == [p \in Procs |-> 1]
(* Process p is at home on node p. *)
HomeApart == [p \in Procs |-> p]
(* Every process has a page of its own, or all share one. *)
OwnPage == [p \in Procs |-> Cardinality(Procs) + p]
SharedPage == [p \in Procs |-> Cardinality(Procs) + 1]

Budget(dests, writes, migr, loss, queue) ==
    [dests |-> dests, writes |-> writes, migr |-> migr, loss |-> loss, queue |-> queue]
(* Four migrations among all nodes without loss, or one with two packets lost. *)
FarOrLossy == {Budget(Nodes, {}, 4, 0, 2), Budget({1, 2}, {0}, 1, 2, 4)}
(* Three migrations with one packet lost. *)
BackLossy == {Budget(Nodes, {}, 3, 1, 3)}
(* Two migrations, without loss or retransmission. *)
TwoLeave == {Budget(Nodes, {}, 2, 0, 0)}
(* There and back, writing. *)
BackWriting == {Budget(Nodes, {0}, 2, 0, 1)}
=============================================================================
