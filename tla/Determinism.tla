---------------------------- MODULE Determinism -----------------------------
(***************************************************************************)
(* Two executions of one program on the hierarchy of spaces, scheduled     *)
(* independently of each other.  Determinator promises that they cannot be *)
(* told apart: of the operations of kern/syscall.c only SYS_TIME, which is *)
(* not modelled, has a result that depends on how far others have come.    *)
(***************************************************************************)
EXTENDS Machine

CONSTANT MaxEvents      \* bound: events in the life of a process

ASSUME BoundAssumption == MaxEvents \in Nat

VARIABLES live1, leaving1, regs1, smem1, snap1,
          live2, leaving2, regs2, smem2, snap2,
          age1, age2    \* history: events in the life of each process so far

One == INSTANCE Spaces WITH live <- live1, leaving <- leaving1,
                            regs <- regs1, smem <- smem1, snap <- snap1
Two == INSTANCE Spaces WITH live <- live2, leaving <- leaving2,
                            regs <- regs2, smem <- smem2, snap <- snap2

vars1 == <<live1, leaving1, regs1, smem1, snap1, age1>>
vars2 == <<live2, leaving2, regs2, smem2, snap2, age2>>
dvars == <<vars1, vars2>>

DInit ==
    /\ One!SInit /\ Two!SInit /\ regs1 = regs2
    /\ age1 = [p \in Procs |-> 0] /\ age2 = [p \in Procs |-> 0]

(* The steps of a process, and what its parent does to it, are the events
   of its life. *)
Step1(p) ==
    /\ age1[p] < MaxEvents
    /\ One!Step(p)
    /\ age1' = [q \in Procs |-> IF q \in One!Touched(p) THEN age1[q] + 1 ELSE age1[q]]
    /\ UNCHANGED vars2

Step2(p) ==
    /\ age2[p] < MaxEvents
    /\ Two!Step(p)
    /\ age2' = [q \in Procs |-> IF q \in Two!Touched(p) THEN age2[q] + 1 ELSE age2[q]]
    /\ UNCHANGED vars1

DNext ==
    \/ \E p \in live1 : Step1(p)
    \/ \E p \in live2 : Step2(p)

DSpec == DInit /\ [][DNext]_dvars

Same(p) ==
    /\ regs1[p] = regs2[p] /\ smem1[p] = smem2[p] /\ snap1[p] = snap2[p]

(* After the same number of events a process has the same registers, memory
   and snapshot in both executions and is live in both or in neither, and each
   of its children that has stopped in both has stopped at the same point, in
   the same state: nothing that PUT and GET let a parent observe depends on
   the schedule. *)
Deterministic ==
    \A p \in Procs : age1[p] = age2[p] =>
        /\ Same(p) /\ (p \in live1 <=> p \in live2)
        /\ \A k \in Procs \ (live1 \cup live2) : Parent[k] = p =>
              Same(k) /\ age1[k] = age2[k]
=============================================================================
