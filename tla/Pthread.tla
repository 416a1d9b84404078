------------------------------- MODULE Pthread -------------------------------
(***************************************************************************)
(* Threads with snapshot and merge, their barriers (lib/pthread.c), and    *)
(* the calls of lib/thread.c.                                              *)
(*                                                                         *)
(* A thread is a child space that starts with a copy of its creator's      *)
(* memory; the creator joins it by merging into its own memory what the    *)
(* thread has changed since the snapshot.  A thread that reaches a barrier *)
(* stops, and says so in its status.  It goes on when the creator, in      *)
(* pthread_join, has collected as many stopped threads as the barrier      *)
(* counts, and restarts them all on copies of the merged memory.           *)
(*                                                                         *)
(* A space is named by the path of child slots that leads to it.  The      *)
(* shared memory is one counter for each space, in a page of its own,      *)
(* which that space increases.  Of a status the model keeps what the code  *)
(* reads: the highest bit (EXIT_BARRIER) and the low byte, whoever has set *)
(* them.  PUT and GET wait until the child has stopped (kern/proc.c,       *)
(* module Spaces).                                                         *)
(***************************************************************************)
EXTENDS Integers, Sequences, FiniteSets

CONSTANTS
    PROC_CHILDREN,  \* children have the numbers 1 .. PROC_CHILDREN - 1
    BARRIER_MAX,
    Paths,        \* the paths of the spaces that may exist; <<>> is the first
    Progs, Code,    \* programs by name, and their operations
    MainProgs       \* the programs of the space <<>>

ASSUME PthreadAssumption ==
    /\ PROC_CHILDREN \in Nat \ {0, 1} /\ BARRIER_MAX \in 1 .. 256
    /\ <<>> \in Paths /\ DOMAIN Code = Progs /\ MainProgs \subseteq Progs

Slots == 1 .. PROC_CHILDREN - 1
Barriers == 0 .. BARRIER_MAX - 1
Kid(p, th) == Append(p, th)
Kids(p) == {q \in Paths : Len(q) = Len(p) + 1 /\ SubSeq(q, 1, Len(p)) = p}
Parent(q) == SubSeq(q, 1, Len(q) - 1)
Zapped == -1        \* a page that a merge has found in conflict and unmapped

VARIABLES
    mem,            \* each space's memory
    ref,            \* its snapshot
    child,          \* files->child[th].state in each space
    barriers,       \* files->barriers in each space
    sp,             \* each space's program, place, state and status
    coll,           \* the wait_at_barrier it is in
    writes,         \* history: how often each space has written
    synced,         \* history: writes at its last release from a barrier
    nreached,       \* history: waits at each barrier by the children of a space
    npassed         \* history: releases from it

vars == <<mem, ref, child, barriers, sp, coll, writes, synced, nreached, npassed>>

Op(p) == Code[sp[p].prog][sp[p].pc]

NoStatus == [trap |-> FALSE, bar |-> FALSE, low |-> 0]
\* The status is a signed number: its highest bit is set if it is negative.
\* BARRIER_MAX is 256 in the code, so that every low byte is a barrier's number.
Exited(e) == [trap |-> FALSE, bar |-> e < 0, low |-> e % 256]
AtBarrier(b) == [trap |-> FALSE, bar |-> TRUE, low |-> b]     \* BARRIER_WRITE
Trapped == [trap |-> TRUE, bar |-> FALSE, low |-> 0]

NotCollecting == [b |-> -1, got |-> <<>>, next |-> 1]

\* A space's states are "none", "run", "stopped" and "ghost" (see Release).  tids
\* are the threads it has created, round the barriers it has passed, failed the
\* calls that have returned an error.
NewSpace(g, run) ==
    [prog |-> g, pc |-> 1, run |-> run, status |-> NoStatus, tids |-> <<>>, round |-> 0,
     failed |-> FALSE]

Init ==
    /\ mem = [p \in Paths |-> [q \in Paths |-> 0]]
    /\ ref = mem
    /\ child = [p \in Paths |-> [th \in Slots |-> "FREE"]]
    /\ barriers = [p \in Paths |-> [b \in Barriers |-> 0]]
    /\ \E g \in MainProgs :
          sp = [p \in Paths |-> NewSpace(g, IF p = <<>> THEN "run" ELSE "none")]
    /\ coll = [p \in Paths |-> NotCollecting]
    /\ writes = [p \in Paths |-> 0]
    /\ synced = [p \in Paths |-> 0]
    /\ nreached = [p \in Paths |-> [b \in Barriers |-> 0]]
    /\ npassed = nreached

Hist == <<writes, synced, nreached, npassed>>

-----------------------------------------------------------------------------
(* The system calls *)

\* GET MERGE: pmap_mergepage, page by page.
Merged(p, q) ==
    [c \in Paths |->
       IF mem[q][c] = ref[q][c] THEN mem[p][c]
       ELSE IF mem[p][c] = ref[q][c] THEN mem[q][c] ELSE Zapped]

Running(p) == sp[p].run = "run" /\ coll[p] = NotCollecting
CanGet(q) == sp[q].run \in {"stopped", "ghost"}
CanPut(q) == sp[q].run # "run"

Next1(p) == [sp EXCEPT ![p].pc = @ + 1]

\* exit: the space stops, and its creator finds the status.
Stops(p, status) == [sp EXCEPT ![p].run = "stopped", ![p].status = status]

\* A call has returned an error: the program exits or goes on, as it says.
OnError(p) ==
    IF Op(p).fail = "exit" THEN Stops(p, Exited(1))
    ELSE [Next1(p) EXCEPT ![p].failed = TRUE]

-----------------------------------------------------------------------------
(* lib/pthread.c *)

FreeSlots(p) == {th \in Slots : child[p][th] = "FREE"}
First(S) == CHOOSE th \in S : \A k \in S : th <= k

\* pthread_create: PUT START|SNAP|REGS|COPY of all memory, in which the child
\* clears its table of children.
PthreadCreate(p) ==
    LET th == First(FreeSlots(p))
        q == Kid(p, th)
    IN  /\ Running(p) /\ Op(p).op = "create"
        /\ IF FreeSlots(p) = {}
           THEN sp' = OnError(p) /\ UNCHANGED <<mem, ref, child, barriers>>
           ELSE /\ CanPut(q)
                /\ mem' = [mem EXCEPT ![q] = mem[p]]
                /\ ref' = [ref EXCEPT ![q] = mem[p]]
                /\ barriers' = [barriers EXCEPT ![q] = barriers[p]]
                /\ child' = [child EXCEPT ![q] = [k \in Slots |-> "FREE"], ![p][th] = "FORKED"]
                /\ sp' = [Next1(p) EXCEPT ![q] = NewSpace(Op(p).g, "run"),
                                          ![p].tids = Append(@, th)]
        /\ UNCHANGED <<coll, Hist>>

\* The end of pthread_join: PUT ZERO of the child's memory, and its slot is free.
Done(p, th, self) ==
    /\ sp' = [self EXCEPT ![Kid(p, th)].run = "none"]
    /\ mem' = [mem EXCEPT ![p] = Merged(p, Kid(p, th)), ![Kid(p, th)] = [c \in Paths |-> Zapped]]
    /\ child' = [child EXCEPT ![p][th] = "FREE"]
    /\ coll' = [coll EXCEPT ![p] = NotCollecting]

\* A join of tparallel_end takes only EXIT_SUCCESS.
Accepts(p, status) == Op(p).any \/ status = Exited(0)

\* One round of the loop of pthread_join: GET MERGE|REGS of the thread.
PthreadJoin(p) ==
    LET th == sp[p].tids[Op(p).k]
        q == Kid(p, th)
        status == sp[q].status
    IN  /\ Running(p) /\ Op(p).op = "join" /\ CanGet(q)
        /\ \/ status.trap /\ Done(p, th, OnError(p))
           \/ ~status.trap /\ ~status.bar /\ Done(p, th, IF Accepts(p, status) THEN Next1(p) ELSE OnError(p))
           \/ /\ status.bar
              /\ mem' = [mem EXCEPT ![p] = Merged(p, q)]
              /\ coll' = [coll EXCEPT ![p] = [b |-> status.low, got |-> <<th>>, next |-> 1]]
              /\ UNCHANGED <<child, sp>>
        /\ UNCHANGED <<ref, barriers, Hist>>

\* wait_at_barrier: the threads it still has to look at, in the order of their
\* slots, and whether it has as many as the barrier counts.
Candidates(p) ==
    {th \in Slots : th >= coll[p].next /\ th # coll[p].got[1] /\ child[p][th] = "FORKED"}

Complete(p) == Len(coll[p].got) >= barriers[p][coll[p].b]

\* The assertion that a collected thread has stopped at the same barrier: of the
\* status it reads only the low byte.
SameBarrier(p, status) == coll[p].b = status.low

Collecting(p) == sp[p].run = "run" /\ coll[p] # NotCollecting

\* wait_at_barrier collects one more thread.
BarrierCollect(p) ==
    LET th == First(Candidates(p))
        q == Kid(p, th)
        status == sp[q].status
        m1 == [mem EXCEPT ![p] = Merged(p, q)]
        first == coll[p].got[1]
    IN  /\ Collecting(p) /\ ~Complete(p) /\ Candidates(p) # {} /\ CanGet(q)
        /\ \/ /\ status.trap
              /\ mem' = [m1 EXCEPT ![Kid(p, first)] = [c \in Paths |-> Zapped]]
              /\ sp' = [OnError(p) EXCEPT ![Kid(p, first)].run = "none"]
              /\ child' = [child EXCEPT ![p][first] = "FREE"]
              /\ coll' = [coll EXCEPT ![p] = NotCollecting]
           \/ /\ ~status.trap /\ SameBarrier(p, status)
              /\ mem' = m1
              /\ coll' = [coll EXCEPT ![p].got = Append(@, th), ![p].next = th + 1]
              /\ UNCHANGED <<child, sp>>
           \/ /\ ~status.trap /\ ~SameBarrier(p, status)
              /\ mem' = m1
              /\ sp' = Stops(p, Exited(1))
              /\ UNCHANGED <<child, coll>>
        /\ UNCHANGED <<ref, barriers, Hist>>

\* wait_at_barrier runs out of threads: pthread_join fails.
BarrierShort(p) ==
    LET first == coll[p].got[1]
    IN  /\ Collecting(p) /\ ~Complete(p) /\ Candidates(p) = {}
        /\ mem' = [mem EXCEPT ![Kid(p, first)] = [c \in Paths |-> Zapped]]
        /\ sp' = [OnError(p) EXCEPT ![Kid(p, first)].run = "none"]
        /\ child' = [child EXCEPT ![p][first] = "FREE"]
        /\ coll' = [coll EXCEPT ![p] = NotCollecting]
        /\ UNCHANGED <<ref, barriers, Hist>>

\* The PUT COPY|SNAP|START by which the spaces K are restarted: COPY,
Copied_None(p, K) == mem

Copied(p, K) == [q \in Paths |-> IF q \in K THEN mem[p] ELSE mem[q]]

\* SNAP,
Snapped_None(p, K) == ref

Snapped(p, K) == [q \in Paths |-> IF q \in K THEN mem[p] ELSE ref[q]]

\* and START.  A thread in pthread_barrier_wait returns from it.  One that has
\* already exited would go on after the sys_ret in pthread_create: what it does
\* there is not modelled.
InBarrierWait(q) == Op(q).op = "barrier_wait"

Started_None(K) == sp

Started(K) ==
    [q \in Paths |->
       IF q \notin K THEN sp[q]
       ELSE IF InBarrierWait(q) THEN [sp[q] EXCEPT !.run = "run", !.round = @ + 1, !.pc = @ + 1]
       ELSE [sp[q] EXCEPT !.run = "ghost"]]

\* wait_at_barrier restarts as many of the threads it has collected as the barrier
\* counts, and pthread_join turns to its thread again.
Release(p) ==
    LET K == {Kid(p, coll[p].got[i]) : i \in DOMAIN coll[p].got \cap 1 .. barriers[p][coll[p].b]}
        W == {q \in K : InBarrierWait(q)}
    IN  /\ Collecting(p) /\ Complete(p)
        /\ mem' = Copied(p, K)
        /\ ref' = Snapped(p, K)
        /\ sp' = Started(K)
        /\ coll' = [coll EXCEPT ![p] = NotCollecting]
        /\ synced' = [q \in Paths |-> IF q \in W THEN writes[q] ELSE synced[q]]
        /\ npassed' = [npassed EXCEPT ![p][coll[p].b] = @ + Cardinality({q \in W : sp'[q].run = "run"})]
        /\ UNCHANGED <<child, barriers, writes, nreached>>

\* pthread_barrier_init: the first unused barrier (the program's k-th is k - 1).
BarrierInit(p) ==
    LET Unused == {b \in Barriers : barriers[p][b] = 0}
    IN  /\ Running(p) /\ Op(p).op = "barrier_init"
        /\ IF Op(p).count \notin 1 .. PROC_CHILDREN - 1 \/ Unused = {}
           THEN sp' = OnError(p) /\ UNCHANGED barriers
           ELSE /\ barriers' = [barriers EXCEPT ![p][First(Unused)] = Op(p).count]
                /\ sp' = Next1(p)
        /\ UNCHANGED <<mem, ref, child, coll, Hist>>

\* pthread_barrier_destroy
BarrierDestroy(p) ==
    /\ Running(p) /\ Op(p).op = "barrier_destroy"
    /\ IF Op(p).b \notin Barriers
       THEN sp' = OnError(p) /\ UNCHANGED barriers
       ELSE barriers' = [barriers EXCEPT ![p][Op(p).b] = 0] /\ sp' = Next1(p)
    /\ UNCHANGED <<mem, ref, child, coll, Hist>>

\* pthread_barrier_wait: the thread stops and, restarted, returns 0.
BarrierWait(p) ==
    LET b == Op(p).b
    IN  /\ Running(p) /\ Op(p).op = "barrier_wait"
        /\ IF barriers[p][b] <= 0
           THEN sp' = OnError(p) /\ UNCHANGED nreached
           ELSE /\ sp' = Stops(p, AtBarrier(b))
                /\ nreached' = [nreached EXCEPT ![Parent(p)][b] = @ + 1]
        /\ UNCHANGED <<mem, ref, child, barriers, coll, writes, synced, npassed>>

-----------------------------------------------------------------------------
(* lib/thread.c *)

\* tfork: PUT REGS|COPY|SNAP|START of the child number that the program gives.
Tfork(p) ==
    LET q == Kid(p, Op(p).th)
    IN  /\ Running(p) /\ Op(p).op = "tfork" /\ CanPut(q)
        /\ mem' = [mem EXCEPT ![q] = mem[p]]
        /\ ref' = [ref EXCEPT ![q] = mem[p]]
        /\ barriers' = [barriers EXCEPT ![q] = barriers[p]]
        /\ child' = [child EXCEPT ![q] = child[p]]
        /\ sp' = [Next1(p) EXCEPT ![q] = NewSpace(Op(p).g, "run")]
        /\ UNCHANGED <<coll, Hist>>

\* tjoin: GET MERGE|REGS.  A child that has trapped is a panic.
Tjoin(p) ==
    LET q == Kid(p, Op(p).th)
    IN  /\ Running(p) /\ Op(p).op = "tjoin" /\ CanGet(q)
        /\ mem' = [mem EXCEPT ![p] = Merged(p, q)]
        /\ sp' = IF sp[q].status.trap THEN Stops(p, Exited(1)) ELSE Next1(p)
        /\ UNCHANGED <<ref, child, barriers, coll, Hist>>

\* tresume: PUT COPY|SNAP|START
Tresume(p) ==
    LET q == Kid(p, Op(p).th)
    IN  /\ Running(p) /\ Op(p).op = "tresume" /\ CanPut(q)
        /\ mem' = [mem EXCEPT ![q] = mem[p]]
        /\ ref' = [ref EXCEPT ![q] = mem[p]]
        /\ sp' = [Next1(p) EXCEPT ![q].run = "run"]
        /\ UNCHANGED <<child, barriers, coll, Hist>>

\* The assertions of tparallel_internal: it is to have some threads, not too many,
\* and no children yet.
AssertFree(p) ==
    /\ Running(p) /\ Op(p).op = "assert_free"
    /\ sp' = IF Op(p).n \in 1 .. PROC_CHILDREN - 1 /\ FreeSlots(p) = Slots
             THEN Next1(p) ELSE Stops(p, Exited(1))
    /\ UNCHANGED <<mem, ref, child, barriers, coll, Hist>>

\* The calls that exit with EXIT_FAILURE when they fail.
CreateOrExit(g) == [op |-> "create", g |-> g, fail |-> "exit"]
JoinOrExit(k, any) == [op |-> "join", k |-> k, any |-> any, fail |-> "exit"]

\* tparallel_internal as a program: create n threads and join them in order.
TparallelInternal(n, g) ==
    <<[op |-> "assert_free", n |-> n]>>
    \o [i \in 1 .. n |-> CreateOrExit(g)] \o [i \in 1 .. n |-> JoinOrExit(i, TRUE)]
    \o <<[op |-> "exit", e |-> 0]>>

\* tparallel_begin and, for the k-th thread created, tparallel_end
TparallelBegin(internal) == CreateOrExit(internal)
TparallelEnd(k) == JoinOrExit(k, FALSE)

-----------------------------------------------------------------------------
(* The program's own steps *)

Write(p) ==
    /\ Running(p) /\ Op(p).op = "write" /\ mem[p][p] # Zapped
    /\ mem' = [mem EXCEPT ![p][p] = @ + 1]
    /\ writes' = [writes EXCEPT ![p] = @ + 1]
    /\ sp' = Next1(p)
    /\ UNCHANGED <<ref, child, barriers, coll, synced, nreached, npassed>>

\* The end: exit or a return from the thread's function, a sys_ret after which the
\* thread may be resumed, or a trap.
Exit(p) ==
    /\ Running(p)
    /\ \/ Op(p).op = "exit" /\ sp' = Stops(p, Exited(Op(p).e))
       \/ Op(p).op = "ret" /\ sp' = [Stops(p, NoStatus) EXCEPT ![p].pc = @ + 1]
       \/ Op(p).op = "trap" /\ sp' = Stops(p, Trapped)
    /\ UNCHANGED <<mem, ref, child, barriers, coll, Hist>>

Step(p) ==
    \/ PthreadCreate(p) \/ PthreadJoin(p) \/ BarrierCollect(p) \/ BarrierShort(p) \/ Release(p)
    \/ BarrierInit(p) \/ BarrierDestroy(p) \/ BarrierWait(p)
    \/ Tfork(p) \/ Tjoin(p) \/ Tresume(p) \/ AssertFree(p)
    \/ Write(p) \/ Exit(p)

Ended == sp[<<>>].run = "stopped" /\ UNCHANGED vars

Next == (\E p \in Paths : Step(p)) \/ Ended

Spec == Init /\ [][Next]_vars

\* The kernel runs every space that is not stopped or waiting.
FairSpec == Spec /\ \A p \in Paths : WF_vars(Step(p))

-----------------------------------------------------------------------------
(* Properties *)

Counts(p, b) == barriers[p][b] > 0

\* A barrier lets threads go only in groups as large as its count, each of whose
\* members has called pthread_barrier_wait: "This should be the same barrier" of
\* wait_at_barrier (lib/pthread.c:135).  The assertion after it reads the low byte
\* of the status only, so that a thread that has exited, and has not been joined,
\* may count as a member, and one that waits is left behind.
WholeGroups ==
    \A p \in Paths, b \in Barriers : Counts(p, b) =>
        /\ npassed[p][b] % barriers[p][b] = 0
        /\ npassed[p][b] <= nreached[p][b]

\* Threads that have passed the same barriers see what each of them had written
\* before the last one, whichever of them the creator collected first.
BarrierData ==
    \A t1, t2 \in Paths :
        /\ Len(t1) = Len(t2) /\ Len(t1) > 0 /\ Parent(t1) = Parent(t2)
        /\ sp[t1].run = "run" /\ sp[t2].run = "run" /\ sp[t1].round = sp[t2].round
        => mem[t1][t2] >= synced[t2]

\* A change reaches the creator once and is not lost: no merge finds a conflict,
\* and a joined thread's writes are all there, unless a call has failed (one
\* thread is merged twice if pthread_join gives up at a barrier).
MergedOnce ==
    \A p \in Paths : sp[p].run = "run" /\ ~sp[p].failed =>
        \A q \in Kids(p) :
            /\ mem[p][q] # Zapped
            /\ sp[q].run = "none" => mem[p][q] = writes[q]

\* Programs come to their end: pthread_join, "If this is not a barrier, free the
\* child" (lib/pthread.c:165), returns for each thread that ends or traps, and gives
\* up at a barrier for more threads than there are.  It holds for threads that
\* return no negative number; one that does is taken for a thread at a barrier,
\* and the loop of pthread_join looks at it again and again.
EventuallyEnds == <>(sp[<<>>].run = "stopped")
=============================================================================
