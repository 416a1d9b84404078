------------------------------- MODULE DSched -------------------------------
(***************************************************************************)
(* The deterministic scheduler of threads (lib/dsthread.c).                *)
(*                                                                         *)
(* Each thread runs its time slices in a child space of its own, on a copy *)
(* of the master's memory.  The master collects the threads in the order   *)
(* of its run queue: it waits until the thread has stopped, merges what    *)
(* the thread has changed since its slice began, and starts the next slice *)
(* from a new copy.  A thread that needs the master stops in mcall, and    *)
(* the master then goes on with the thread's code in its own space, up to  *)
(* mret, which starts a new slice, or tblock.  A thread that is preempted  *)
(* in the middle of library code (tlock = 1) is also continued there.      *)
(*                                                                         *)
(* What the library keeps in shared memory is one record 'm' of the master *)
(* and a copy view[t] of it in every running thread; ref[t] is the copy as *)
(* it was when the slice began.  x stands for the data of the program that *)
(* the mutexes protect: thread t adds to x under a mutex.                  *)
(*                                                                         *)
(* The run queue, the ready queue and the queues of mutexes and conditions *)
(* are chained through t->qnext in the code and are sequences here.  When  *)
(* a slice ends is determined by an instruction count; it may be anywhere  *)
(* here.  Thread-private data and memory allocation are left out.  The     *)
(* registers that pthread_sched restores are taken as restored (the jump   *)
(* is commented out in the unfinished 64-bit port of the file), and tpinit *)
(* as finished (an assert(0) in tpgetsize, left by the port, stops every   *)
(* thread of the library as it is built).                                  *)
(***************************************************************************)
EXTENDS Integers, Sequences, SequencesExt

CONSTANTS
    MAXTHREADS,     \* threads are 0 .. MAXTHREADS - 1, and 0 runs at the start
    Mutexes, Conds,
    DataMutex,      \* the mutex that protects x
    Progs,          \* names of the programs that threads run
    Code,           \* Code[g]: the operations of program g
    MainProgs,      \* the programs thread 0 may run
    MaxPreempt      \* bound: slices that end without a call to the master

\* The operations of programs: calls of the library, and steps of their own.
Ops ==
    [op : {"lock", "unlock"}, u : Mutexes]
    \cup [op : {"trylock"}, u : Mutexes, fail : Nat]
    \cup [op : {"signal", "broadcast"}, c : Conds]
    \cup [op : {"await"}, c : Conds, u : Mutexes, n : Nat]
    \cup [op : {"create"}, g : Progs, det : BOOLEAN]
    \cup [op : {"join"}, k : Nat]
    \cup [op : {"spin"}, n : Nat]
    \cup [op : {"add", "exit", "end"}]

\* Programs do not run beyond their end.
ASSUME DSchedAssumption ==
    /\ MAXTHREADS \in Nat \ {0} /\ MaxPreempt \in Nat
    /\ DataMutex \in Mutexes /\ MainProgs \subseteq Progs /\ DOMAIN Code = Progs
    /\ \A g \in Progs :
         /\ Code[g] \in Seq(Ops) /\ Len(Code[g]) > 0
         /\ Code[g][Len(Code[g])].op \in {"exit", "end"}
         /\ \A i \in 1 .. Len(Code[g]) : Code[g][i].op = "trylock" => Code[g][i].fail \in 1 .. Len(Code[g])

Threads == 0 .. MAXTHREADS - 1
NoThread == -1

VARIABLES
    m,          \* the library's state in the master's memory
    view,       \* the copy of it that each thread works on in its slice
    ref,        \* that copy as it was at the beginning of the slice
    th,         \* each thread's program, its place in it and its results
    sched,      \* "top" of pthread_sched, or in its "loop"
    npreempt,
    total,      \* history: how often x has been increased
    clash       \* history: a merge has met two changes of one datum

vars == <<m, view, ref, th, sched, npreempt, total, clash>>

Op(t) == Code[th[t].prog][th[t].pc]

\* pthread_mutex_init by thread 0, pthread_cond_init, and init up to the mret
\* that starts thread 0's first slice.
InitMaster ==
    [owner  |-> [u \in Mutexes |-> 0],
     locked |-> [u \in Mutexes |-> FALSE],
     mq     |-> [u \in Mutexes |-> <<>>],        \* threads that wait for u
     reqs   |-> [t \in Threads |-> <<>>],        \* mutexes requested from t
     cq     |-> [c \in Conds |-> <<>>],          \* threads that wait on c
     nwake  |-> [c \in Conds |-> 0],
     ev     |-> <<>>,                            \* evconds
     st     |-> [t \in Threads |-> IF t = 0 THEN "RUN" ELSE "FREE"],
     det    |-> [t \in Threads |-> FALSE],
     joiner |-> [t \in Threads |-> NoThread],
     ready  |-> <<>>,
     runq   |-> <<0>>,
     x      |-> 0,
     panic  |-> "no"]

\* The stages of a thread.  In a slice: "user".  Stopped: "called" with tlock = 1
\* at the beginning of an operation; "returning" with tlock = 1 at its end;
\* "preempted" with tlock = 0; "exiting" with tlock = 0 in a system call.  In the
\* master: "new" before tstart, "blocked" in an operation's first tblock, "relock"
\* in the one of mutexlock at the end of a wait.  "none": no thread; "done": the
\* process has ended.  kids are the threads it has created, in order, with NoThread
\* for one that is detached or has been joined; holds are the mutexes it has locked
\* and not unlocked.
NewThread(g, stage) == [prog |-> g, pc |-> 1, stage |-> stage, kids |-> <<>>, holds |-> {}]

Init ==
    /\ m = InitMaster
    /\ view = [t \in Threads |-> InitMaster]
    /\ ref = view
    /\ \E g \in MainProgs :
          th = [t \in Threads |-> NewThread(g, IF t = 0 THEN "user" ELSE "none")]
    /\ sched = "top"
    /\ npreempt = 0
    /\ total = 0
    /\ clash = FALSE

-----------------------------------------------------------------------------
(* The library's functions on its state, as the master executes them *)

Fail(s, why) == [s EXCEPT !.panic = IF @ = "no" THEN why ELSE @]

\* tready
Tready(s, t) ==
    IF s.st[t] = "RUN" THEN Fail(s, "tready")
    ELSE [s EXCEPT !.st[t] = "RUN", !.ready = Append(@, t)]

\* A wrong round of condwakeups: while (--c->nwake > 0) instead of do ... while.
Wakeup_OneLess(s, c) ==
    LET n == IF s.nwake[c] - 1 < Len(s.cq[c]) THEN s.nwake[c] - 1 ELSE Len(s.cq[c])
        woken == SubSeq(s.cq[c], 1, n)
    IN  [s EXCEPT !.cq[c] = SubSeq(@, n + 1, Len(@)), !.nwake[c] = 0,
                  !.ready = @ \o woken,
                  !.st = [t \in Threads |->
                            IF \E k \in 1 .. n : woken[k] = t THEN "RUN" ELSE @[t]]]

\* One round of the loop in condwakeups, for the condition c.
Wakeup(s, c) ==
    LET n == IF s.nwake[c] < Len(s.cq[c]) THEN s.nwake[c] ELSE Len(s.cq[c])
        woken == SubSeq(s.cq[c], 1, n)
        s1 == [s EXCEPT !.cq[c] = SubSeq(@, n + 1, Len(@)), !.nwake[c] = 0,
                        !.ready = @ \o woken,
                        !.st = [t \in Threads |->
                                  IF \E k \in 1 .. n : woken[k] = t THEN "RUN" ELSE @[t]]]
    IN  IF \A k \in 1 .. n : s.st[woken[k]] = "COND" THEN s1
        ELSE Fail(s1, "woken before it blocks")

\* condwakeups: the conditions of evconds, the last one signalled first.
CondWakeups(s) ==
    LET after[k \in 0 .. Len(s.ev)] ==
          IF k = 0 THEN s ELSE Wakeup(after[k - 1], s.ev[k])
    IN  [after[Len(s.ev)] EXCEPT !.ev = <<>>]

\* A wrong transfer: the new owner is not told of the others that wait.
Transfer_Forget(s, i, t) ==
    LET u == s.reqs[t][i]
        tn == Head(s.mq[u])
    IN  Tready([s EXCEPT !.owner[u] = tn, !.mq[u] = Tail(@), !.reqs[t] = RemoveAt(@, i)], tn)

\* The mutex at position i of the requests to t is transferred: the first thread
\* that waits for it becomes its owner.
Transfer(s, i, t) ==
    LET u == s.reqs[t][i]
        tn == Head(s.mq[u])
        rest == Tail(s.mq[u])
        told == [s.reqs EXCEPT ![t] = RemoveAt(@, i)]
    IN  Tready([s EXCEPT !.owner[u] = tn, !.mq[u] = rest,
                         !.reqs = IF rest = <<>> THEN told ELSE [told EXCEPT ![tn] = <<u>> \o @]], tn)

\* One round of the loop in mutexreqs, at position a.mp: a locked mutex is skipped.
MutexReq(a, t) ==
    IF a.s.locked[a.s.reqs[t][a.mp]] THEN [a EXCEPT !.mp = @ + 1]
    ELSE [a EXCEPT !.s = Transfer(a.s, a.mp, t)]

\* mutexreqs
MutexReqs(s, t) ==
    LET after[k \in 0 .. Len(s.reqs[t])] ==
          IF k = 0 THEN [s |-> s, mp |-> 1] ELSE MutexReq(after[k - 1], t)
    IN  after[Len(s.reqs[t])].s

\* tevents
Tevents(s, t) == MutexReqs(CondWakeups(s), t)

\* A wrong trun: the wakeups are left for later.
Trun_NoWakeups(s, t) == LET s1 == MutexReqs(s, t) IN [s1 EXCEPT !.runq = Append(@, t)]

\* trun
Trun(s, t) == LET s1 == Tevents(s, t) IN [s1 EXCEPT !.runq = Append(@, t)]

\* tblock, up to the entry of the scheduler.
Tblock(s, t, newstate) == [Tevents(s, t) EXCEPT !.st[t] = newstate]

\* mutexlock takes an unlocked mutex from an owner that is blocked.
Stealable(s, u) == ~s.locked[u] /\ s.st[s.owner[u]] # "RUN"

\* mutexlock's request to the owner, and its place in the queue of u.
Request(s, t, u) ==
    [s EXCEPT !.reqs[s.owner[u]] = IF s.mq[u] = <<>> THEN <<u>> \o @ ELSE @,
              !.mq[u] = Append(@, t)]

\* The end of mutexlock.
Grab(s, t, u) ==
    IF s.owner[u] # t \/ s.locked[u] THEN Fail(s, "already locked")
    ELSE [s EXCEPT !.locked[u] = TRUE]

Steal(s, t, u) ==
    IF s.mq[u] # <<>> THEN Fail(s, "stolen with a queue") ELSE [s EXCEPT !.owner[u] = t]

\* mutexunlock: the mutex stays with its owner.
Release(s, t, u) ==
    IF s.owner[u] # t \/ ~s.locked[u] THEN Fail(s, "not locked")
    ELSE [s EXCEPT !.locked[u] = FALSE]

\* condevent: the condition is noted for the next call of condwakeups.
CondEvent(s, o) ==
    [s EXCEPT !.ev = IF s.nwake[o.c] = 0 THEN <<o.c>> \o @ ELSE @,
              !.nwake[o.c] = IF o.op = "broadcast" THEN MAXTHREADS
                             ELSE IF @ < MAXTHREADS THEN @ + 1 ELSE @]

-----------------------------------------------------------------------------
(* Operations that a thread can do in its slice *)

InSlice(t) == m.panic = "no" /\ th[t].stage = "user" /\ th[0].stage # "done"

\* The thread after its operation.
Next1(t) == [th EXCEPT ![t].pc = @ + 1]
Holding(t, u) == [Next1(t) EXCEPT ![t].holds = @ \cup {u}]
Released(t, u) == [Next1(t) EXCEPT ![t].holds = @ \ {u}]
Joined(t) == [Next1(t) EXCEPT ![t].kids[Op(t).k] = NoThread]
Elsewhere(t) == [th EXCEPT ![t].pc = Op(t).fail]
At(t, stage) == [th EXCEPT ![t].stage = stage]

\* The operation is done.  The slice may still end before mret has returned to
\* the program: then the thread is stopped with tlock = 1.  So is a thread whose
\* assertion has failed: its exit is a system call, which the master finds with
\* tlock = 1, and the exit goes on there.
Fast(t, s, self) ==
    /\ view' = [view EXCEPT ![t] = s]
    /\ \E stage \in (IF s.panic = "no" THEN {"user"} ELSE {"returning"})
                     \cup (IF npreempt < MaxPreempt THEN {"returning"} ELSE {}) :
          /\ th' = [self EXCEPT ![t].stage = stage]
          /\ npreempt' = IF stage = "returning" /\ s.panic = "no" THEN npreempt + 1 ELSE npreempt
    /\ UNCHANGED <<m, ref, sched, total, clash>>

\* mcall, or the end of the slice between mlock and what the operation does.
Stop(t, stage) ==
    /\ th' = [th EXCEPT ![t].stage = stage]
    /\ UNCHANGED <<m, view, ref, sched, total, clash>>

MCall(t) == Stop(t, "called") /\ UNCHANGED npreempt

\* pthread_mutex_lock
MutexLock(t) ==
    LET u == Op(t).u
    IN  /\ InSlice(t) /\ Op(t).op = "lock"
        /\ \/ view[t].owner[u] = t /\ Fast(t, Grab(view[t], t, u), Holding(t, u))
           \/ view[t].owner[u] # t /\ MCall(t)

\* A wrong trylock: any thread takes a mutex that is not locked in its copy.
MutexTrylock_Unowned(t) ==
    LET u == Op(t).u
    IN  /\ InSlice(t) /\ Op(t).op = "trylock"
        /\ IF ~view[t].locked[u]
           THEN Fast(t, [view[t] EXCEPT !.locked[u] = TRUE], Holding(t, u))
           ELSE Fast(t, view[t], Elsewhere(t))

\* pthread_mutex_trylock: only the owner may succeed; o.fail is where the program
\* goes otherwise.
MutexTrylock(t) ==
    LET u == Op(t).u
    IN  /\ InSlice(t) /\ Op(t).op = "trylock"
        /\ IF view[t].owner[u] = t
           THEN Fast(t, Grab(view[t], t, u), Holding(t, u))
           ELSE Fast(t, view[t], Elsewhere(t))

\* pthread_mutex_unlock
MutexUnlock(t) ==
    LET u == Op(t).u
    IN  /\ InSlice(t) /\ Op(t).op = "unlock"
        /\ Fast(t, Release(view[t], t, u), Released(t, u))

\* pthread_cond_signal, pthread_cond_broadcast
CondSignal(t) ==
    /\ InSlice(t) /\ Op(t).op \in {"signal", "broadcast"}
    /\ Fast(t, IF view[t].cq[Op(t).c] = <<>> THEN view[t] ELSE CondEvent(view[t], Op(t)),
            Next1(t))

\* pthread_join: with a thread that is seen to have exited.
Join(t) ==
    LET tj == th[t].kids[Op(t).k]
    IN  /\ InSlice(t) /\ Op(t).op = "join"
        /\ \/ view[t].st[tj] = "EXIT" /\ Fast(t, [view[t] EXCEPT !.st[tj] = "FREE"], Joined(t))
           \/ view[t].st[tj] # "EXIT" /\ MCall(t)

\* pthread_create and pthread_exit begin with mcall; "await" is the loop around
\* pthread_cond_wait of a program that waits until x has reached o.n.
CallMaster(t) ==
    /\ InSlice(t)
    /\ \/ Op(t).op \in {"create", "exit"}
       \/ Op(t).op = "await" /\ view[t].x < Op(t).n
    /\ MCall(t)

\* The program's own steps: increase x, find that x has reached o.n, end.
Compute(t) ==
    /\ InSlice(t)
    /\ \/ /\ Op(t).op = "add"
          /\ view' = [view EXCEPT ![t].x = @ + 1]
          /\ total' = total + 1
          /\ th' = [th EXCEPT ![t].pc = @ + 1]
       \/ /\ Op(t).op \in {"await", "spin"} /\ view[t].x >= Op(t).n
          /\ th' = [th EXCEPT ![t].pc = @ + 1]
          /\ UNCHANGED <<view, total>>
       \/ /\ Op(t).op = "end"
          /\ th' = [th EXCEPT ![t].stage = "exiting"]
          /\ UNCHANGED <<view, total>>
    /\ UNCHANGED <<m, ref, sched, npreempt, clash>>

\* In a loop that lasts longer than a slice.
Spins(t) == Op(t).op = "spin" /\ view[t].x < Op(t).n

\* The quantum expires, in the program or in the library before the operation has
\* done anything.  condevent looks at the queue before it takes tlock.
Preempt(t) ==
    /\ InSlice(t) /\ (npreempt < MaxPreempt \/ Spins(t))
    /\ \/ Stop(t, "preempted")
       \/ /\ \/ Op(t).op \in {"lock", "trylock", "unlock", "join"}
             \/ Op(t).op \in {"signal", "broadcast"} /\ view[t].cq[Op(t).c] # <<>>
          /\ Stop(t, "called")
    /\ npreempt' = IF Spins(t) THEN npreempt ELSE npreempt + 1

-----------------------------------------------------------------------------
(* The master: pthread_sched *)

\* A wrong scheduler: it merges the library's data and not the program's.
Merge_LibraryOnly(t) ==
    LET v == view[t]  r == ref[t]
    IN  [m EXCEPT !.locked = [u \in Mutexes |-> IF v.locked[u] # r.locked[u] THEN v.locked[u] ELSE @[u]],
                  !.nwake = [c \in Conds |-> IF v.nwake[c] # r.nwake[c] THEN v.nwake[c] ELSE @[c]],
                  !.st = [tj \in Threads |-> IF v.st[tj] # r.st[tj] THEN v.st[tj] ELSE @[tj]],
                  !.ev = IF v.ev # r.ev THEN v.ev ELSE @,
                  !.panic = v.panic,
                  !.runq = Tail(@)]

\* sys_get MERGE: what the thread has changed replaces what the master has.
Merge(t) ==
    LET v == view[t]  r == ref[t]
    IN  [m EXCEPT !.locked = [u \in Mutexes |-> IF v.locked[u] # r.locked[u] THEN v.locked[u] ELSE @[u]],
                  !.nwake = [c \in Conds |-> IF v.nwake[c] # r.nwake[c] THEN v.nwake[c] ELSE @[c]],
                  !.st = [tj \in Threads |-> IF v.st[tj] # r.st[tj] THEN v.st[tj] ELSE @[tj]],
                  !.ev = IF v.ev # r.ev THEN v.ev ELSE @,
                  !.x = IF v.x # r.x THEN v.x ELSE @,
                  !.panic = v.panic,
                  !.runq = Tail(@)]

\* Both the thread and the master have changed a datum since the slice began.
Clashes(t) ==
    LET v == view[t]  r == ref[t]
    IN  \/ \E u \in Mutexes : v.locked[u] # r.locked[u] /\ m.locked[u] # r.locked[u]
        \/ \E c \in Conds : v.nwake[c] # r.nwake[c] /\ m.nwake[c] # r.nwake[c]
        \/ \E tj \in Threads : v.st[tj] # r.st[tj] /\ m.st[tj] # r.st[tj]
        \/ v.ev # r.ev /\ m.ev # r.ev
        \/ v.x # r.x /\ m.x # r.x

\* The scheduler turns to the run queue at its top when no thread is ready, and
\* in its loop in any case.
Collecting == m.panic = "no" /\ th[0].stage # "done" /\ (sched = "loop" \/ m.ready = <<>>)

Collect(t, stage) ==
    /\ Collecting /\ m.runq # <<>> /\ t = Head(m.runq) /\ th[t].stage = stage
    /\ clash' = (clash \/ Clashes(t))

\* PUT REGS|COPY|SNAP|START: a new slice on a copy of the master's memory s.
StartSlice(t, s) ==
    /\ m' = s
    /\ view' = [view EXCEPT ![t] = s]
    /\ ref' = [ref EXCEPT ![t] = s]

\* mret in the master, which ends at the top of the scheduler.
Mret(t, s, self) ==
    /\ StartSlice(t, Trun(s, t))
    /\ th' = [self EXCEPT ![t].stage = "user"]
    /\ sched' = "top"
    /\ UNCHANGED <<npreempt, total>>

\* tblock
Block(t, s, state, self) ==
    /\ m' = Tblock(s, t, state)
    /\ th' = self
    /\ sched' = "top"
    /\ UNCHANGED <<view, ref, npreempt, total>>

\* mutexlock in the master; self is the thread once it has the mutex.
LockInMaster(t, s, u, stage, self) ==
    \/ s.owner[u] = t /\ Mret(t, Grab(s, t, u), self)
    \/ s.owner[u] # t /\ Stealable(s, u) /\ Mret(t, Grab(Steal(s, t, u), t, u), self)
    \/ s.owner[u] # t /\ ~Stealable(s, u) /\ Block(t, Request(s, t, u), "MUTEX", stage)

\* A wrong scheduler: a preempted thread goes on with its old copy of the data.
CollectPreempted_NoCopy(t) ==
    LET s == Trun(Merge(t), t)
        old == [s EXCEPT !.x = view[t].x]
    IN  /\ Collect(t, "preempted")
        /\ m' = s
        /\ view' = [view EXCEPT ![t] = old]
        /\ ref' = [ref EXCEPT ![t] = old]
        /\ th' = At(t, "user")
        /\ sched' = "loop"
        /\ UNCHANGED <<npreempt, total>>

\* A thread that was preempted in the program goes on in a new slice, and the
\* scheduler stays in its loop.
CollectPreempted(t) ==
    /\ Collect(t, "preempted")
    /\ StartSlice(t, Trun(Merge(t), t))
    /\ th' = At(t, "user")
    /\ sched' = "loop"
    /\ UNCHANGED <<npreempt, total>>

\* A thread stopped at the end of an operation goes on with mret.
CollectReturning(t) ==
    /\ Collect(t, "returning")
    /\ Mret(t, Merge(t), th)

CollectLock(t) ==
    /\ Collect(t, "called") /\ Op(t).op = "lock"
    /\ LockInMaster(t, Merge(t), Op(t).u, At(t, "blocked"), Holding(t, Op(t).u))

CollectTrylock(t) ==
    LET s == Merge(t)
        u == Op(t).u
    IN  /\ Collect(t, "called") /\ Op(t).op = "trylock"
        /\ IF s.owner[u] = t THEN Mret(t, Grab(s, t, u), Holding(t, u))
           ELSE Mret(t, s, Elsewhere(t))

CollectUnlock(t) ==
    /\ Collect(t, "called") /\ Op(t).op = "unlock"
    /\ Mret(t, Release(Merge(t), t, Op(t).u), Released(t, Op(t).u))

CollectSignal(t) ==
    /\ Collect(t, "called") /\ Op(t).op \in {"signal", "broadcast"}
    /\ Mret(t, CondEvent(Merge(t), Op(t)), Next1(t))

\* pthread_cond_wait up to its tblock.  The program comes back to its loop.
CollectWait(t) ==
    LET o == Op(t)
    IN  /\ Collect(t, "called") /\ o.op = "await"
        /\ Block(t, Release([Merge(t) EXCEPT !.cq[o.c] = Append(@, t)], t, o.u), "COND",
                 [At(t, "blocked") EXCEPT ![t].holds = @ \ {o.u}])

\* pthread_create: the first free slot.
CollectCreate(t) ==
    LET s == Merge(t)
        o == Op(t)
        Free == {tn \in Threads \ {0} : s.st[tn] = "FREE"}
        tn == CHOOSE tn \in Free : \A k \in Free : tn <= k
    IN  /\ Collect(t, "called") /\ o.op = "create"
        /\ IF Free = {} THEN Mret(t, Fail(s, "too many threads"), th)
           ELSE Mret(t, Tready([s EXCEPT !.det[tn] = o.det, !.joiner[tn] = NoThread,
                                         !.reqs[tn] = <<>>], tn),
                     [Next1(t) EXCEPT ![t].kids = Append(@, IF o.det THEN NoThread ELSE tn),
                                      ![tn] = NewThread(o.g, "new")])

\* pthread_join in the master.
CollectJoin(t) ==
    LET s == Merge(t)
        tj == th[t].kids[Op(t).k]
    IN  /\ Collect(t, "called") /\ Op(t).op = "join"
        /\ \/ s.st[tj] = "EXIT" /\ Mret(t, [s EXCEPT !.st[tj] = "FREE"], Joined(t))
           \/ /\ s.st[tj] # "EXIT"
              /\ Block(t, IF s.st[tj] = "FREE" \/ s.joiner[tj] # NoThread THEN Fail(s, "join")
                          ELSE [s EXCEPT !.joiner[tj] = t],
                       "MUTEX", At(t, "blocked"))

\* A wrong exit: the thread that waits in pthread_join is not woken.
CollectExit_NoWake(t) ==
    LET s == Merge(t)
    IN  /\ Collect(t, "called") /\ Op(t).op = "exit"
        /\ Block(t, s, IF s.det[t] THEN "FREE" ELSE "EXIT", At(t, "none"))

\* pthread_exit
CollectExit(t) ==
    LET s == Merge(t)
    IN  /\ Collect(t, "called") /\ Op(t).op = "exit"
        /\ Block(t, IF s.joiner[t] = NoThread THEN s ELSE Tready(s, s.joiner[t]),
                 IF s.det[t] THEN "FREE" ELSE "EXIT", At(t, "none"))

\* A thread has called exit, or main has returned: the master passes it on to its
\* parent, and the process has ended.  (Of the system calls that the master passes
\* on this is the one that does not come back; after one for input or output it
\* would go on as in CollectPreempted.  Programs here do none, and do not trap,
\* which is a panic of the master.)
CollectEnd(t) ==
    /\ Collect(t, "exiting")
    /\ m' = Merge(t)
    /\ th' = At(0, "done")
    /\ UNCHANGED <<view, ref, sched, npreempt, total>>

NoRunningThreads ==
    /\ Collecting /\ m.runq = <<>>
    /\ m' = Fail(m, "deadlock")
    /\ UNCHANGED <<view, ref, th, sched, npreempt, total, clash>>

\* The first ready thread goes on in the master: from tstart, or from the tblock
\* of mutexlock, of pthread_join or of pthread_cond_wait.
Resuming(t) ==
    /\ m.panic = "no" /\ th[0].stage # "done" /\ sched = "top"
    /\ m.ready # <<>> /\ t = Head(m.ready)
    /\ UNCHANGED clash

Dequeued == [m EXCEPT !.ready = Tail(@)]

Resume(t) ==
    /\ Resuming(t)
    /\ \/ /\ th[t].stage = "new"
          /\ Mret(t, Dequeued, th)
       \/ /\ th[t].stage = "blocked" /\ Op(t).op = "lock"
          /\ Mret(t, Grab(Dequeued, t, Op(t).u), Holding(t, Op(t).u))
       \/ /\ th[t].stage = "relock"
          /\ Mret(t, Grab(Dequeued, t, Op(t).u), [th EXCEPT ![t].holds = @ \cup {Op(t).u}])

ResumeWait(t) ==
    /\ Resuming(t) /\ th[t].stage = "blocked" /\ Op(t).op = "await"
    /\ LockInMaster(t, Dequeued, Op(t).u, At(t, "relock"),
                    [th EXCEPT ![t].holds = @ \cup {Op(t).u}])

ResumeJoin(t) ==
    LET tj == th[t].kids[Op(t).k]
    IN  /\ Resuming(t) /\ th[t].stage = "blocked" /\ Op(t).op = "join"
        /\ Mret(t, IF m.st[tj] # "EXIT" THEN Fail(Dequeued, "join")
                   ELSE [Dequeued EXCEPT !.st[tj] = "FREE"], Joined(t))

\* Nothing happens after the end of the process or a panic.
Ended ==
    /\ m.panic # "no" \/ th[0].stage = "done"
    /\ UNCHANGED vars

Slice(t) ==
    \/ MutexLock(t) \/ MutexTrylock(t) \/ MutexUnlock(t) \/ CondSignal(t) \/ Join(t)
    \/ CallMaster(t) \/ Compute(t)

Sched(t) ==
    \/ CollectPreempted(t) \/ CollectReturning(t) \/ CollectLock(t) \/ CollectTrylock(t)
    \/ CollectUnlock(t) \/ CollectSignal(t) \/ CollectWait(t) \/ CollectCreate(t)
    \/ CollectJoin(t) \/ CollectExit(t) \/ CollectEnd(t)
    \/ Resume(t) \/ ResumeWait(t) \/ ResumeJoin(t)

Next ==
    \/ \E t \in Threads : Slice(t) \/ Preempt(t) \/ Sched(t)
    \/ NoRunningThreads
    \/ Ended

Spec == Init /\ [][Next]_vars

\* The kernel runs every started space, and a slice of P_QUANTUM instructions
\* ends: threads and the master go on as long as they can.
FairSpec ==
    /\ Spec
    /\ \A t \in Threads : WF_vars(Slice(t)) /\ WF_vars(Preempt(t) /\ Spins(t))
    /\ WF_vars(NoRunningThreads \/ \E t \in Threads : Sched(t))

-----------------------------------------------------------------------------
(* Properties *)

\* What a panic or a failed assertion is about.
Panics == {"no", "deadlock", "join", "already locked", "not locked", "stolen with a queue", "tready",
           "woken before it blocks", "too many threads"}
Member(x, q) == \E k \in 1 .. Len(q) : q[k] = x
Once(q) == \A i, j \in 1 .. Len(q) : q[i] = q[j] => i = j

TypeOK ==
    /\ \A s \in {m} \cup {view[t] : t \in Threads} :
          /\ s.owner \in [Mutexes -> Threads] /\ s.locked \in [Mutexes -> BOOLEAN]
          /\ s.nwake \in [Conds -> 0 .. MAXTHREADS]
          /\ s.st \in [Threads -> {"FREE", "RUN", "MUTEX", "COND", "EXIT"}]
          /\ s.joiner \in [Threads -> Threads \cup {NoThread}]
          /\ s.panic \in Panics
          /\ Len(s.runq) <= MAXTHREADS
    /\ \A t \in Threads : th[t].stage \in {"user", "called", "returning", "preempted", "exiting",
                                           "new", "blocked", "relock", "none", "done"}
    /\ npreempt \in 0 .. MaxPreempt

\* A mutex is held by one thread at most, although threads lock and unlock a
\* mutex they own in their copies, without the master (mutexlock, mutexunlock,
\* mutexreqs).
MutualExclusion ==
    \A u \in Mutexes, t1, t2 \in Threads :
        u \in th[t1].holds /\ u \in th[t2].holds => t1 = t2

\* The queues a thread is on, and the kind of queue its state stands for.
Places(t) ==
    UNION {{<<"ready", q>> : q \in {p \in {0} : Member(t, m.ready)}},
           {<<"run", q>> : q \in {p \in {0} : Member(t, m.runq)}},
           {<<"mutex", u>> : u \in {v \in Mutexes : Member(t, m.mq[v])}},
           {<<"cond", c>> : c \in {d \in Conds : Member(t, m.cq[d])}},
           {<<"join", j>> : j \in {k \in Threads : m.joiner[k] = t
                                                   /\ m.st[k] \notin {"EXIT", "FREE"}}}}

Kinds == [FREE |-> {}, EXIT |-> {}, RUN |-> {"ready", "run"}, MUTEX |-> {"mutex", "join"},
          COND |-> {"cond"}]

\* A thread is on one queue, the one its state names, and once: a runnable thread
\* on the ready queue or the run queue, a waiting thread on a condition's queue, a
\* blocked one on a mutex's queue or the joiner of a thread (trun, tready, tblock:
\* all queues are chained through the one field qnext).
QueueExact ==
    m.panic = "no" /\ th[0].stage # "done" =>
      /\ Once(m.ready) /\ Once(m.runq)
      /\ (\A u \in Mutexes : Once(m.mq[u])) /\ (\A c \in Conds : Once(m.cq[c]))
      /\ \A t \in Threads :
           IF Kinds[m.st[t]] = {} THEN Places(t) = {}
           ELSE \E q \in Places(t) : Places(t) = {q} /\ q[1] \in Kinds[m.st[t]]

\* Nobody's request is forgotten: a mutex that threads wait for is on the list of
\* the thread that owns it, on no other list, and only then; and a thread that has
\* blocked or is about to run has no unlocked mutex on its list (mutexlock,
\* mutexreqs; "else would have xfer'd").
ReqsExact ==
    m.panic = "no" =>
      /\ \A u \in Mutexes, t \in Threads :
            Member(u, m.reqs[t]) <=> (m.owner[u] = t /\ m.mq[u] # <<>>)
      /\ \A t \in Threads, u \in Mutexes :
            Member(u, m.reqs[t]) /\ ~m.locked[u] => m.st[t] = "RUN"

\* A thread that holds the mutex of x sees every increase of x so far, although
\* each was made in the copy of the thread that made it and reached the master at
\* the end of that thread's slice: no update is lost (pthread_sched's merge
\* before mutexreqs passes the mutex on).
DataFresh ==
    \A t \in Threads : th[t].stage = "user" /\ DataMutex \in th[t].holds => view[t].x = total

\* A merge never meets two changes of one datum of the library or of the program
\* ("all threads can use this (shared) location without conflict").
NoClash == ~clash

\* The assertions and panics of the library do not fail, except that of a program
\* whose threads wait for each other.
AssertsHold == m.panic \in {"no", "deadlock"}

\* No assertion of the library fails in the programs of the run (with others one
\* does: see AssertsHold), and the scheduler finds no running thread
\* only if there are threads each of which waits for a mutex that another of them
\* holds: no wakeup and no hand-over of a mutex is lost.
PanicIsReal ==
    m.panic # "no" =>
      /\ m.panic = "deadlock"
      /\ \E S \in SUBSET Threads \ {{}} : \A t \in S :
           /\ th[t].stage = "blocked" /\ Op(t).op = "lock"
           /\ \E t2 \in S : Op(t).u \in th[t2].holds

\* Programs whose threads wait for each other in a way that ends come to their end,
\* the one that reads x in a loop without a lock too.
EventuallyEnds == <>(th[0].stage = "done" \/ m.panic # "no")

\* "We always process the ready queue before the run queue": a thread that is
\* ready to run is resumed.
ReadyRuns ==
    \A t \in Threads : Member(t, m.ready) ~> (~Member(t, m.ready) \/ m.panic # "no")
=============================================================================
