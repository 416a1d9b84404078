-------------------------------- MODULE Proc --------------------------------
(***************************************************************************)
(* The process and system-call core of the Determinator kernel             *)
(* (kern/proc.c, kern/syscall.c, and the parts of kern/trap.c that reach   *)
(* them).  Several CPUs run a hierarchy of processes ("spaces").  A parent *)
(* controls a child only with PUT and GET, and only while the child is     *)
(* stopped; a child gives control back with RET or by trapping.            *)
(*                                                                         *)
(* Every CPU has a control point pc[c].  One action is one stretch of      *)
(* kernel code between two points where another CPU can interfere: taking  *)
(* a spinlock is an action of its own, a critical section and the release  *)
(* that ends it are one action, and each unlocked phase of PUT and GET is  *)
(* one action.                                                             *)
(*                                                                         *)
(* Data is abstract.  A register state is a program, a position in it and  *)
(* the last trap number.  Memory is one word per page.  Page tables are    *)
(* the subject of another module; here a COPY or MERGE has its logical     *)
(* effect.  The sleeping side of the root process's RET (file_io) is       *)
(* modelled in RootIO, and migration (net_migrate) is not modelled here.   *)
(*                                                                         *)
(* A definition X_Y that precedes X is X with a plausible mistake in it.   *)
(* No specification uses it: it is there to show that a property fails     *)
(* when X is replaced by it.                                               *)
(***************************************************************************)
EXTENDS Machine, FiniteSets

CONSTANTS
    NCPU,       \* number of CPUs
    NoCpu       \* the NULL cpu pointer

CPUs == 0 .. NCPU - 1

ASSUME CpuAssumption == NCPU \in Nat \ {0} /\ NoCpu \notin CPUs

VARIABLES
    alloc,      \* the processes proc_alloc has created
    state,      \* p->state
    runcpu,     \* p->runcpu
    waitchild,  \* p->waitchild
    sv,         \* p->sv, the saved registers
    mem,        \* the user memory p->pml4 maps
    rmem,       \* the reference snapshot p->rpml4 maps
    lock,       \* p->lock: the CPU that holds it, or NoCpu
    readylock,  \* the ready queue's lock
    readyq,     \* the ready queue
    cpu_limit,  \* CPUs numbered from here up stay idle
    pc,         \* control point of each CPU
    cur,        \* c->proc
    tf,         \* registers of the process running on each CPU
    ret,        \* how the current proc_ret was entered
    nxt         \* the process that each CPU is about to run

procvars == <<alloc, state, runcpu, waitchild>>
datavars == <<sv, mem, rmem>>
lockvars == <<lock, readylock, readyq>>
cpuvars == <<cpu_limit, pc, cur, tf, ret, nxt>>
vars == <<alloc, state, runcpu, waitchild, sv, mem, rmem, lock, readylock,
          readyq, cpu_limit, pc, cur, tf, ret, nxt>>

-----------------------------------------------------------------------------
(* Control *)

Goto(c, l) == pc' = [pc EXCEPT ![c] = l]

OpAt(c) == OpOf(tf[c])

(* spinlock_acquire and spinlock_release of p->lock. *)
Acquire(c, p) == lock[p] = NoCpu /\ lock' = [lock EXCEPT ![p] = c]

Release_Forgotten(p) == UNCHANGED lock
Release(p) == lock' = [lock EXCEPT ![p] = NoCpu]

(* What do_put and do_get wait for. *)
Stopped_OrReady(k) == state[k] \in {"STOP", "READY"}
Stopped(k) == state[k] = "STOP"

(* proc_ret's test for a parent that waits for this child. *)
WaitsFor_Never(p, k) == FALSE
WaitsFor(p, k) == state[p] = "WAIT" /\ waitchild[p] = k

(* proc_wait's record of what p waits for. *)
WaitOn_NoChild(p, k) ==
    /\ state' = [state EXCEPT ![p] = "WAIT"]
    /\ runcpu' = [runcpu EXCEPT ![p] = NoCpu]
    /\ UNCHANGED waitchild
WaitOn(p, k) ==
    /\ state' = [state EXCEPT ![p] = "WAIT"]
    /\ runcpu' = [runcpu EXCEPT ![p] = NoCpu]
    /\ waitchild' = [waitchild EXCEPT ![p] = k]

(* proc_run's record of where p runs. *)
RunOn_NoCpu(c, p) ==
    /\ state' = [state EXCEPT ![p] = "RUN"]
    /\ UNCHANGED runcpu
RunOn(c, p) ==
    /\ state' = [state EXCEPT ![p] = "RUN"]
    /\ runcpu' = [runcpu EXCEPT ![p] = c]

(* proc_save, into process p, of the registers on CPU c. *)
ProcSave_ToParent(c, p, entry, trapno) ==
    sv' = [sv EXCEPT ![Parent[p]] = Saved(tf[c], entry, trapno)]
ProcSave(c, p, entry, trapno) ==
    sv' = [sv EXCEPT ![p] = Saved(tf[c], entry, trapno)]

(* The ready queue after its head is taken. *)
Dequeue_KeepHead(q) == q
Dequeue(q) == Tail(q)

(* The new limit on CPUs. *)
CpuLimit_LastEnabled(val) == val - 1
CpuLimit(val) == IF val > 0 THEN val ELSE cpu_limit

Init ==
    /\ alloc = {Root}
    /\ state = [p \in Procs |-> IF p = Root THEN "READY" ELSE "STOP"]
    /\ runcpu = [p \in Procs |-> NoCpu]
    /\ waitchild = [p \in Procs |-> NoProc]
    /\ \E prog \in RootProgs : sv = BootRegs(prog)
    /\ mem = [p \in Procs |-> ZeroMem]
    /\ rmem = [p \in Procs |-> ZeroMem]
    /\ lock = [p \in Procs |-> NoCpu]
    /\ readylock = NoCpu
    /\ readyq = <<Root>>
    /\ cpu_limit = NCPU
    /\ pc = [c \in CPUs |-> "sched"]
    /\ cur = [c \in CPUs |-> NoProc]
    /\ tf = [c \in CPUs |-> ZeroFrame]
    /\ ret = [c \in CPUs |-> [entry |-> 0, trap |-> 0]]
    /\ nxt = [c \in CPUs |-> NoProc]

(* Enter proc_ret on CPU c: save registers r with this entry and trapno. *)
ProcRet(c, r, entry, trapno) ==
    /\ Goto(c, "ret")
    /\ tf' = [tf EXCEPT ![c] = r]
    /\ ret' = [ret EXCEPT ![c] = [entry |-> entry, trap |-> trapno]]

(* systrap: blame a trap on the INT instruction and abort the call. *)
Systrap(c, trapno) == ProcRet(c, tf[c], 0, trapno)

(* A page fault inside usercopy goes to sysrecover, which takes the user's
   trapframe from c->recoverdata.  usercopy never sets that pointer, so it
   is NULL and the frame is whatever lies at address 0. *)
Sysrecover(c) == ProcRet(c, NullFrame, 0, T_PGFLT)

(* trap_return after a completed system call. *)
Return(c) ==
    /\ Goto(c, "user")
    /\ tf' = [tf EXCEPT ![c] = Complete(@)]
    /\ UNCHANGED ret

-----------------------------------------------------------------------------
(* User mode and the system calls that take no lock *)

(* A user-mode write to memory. *)
UserStore(c) ==
    LET op == OpAt(c) IN
    /\ pc[c] = "user" /\ op.call = "STORE"
    /\ mem' = [mem EXCEPT ![cur[c]][op.page] = <<op.val>>]
    /\ Return(c)
    /\ UNCHANGED <<procvars, sv, rmem, lockvars, cpu_limit, cur, nxt>>

(* trap: an explicit INT instruction completes before the process stops,
   any other unhandled trap stops it before the instruction.  A system call
   number that syscall does not know is handled as a trap, but the processor
   has already stepped over the INT. *)
UserTrap(c) ==
    /\ pc[c] = "user"
    /\ \/ OpAt(c).call = "BRKPT" /\ ProcRet(c, tf[c], 1, T_BRKPT)
       \/ OpAt(c).call = "ILLOP" /\ ProcRet(c, tf[c], -1, T_ILLOP)
       \/ /\ OpAt(c).call = "UNDEF"
          /\ ProcRet(c, Complete(tf[c]), -1, T_SYSCALL)
    /\ UNCHANGED <<procvars, datavars, lockvars, cpu_limit, cur, nxt>>

DoCputs(c) ==
    LET op == OpAt(c) IN
    /\ pc[c] = "user" /\ op.call = "CPUTS"
    /\ \/ op.regs \in {"none", "copy"} /\ Return(c)
       \/ op.regs = "bad" /\ Systrap(c, T_PGFLT)
       \/ op.regs = "fault" /\ Sysrecover(c)
    /\ UNCHANGED <<procvars, datavars, lockvars, cpu_limit, cur, nxt>>

DoNcpu(c) ==
    LET op == OpAt(c) IN
    /\ pc[c] = "user" /\ op.call = "NCPU"
    /\ cpu_limit' = CpuLimit(op.val)
    /\ Return(c)
    /\ UNCHANGED <<procvars, datavars, lockvars, cur, nxt>>

DoRet(c) ==
    /\ pc[c] = "user" /\ OpAt(c).call = "RET"
    /\ ProcRet(c, tf[c], 1, T_SYSCALL)
    /\ UNCHANGED <<procvars, datavars, lockvars, cpu_limit, cur, nxt>>

-----------------------------------------------------------------------------
(* PUT and GET *)

(* Enter do_put or do_get and take the caller's own lock. *)
PutGetLock(c) ==
    LET p == cur[c] IN
    /\ pc[c] = "user" /\ OpAt(c).call \in {"PUT", "GET"}
    /\ OpAt(c).child \in Procs /\ Parent[OpAt(c).child] = p
    /\ Acquire(c, p)
    /\ Goto(c, "sync")
    /\ UNCHANGED <<procvars, datavars, readylock, readyq,
                   cpu_limit, cur, tf, ret, nxt>>

(* Find the child, created by a PUT if it does not exist, and go on to
   control it if it is stopped.  A GET of a child that does not exist works
   on proc_null, which is always stopped. *)
PutGetSync(c) ==
    LET p == cur[c]
        op == OpAt(c)
    IN
    /\ pc[c] = "sync"
    /\ Stopped(op.child)
    /\ alloc' = IF op.call = "PUT" THEN alloc \cup {op.child} ELSE alloc
    /\ Release(p)
    /\ Goto(c, "regs")
    /\ UNCHANGED <<state, runcpu, waitchild, datavars, readylock, readyq,
                   cpu_limit, cur, tf, ret, nxt>>

(* The child is not stopped: proc_wait aborts the call, which will be made
   again when the child wakes us, and looks for other work. *)
ProcWait_Yield(c) ==
    LET p == cur[c] IN
    /\ pc[c] = "sync"
    /\ ~Stopped(OpAt(c).child)
    /\ state' = [state EXCEPT ![p] = "READY"]
    /\ runcpu' = [runcpu EXCEPT ![p] = NoCpu]
    /\ readyq' = Append(readyq, p)
    /\ ProcSave(c, p, 0, T_SYSCALL)
    /\ Release(p)
    /\ Goto(c, "sched")
    /\ UNCHANGED <<alloc, waitchild, mem, rmem, readylock, cpu_limit, cur, tf,
                   ret, nxt>>
ProcWait(c) ==
    LET p == cur[c]
        cp == OpAt(c).child
    IN
    /\ pc[c] = "sync"
    /\ ~Stopped(cp)
    /\ WaitOn(p, cp)
    /\ ProcSave(c, p, 0, T_SYSCALL)
    /\ Release(p)
    /\ Goto(c, "sched")
    /\ UNCHANGED <<alloc, mem, rmem, readylock, readyq,
                   cpu_limit, cur, tf, ret, nxt>>

(* PUT with SYS_REGS.  A copy that faults may have written the child's
   registers already. *)
PutRegs(c) ==
    LET p == cur[c]
        op == OpAt(c)
        new == EntryRegs(op.prog)
    IN
    /\ pc[c] = "regs" /\ op.call = "PUT"
    /\ \/ op.regs = "none" /\ Goto(c, "memop") /\ UNCHANGED <<sv, tf, ret>>
       \/ /\ op.regs = "copy"
          /\ sv' = [sv EXCEPT ![op.child] = new]
          /\ Goto(c, "memop")
          /\ UNCHANGED <<tf, ret>>
       \/ op.regs = "bad" /\ Systrap(c, T_PGFLT) /\ UNCHANGED sv
       \/ /\ op.regs = "fault"
          /\ \E r \in {sv[op.child], new} : sv' = [sv EXCEPT ![op.child] = r]
          /\ Sysrecover(c)
    /\ UNCHANGED <<procvars, mem, rmem, lockvars, cpu_limit, cur, nxt>>

(* GET with SYS_REGS: the child's registers, or the zeroes of proc_null, go to
   the caller's memory.  A copy that faults may have written there already. *)
GetRegs(c) ==
    LET p == cur[c]
        op == OpAt(c)
        r == IF op.child \in alloc THEN sv[op.child] ELSE ZeroFrame
        got == [mem[p] EXCEPT ![op.page] = RegsWord(r)]
    IN
    /\ pc[c] = "regs" /\ op.call = "GET"
    /\ \/ op.regs = "none" /\ Goto(c, "memop") /\ UNCHANGED <<mem, tf, ret>>
       \/ /\ op.regs = "copy"
          /\ mem' = [mem EXCEPT ![p] = got]
          /\ Goto(c, "memop")
          /\ UNCHANGED <<tf, ret>>
       \/ op.regs = "bad" /\ Systrap(c, T_PGFLT) /\ UNCHANGED mem
       \/ /\ op.regs = "fault"
          /\ \E m \in {mem[p], got} : mem' = [mem EXCEPT ![p] = m]
          /\ Sysrecover(c)
    /\ UNCHANGED <<procvars, sv, rmem, lockvars, cpu_limit, cur, nxt>>

(* The memory operation of a PUT, from the caller's memory to the child's.
   MERGE is not an operation of PUT. *)
PutMem(c) ==
    LET p == cur[c]
        op == OpAt(c)
        cp == op.child
    IN
    /\ pc[c] = "memop" /\ op.call = "PUT"
    /\ \/ op.mem = "none" /\ Goto(c, "perm") /\ UNCHANGED <<mem, tf, ret>>
       \/ /\ op.mem \in {"zero", "copy"}
          /\ mem' = [mem EXCEPT ![cp] =
                        CopyPages(IF op.mem = "zero" THEN ZeroMem ELSE mem[p],
                                  mem[cp], op.pages)]
          /\ Goto(c, "perm")
          /\ UNCHANGED <<tf, ret>>
       \/ op.mem \in {"merge", "bad"} /\ Systrap(c, T_GPFLT) /\ UNCHANGED mem
    /\ UNCHANGED <<procvars, sv, rmem, lockvars, cpu_limit, cur, nxt>>

(* The call copies from a child that was never created.  The page map of
   proc_null is NULL, so that pmap_copy takes physical page 0 for a page table.
   An entry that is 0 there is not PTE_ZERO; its copy counts a reference to
   page 0, which the assertion of mem_incref refuses, and any other entry
   leads still further astray.  A copy of nothing does not look. *)
CopiesNull(op) ==
    op.mem = "copy" /\ op.pages # {} /\ op.child \notin alloc

(* The memory operation of a GET, from the child's memory to the caller's.  A
   merge from proc_null compares page 0 with itself, so it finds no change. *)
GetMem(c) ==
    LET p == cur[c]
        op == OpAt(c)
        cp == op.child
    IN
    /\ pc[c] = "memop" /\ op.call = "GET"
    /\ \/ op.mem = "none" /\ Goto(c, "perm") /\ UNCHANGED <<mem, tf, ret>>
       \/ /\ op.mem \in {"zero", "copy", "merge"} /\ ~CopiesNull(op)
          /\ mem' = [mem EXCEPT ![p] =
                        CASE op.mem = "zero"  -> CopyPages(ZeroMem, @, op.pages)
                          [] op.mem = "copy"  -> CopyPages(mem[cp], @, op.pages)
                          [] op.mem = "merge" -> MergePages(rmem[cp], mem[cp], @, op.pages)]
          /\ Goto(c, "perm")
          /\ UNCHANGED <<tf, ret>>
       \/ CopiesNull(op) /\ Goto(c, "nullmap") /\ UNCHANGED <<mem, tf, ret>>
       \/ op.mem = "bad" /\ Systrap(c, T_GPFLT) /\ UNCHANGED mem
    /\ UNCHANGED <<procvars, sv, rmem, lockvars, cpu_limit, cur, nxt>>

(* SYS_PERM and SYS_SNAP of a PUT, and whether it starts the child. *)
PutSnap(c) ==
    LET op == OpAt(c) IN
    /\ pc[c] = "perm" /\ op.call = "PUT"
    /\ \/ op.perm = "bad" /\ Systrap(c, T_GPFLT) /\ UNCHANGED rmem
       \/ /\ op.perm = "none"
          /\ rmem' = IF op.snap THEN [rmem EXCEPT ![op.child] = mem[op.child]]
                     ELSE rmem
          /\ \/ op.start /\ Goto(c, "start") /\ UNCHANGED <<tf, ret>>
             \/ ~op.start /\ Return(c)
    /\ UNCHANGED <<procvars, sv, mem, lockvars, cpu_limit, cur, nxt>>

(* The end of a GET, for which SYS_SNAP is not valid. *)
GetDone(c) ==
    LET op == OpAt(c) IN
    /\ pc[c] = "perm" /\ op.call = "GET"
    /\ IF op.perm = "bad" \/ op.snap THEN Systrap(c, T_GPFLT) ELSE Return(c)
    /\ UNCHANGED <<procvars, datavars, lockvars, cpu_limit, cur, nxt>>

(* PUT with SYS_START: proc_ready takes the ready queue's lock ... *)
ReadyLock(c) ==
    /\ pc[c] = "start"
    /\ readylock = NoCpu
    /\ readylock' = c
    /\ Goto(c, "enqueue")
    /\ UNCHANGED <<procvars, datavars, lock, readyq, cpu_limit, cur, tf, ret, nxt>>

(* ... and puts the child at the tail; then the call is complete. *)
ProcReady(c) ==
    LET cp == OpAt(c).child IN
    /\ pc[c] = "enqueue"
    /\ state' = [state EXCEPT ![cp] = "READY"]
    /\ readyq' = Append(readyq, cp)
    /\ readylock' = NoCpu
    /\ Return(c)
    /\ UNCHANGED <<alloc, runcpu, waitchild, datavars, lock, cpu_limit, cur, nxt>>

-----------------------------------------------------------------------------
(* Returning to the parent *)

(* proc_ret takes the parent's lock. *)
RetLock(c) ==
    LET p == Parent[cur[c]] IN
    /\ pc[c] = "ret" /\ cur[c] # Root
    /\ Acquire(c, p)
    /\ Goto(c, "stop")
    /\ UNCHANGED <<procvars, datavars, readylock, readyq,
                   cpu_limit, cur, tf, ret, nxt>>

(* The process stops.  A parent that waits for it runs next on this CPU,
   whose hold on the parent's lock passes to proc_run. *)
RetStop(c) ==
    LET cp == cur[c]
        p == Parent[cp]
    IN
    /\ pc[c] = "stop"
    /\ state' = [state EXCEPT ![cp] = "STOP"]
    /\ runcpu' = [runcpu EXCEPT ![cp] = NoCpu]
    /\ ProcSave(c, cp, ret[c].entry, ret[c].trap)
    /\ IF WaitsFor(p, cp)
       THEN /\ waitchild' = [waitchild EXCEPT ![p] = NoProc]
            /\ nxt' = [nxt EXCEPT ![c] = p]
            /\ Goto(c, "run")
            /\ UNCHANGED lock
       ELSE /\ Release(p)
            /\ Goto(c, "sched")
            /\ UNCHANGED <<waitchild, nxt>>
    /\ UNCHANGED <<alloc, mem, rmem, readylock, readyq, cpu_limit, cur, tf, ret>>

(* The root process's RET, where file_io found some I/O to do and lets it
   go on.  A trap in the root process is fatal. *)
RootRet(c) ==
    /\ pc[c] = "ret" /\ cur[c] = Root
    /\ IF ret[c].trap = T_SYSCALL /\ ret[c].entry = 1
       THEN Return(c)
       ELSE Goto(c, "panic") /\ UNCHANGED <<tf, ret>>
    /\ UNCHANGED <<procvars, datavars, lockvars, cpu_limit, cur, nxt>>

-----------------------------------------------------------------------------
(* Scheduling *)

Disabled(c) == c >= cpu_limit

(* proc_sched takes the ready queue's lock. *)
SchedLock(c) ==
    /\ pc[c] = "sched"
    /\ readylock = NoCpu
    /\ readylock' = c
    /\ Goto(c, "pick")
    /\ UNCHANGED <<procvars, datavars, lock, readyq, cpu_limit, cur, tf, ret, nxt>>

(* Nothing to run here: release the lock and spin. *)
SchedIdle(c) ==
    /\ pc[c] = "pick"
    /\ readyq = <<>> \/ Disabled(c)
    /\ readylock' = NoCpu
    /\ Goto(c, "idle")
    /\ UNCHANGED <<procvars, datavars, lock, readyq, cpu_limit, cur, tf, ret, nxt>>

(* The spin loop reads the queue without a lock, so it has to look again. *)
SchedSpin(c) ==
    /\ pc[c] = "idle"
    /\ readyq # <<>> /\ ~Disabled(c)
    /\ Goto(c, "sched")
    /\ UNCHANGED <<procvars, datavars, lockvars, cpu_limit, cur, tf, ret, nxt>>

SchedPick(c) ==
    /\ pc[c] = "pick"
    /\ readyq # <<>> /\ ~Disabled(c)
    /\ nxt' = [nxt EXCEPT ![c] = Head(readyq)]
    /\ readyq' = Dequeue(readyq)
    /\ Goto(c, "lockproc")
    /\ UNCHANGED <<procvars, datavars, lock, readylock, cpu_limit, cur, tf, ret>>

(* The process is locked before the queue is unlocked. *)
SchedLockProc(c) ==
    LET p == nxt[c] IN
    /\ pc[c] = "lockproc"
    /\ Acquire(c, p)
    /\ readylock' = NoCpu
    /\ Goto(c, "run")
    /\ UNCHANGED <<procvars, datavars, readyq, cpu_limit, cur, tf, ret, nxt>>

ProcRun(c) ==
    LET p == nxt[c] IN
    /\ pc[c] = "run"
    /\ RunOn(c, p)
    /\ cur' = [cur EXCEPT ![c] = p]
    /\ tf' = [tf EXCEPT ![c] = Resume(sv[p])]
    /\ Release(p)
    /\ Goto(c, "user")
    /\ UNCHANGED <<alloc, waitchild, datavars, readylock, readyq,
                   cpu_limit, ret, nxt>>

-----------------------------------------------------------------------------
UserStep(c) ==
    \/ UserStore(c) \/ UserTrap(c) \/ DoCputs(c) \/ DoNcpu(c) \/ DoRet(c)
    \/ PutGetLock(c)

KernelStep(c) ==
    \/ PutGetSync(c) \/ ProcWait(c)
    \/ PutRegs(c) \/ GetRegs(c) \/ PutMem(c) \/ GetMem(c)
    \/ PutSnap(c) \/ GetDone(c) \/ ReadyLock(c) \/ ProcReady(c)
    \/ RetLock(c) \/ RetStop(c) \/ RootRet(c)

SchedStep(c) ==
    \/ SchedLock(c) \/ SchedIdle(c) \/ SchedSpin(c) \/ SchedPick(c)
    \/ SchedLockProc(c) \/ ProcRun(c)

CpuStep(c) == UserStep(c) \/ KernelStep(c) \/ SchedStep(c)

Next == \E c \in CPUs : CpuStep(c)

Spec == Init /\ [][Next]_vars

(* Every CPU keeps executing; nothing is assumed about who wins a lock. *)
FairSpec == Spec /\ \A c \in CPUs : WF_vars(CpuStep(c))

-----------------------------------------------------------------------------
(* Correctness *)

(* A CPU stops for good at "panic" and, in the kernel's own fault, "nullmap". *)
Labels == {"user", "sync", "regs", "memop", "perm", "start", "enqueue", "ret",
           "stop", "panic", "nullmap", "sched", "pick", "idle", "lockproc", "run"}

(* Control points at which a CPU works on behalf of the process cur[c]. *)
Executing(c) ==
    pc[c] \in {"user", "sync", "regs", "memop", "perm", "start", "enqueue",
              "ret", "stop", "panic", "nullmap"}

(* Control points at which a CPU controls a child without holding a lock. *)
Controls(c, k) ==
    /\ pc[c] \in {"regs", "memop", "perm", "start", "enqueue", "nullmap"}
    /\ OpAt(c).child = k

(* CPU c has taken p from the queue, or been handed p, to run it. *)
Picked(c, p) == pc[c] \in {"lockproc", "run"} /\ nxt[c] = p

InQueue(p) == \E i \in 1 .. Len(readyq) : readyq[i] = p

(* Every variable holds a value of its C type. *)
TypeOK ==
    /\ alloc \in SUBSET Procs
    /\ state \in [Procs -> {"STOP", "READY", "RUN", "WAIT"}]
    /\ runcpu \in [Procs -> CPUs \cup {NoCpu}]
    /\ waitchild \in [Procs -> Procs \cup {NoProc}]
    /\ sv \in [Procs -> Regs]
    /\ mem \in [Procs -> [Pages -> Words]]
    /\ rmem \in [Procs -> [Pages -> Words]]
    /\ lock \in [Procs -> CPUs \cup {NoCpu}]
    /\ readylock \in CPUs \cup {NoCpu}
    /\ readyq \in Seq(Procs)
    /\ cpu_limit \in Nat
    /\ pc \in [CPUs -> Labels]
    /\ cur \in [CPUs -> Procs \cup {NoProc}]
    /\ tf \in [CPUs -> Regs]
    /\ ret \in [CPUs -> [entry: {-1, 0, 1}, trap: Traps]]
    /\ nxt \in [CPUs -> Procs \cup {NoProc}]

(* A process is in the RUN state exactly while one CPU, the one recorded in
   runcpu, works on its behalf: no interleaving of proc_sched, proc_run,
   proc_wait and proc_ret lets two CPUs run one process, or marks a process
   running that no CPU runs. *)
RunsOnOneCpu ==
    /\ \A c \in CPUs : Executing(c) =>
          /\ cur[c] \in Procs
          /\ state[cur[c]] = "RUN"
          /\ runcpu[cur[c]] = c
    /\ \A p \in Procs : state[p] = "RUN" =>
          /\ runcpu[p] \in CPUs
          /\ Executing(runcpu[p])
          /\ cur[runcpu[p]] = p

(* A process that is in the ready queue is there once and is READY, a READY
   process is in the queue or in the hands of a CPU that is about to run it,
   and no two CPUs are about to run the same process.  The linked list of
   proc_ready and proc_sched would be corrupted by a process queued twice. *)
ReadyQueueExact ==
    /\ \A i, j \in 1 .. Len(readyq) : readyq[i] = readyq[j] => i = j
    /\ \A i \in 1 .. Len(readyq) : state[readyq[i]] = "READY"
    /\ \A p \in Procs :
          state[p] = "READY" => InQueue(p) \/ \E c \in CPUs : Picked(c, p)
    /\ \A c \in CPUs : \A p \in Procs : Picked(c, p) =>
          ~InQueue(p) /\ \A d \in CPUs : Picked(d, p) => c = d

(* do_put and do_get release the caller's lock before they read and write
   the child: "Since the child is now stopped, it's ours to control".  It is:
   until the call ends the child stays stopped, is neither queued nor about
   to run, and no other CPU controls it. *)
ChildUnderControl ==
    \A c \in CPUs : \A k \in Procs : Controls(c, k) =>
        /\ Parent[k] = cur[c]
        /\ state[k] = "STOP"
        /\ ~InQueue(k)
        /\ \A d \in CPUs : ~Picked(d, k) /\ (Controls(d, k) => c = d)

(* A parent that proc_wait put to sleep is never forgotten: the child it
   waits for is its own and has still to stop, and if that child has stopped
   a CPU is on its way to run the parent. *)
NoLostWakeup ==
    \A p \in Procs : state[p] = "WAIT" =>
        \/ /\ waitchild[p] \in Procs
           /\ Parent[waitchild[p]] = p
           /\ state[waitchild[p]] # "STOP"
        \/ waitchild[p] = NoProc /\ \E c \in CPUs : pc[c] = "run" /\ nxt[c] = p

(* The spinlocks are held exactly where the code holds them, so that no CPU
   acquires a lock it already has and none releases a lock it does not have
   (the two panics of spinlock.c). *)
LockDiscipline ==
    /\ \A c \in CPUs :
          readylock = c <=> pc[c] \in {"enqueue", "pick", "lockproc"}
    /\ \A c \in CPUs : \A p \in Procs :
          lock[p] = c <=>
              \/ pc[c] = "sync" /\ cur[c] = p
              \/ pc[c] = "stop" /\ Parent[cur[c]] = p
              \/ pc[c] = "run" /\ nxt[c] = p

(* Isolation, as a property of steps: a step changes the memory or the saved registers of a process
   only on behalf of that process while it runs, or on behalf of its running
   parent while it is stopped. *)
IsolationStep ==
    \A p \in Procs :
        (mem'[p] # mem[p] \/ rmem'[p] # rmem[p] \/ sv'[p] # sv[p]) =>
            \/ state[p] = "RUN"
            \/ /\ state[p] = "STOP"
               /\ Parent[p] \in Procs /\ state[Parent[p]] = "RUN"

Isolation == [][IsolationStep]_vars

(* The state machine of a process: only its own RET or trap stops it, only
   a PUT of its parent readies it, and it waits only from running. *)
StateMachineStep ==
    \A p \in Procs : state'[p] # state[p] =>
        \/ state[p] = "STOP" /\ state'[p] = "READY" /\ state[Parent[p]] = "RUN"
        \/ state[p] = "READY" /\ state'[p] = "RUN"
        \/ state[p] = "RUN" /\ state'[p] \in {"STOP", "WAIT"}
        \/ state[p] = "WAIT" /\ state'[p] = "RUN" /\ waitchild[p] = NoProc

StateMachine == [][StateMachineStep]_vars

(* A process whose system call faults in usercopy stops with the registers
   of its own program, so that its parent gets "the correct trapno, err, and
   eip values" (kern/syscall.c:63).  The program a process runs is the one
   its registers pointed to when it was last resumed. *)
FaultKeepsProgram ==
    [][\A p \in Procs : state[p] = "RUN" /\ state'[p] = "STOP" =>
          sv'[p].prog = sv[p].prog]_vars

(* A call of a process never brings the kernel down: no GET makes do_get walk
   the NULL page map of proc_null, "null process - just leave it initialized
   to 0" (kern/proc.c:31). *)
CallsComplete == \A c \in CPUs : pc[c] # "nullmap"

(* A process that is ready, or waits for a child, runs again. *)
EventuallyRuns ==
    \A p \in Procs : state[p] \in {"READY", "WAIT"} ~> state[p] = "RUN"
=============================================================================
