----------------------------- MODULE ProcProofs -----------------------------
(***************************************************************************)
(* Proofs of the safety properties of Proc, for any number of CPUs, any    *)
(* process tree and any program texts.                                     *)
(***************************************************************************)
EXTENDS Proc, TLAPS

(* What a CPU knows at each control point: the call it carries out names a
   child of the process it executes, and the process it is about to run is
   either fresh from the queue or a parent whose child has just stopped. *)
ControlFacts ==
    \A c \in CPUs :
        /\ pc[c] \in {"sync", "regs", "memop", "perm", "start", "enqueue", "nullmap"} =>
              OpAt(c).child \in Procs /\ Parent[OpAt(c).child] = cur[c]
        /\ pc[c] = "stop" => cur[c] # Root
        /\ pc[c] = "lockproc" => nxt[c] \in Procs /\ state[nxt[c]] = "READY"
        /\ pc[c] = "run" =>
              /\ nxt[c] \in Procs
              /\ \/ state[nxt[c]] = "READY"
                 \/ state[nxt[c]] = "WAIT" /\ waitchild[nxt[c]] = NoProc

(* The properties of Proc that hold each other up. *)
Control ==
    /\ ControlFacts
    /\ RunsOnOneCpu
    /\ ReadyQueueExact
    /\ ChildUnderControl
    /\ NoLostWakeup
    /\ LockDiscipline

IInv == TypeOK /\ Control

-----------------------------------------------------------------------------
(* The operators on registers and memory preserve types. *)

(* Instruction fetch: the current instruction of a register state is an
   instruction record (OpOf). *)
LEMMA OpOfType == ASSUME NEW r \in Regs PROVE OpOf(r) \in Ops
  BY CodeAssumption DEF OpOf, Regs

(* Completing an instruction, saving and resuming yield register states
   (proc_save, trap_return). *)
LEMMA RegsTypes ==
    ASSUME NEW r \in Regs, NEW entry \in {-1, 0, 1}, NEW t \in Traps
    PROVE  /\ Complete(r) \in Regs
           /\ Saved(r, entry, t) \in Regs
           /\ Resume(r) \in Regs
  BY ConstAssumption DEF Complete, Saved, Resume, Regs, Traps, T_BRKPT, T_ILLOP,
     T_GPFLT, T_PGFLT, T_SYSCALL

(* A parent loads the entry point of a program (SYS_REGS of a PUT). *)
LEMMA EntryRegsType == ASSUME NEW g \in Progs PROVE EntryRegs(g) \in Regs
  BY ConstAssumption DEF EntryRegs, Regs, Traps

(* Words written to memory are words: a user store, a register image and a
   zero page. *)
LEMMA WordTypes ==
    /\ Zero \in Words
    /\ \A n \in Nat : <<n>> \in Words
    /\ \A r \in Regs : RegsWord(r) \in Words
  <1>1. Zero \in Words
    BY DEF Zero, Words
  <1>2. \A n \in Nat : <<n>> \in Words
    BY DEF Words
  <1>3. ASSUME NEW r \in Regs PROVE RegsWord(r) \in Words
    <2>1. r.ip \in Nat /\ r.trap \in Nat
      BY ConstAssumption DEF Regs, Traps, T_BRKPT, T_ILLOP, T_GPFLT, T_PGFLT, T_SYSCALL
    <2> QED BY <2>1 DEF RegsWord, Words
  <1> QED BY <1>1, <1>2, <1>3

(* The memory operations map memories to memories (pmap_copy, pmap_remove
   and pmap_merge at the level of pages). *)
LEMMA MemTypes ==
    ASSUME NEW m \in [Pages -> Words], NEW n \in [Pages -> Words],
           NEW r \in [Pages -> Words], NEW S
    PROVE  /\ ZeroMem \in [Pages -> Words]
           /\ CopyPages(m, n, S) \in [Pages -> Words]
           /\ MergePages(r, m, n, S) \in [Pages -> Words]
  BY WordTypes DEF ZeroMem, CopyPages, MergePages

-----------------------------------------------------------------------------
(* Preservation of the inductive invariant. *)

(* The invariant holds at boot: the root process is in the queue and every
   CPU enters proc_sched. *)
LEMMA InitIInv == Init => IInv
  <1> SUFFICES ASSUME Init PROVE IInv
    OBVIOUS
  <1> USE ConstAssumption, TreeAssumption, CpuAssumption
  <1>1. TypeOK
    <2>1. sv \in [Procs -> Regs]
      BY EntryRegsType DEF Init, BootRegs
    <2>2. mem \in [Procs -> [Pages -> Words]] /\ rmem \in [Procs -> [Pages -> Words]]
      BY WordTypes DEF Init, ZeroMem
    <2>3. ret \in [CPUs -> [entry: {-1, 0, 1}, trap: Traps]]
      BY DEF Init, Traps
    <2> QED BY <2>1, <2>2, <2>3 DEF Init, TypeOK, Labels
  <1>2. ControlFacts
    BY DEF Init, ControlFacts
  <1>3. RunsOnOneCpu
    BY DEF Init, RunsOnOneCpu, Executing
  <1>4. ReadyQueueExact
    <2>1. Len(readyq) = 1 /\ readyq[1] = Root
      BY DEF Init
    <2>2. \A p \in Procs : state[p] = "READY" => InQueue(p)
      BY <2>1 DEF Init, InQueue
    <2>3. \A d \in CPUs, p \in Procs : ~Picked(d, p)
      BY DEF Init, Picked
    <2>4. \A i \in 1 .. Len(readyq) : i = 1 /\ state[readyq[i]] = "READY"
      BY <2>1 DEF Init
    <2> QED BY <2>2, <2>3, <2>4 DEF ReadyQueueExact
  <1>5. ChildUnderControl
    BY DEF Init, ChildUnderControl, Controls
  <1>6. NoLostWakeup
    BY DEF Init, NoLostWakeup
  <1>7. LockDiscipline
    BY DEF Init, LockDiscipline
  <1> QED BY <1>1, <1>2, <1>3, <1>4, <1>5, <1>6, <1>7 DEF IInv, Control

(* Types are preserved by every kernel action. *)
LEMMA TypeStep == ASSUME IInv, NEW c \in CPUs, CpuStep(c) PROVE TypeOK'
  <1> USE ConstAssumption, TreeAssumption, CpuAssumption DEF IInv, Control
  <1> DEFINE op == OpAt(c)
  <1>1. op \in Ops
    BY OpOfType DEF TypeOK, OpAt
  <1>2. Executing(c) => cur[c] \in Procs
    BY DEF RunsOnOneCpu
  <1>3. tf[c] \in Regs /\ Complete(tf[c]) \in Regs
    BY RegsTypes DEF TypeOK, Traps
  <1>4. \A l \in Labels : Goto(c, l) => pc' \in [CPUs -> Labels]
    BY DEF Goto, TypeOK
  <1>5. ASSUME NEW r \in Regs, NEW e \in {-1, 0, 1}, NEW t \in Traps, ProcRet(c, r, e, t)
        PROVE  /\ pc' \in [CPUs -> Labels]
               /\ tf' \in [CPUs -> Regs]
               /\ ret' \in [CPUs -> [entry: {-1, 0, 1}, trap: Traps]]
    BY <1>4, <1>5 DEF ProcRet, TypeOK, Labels
  <1>6. ASSUME Return(c)
        PROVE  /\ pc' \in [CPUs -> Labels]
               /\ tf' \in [CPUs -> Regs]
               /\ ret' \in [CPUs -> [entry: {-1, 0, 1}, trap: Traps]]
    BY <1>3, <1>4, <1>6 DEF Return, TypeOK, Labels
  <1>7. ASSUME NEW t \in Traps, Systrap(c, t)
        PROVE  /\ pc' \in [CPUs -> Labels]
               /\ tf' \in [CPUs -> Regs]
               /\ ret' \in [CPUs -> [entry: {-1, 0, 1}, trap: Traps]]
    BY <1>3, <1>5, <1>7 DEF Systrap
  <1>8. ASSUME Sysrecover(c)
        PROVE  /\ pc' \in [CPUs -> Labels]
               /\ tf' \in [CPUs -> Regs]
               /\ ret' \in [CPUs -> [entry: {-1, 0, 1}, trap: Traps]]
    BY <1>5, <1>8 DEF Sysrecover, Traps
  <1>9. /\ T_BRKPT \in Traps /\ T_ILLOP \in Traps /\ T_GPFLT \in Traps
        /\ T_PGFLT \in Traps /\ T_SYSCALL \in Traps
    BY DEF Traps
  <1> USE DEF procvars, datavars, lockvars
  <1>a. CASE UserStore(c)
    <2>1. <<op.val>> \in Words
      BY <1>1, WordTypes DEF Ops
    <2>2. mem' \in [Procs -> [Pages -> Words]]
      BY <1>a, <2>1 DEF UserStore, TypeOK
    <2> QED BY <1>a, <1>6, <2>2 DEF UserStore, TypeOK
  <1>b. CASE UserTrap(c)
    BY <1>b, <1>3, <1>5, <1>9 DEF UserTrap, TypeOK
  <1>c. CASE DoCputs(c)
    BY <1>c, <1>6, <1>7, <1>8, <1>9 DEF DoCputs, TypeOK
  <1>d. CASE DoNcpu(c)
    BY <1>d, <1>1, <1>6 DEF DoNcpu, TypeOK, Ops, CpuLimit
  <1>e. CASE DoRet(c)
    BY <1>e, <1>3, <1>5, <1>9 DEF DoRet, TypeOK
  <1>f. CASE PutGetLock(c)
    BY <1>f, <1>2, <1>4 DEF PutGetLock, TypeOK, Labels, Executing, Acquire
  <1>g. CASE PutGetSync(c)
    <2>1. op.child \in Procs
      BY <1>g DEF PutGetSync, ControlFacts, Stopped, Release
    <2> QED BY <1>g, <1>4, <2>1 DEF PutGetSync, TypeOK, Labels, Stopped, Release
  <1>h. CASE ProcWait(c)
    <2>1. op.child \in Procs
      BY <1>h DEF ProcWait, ControlFacts, Stopped, WaitOn, ProcSave, Release
    <2>2. Saved(tf[c], 0, T_SYSCALL) \in Regs
      BY <1>3, <1>9, RegsTypes
    <2> QED BY <1>h, <1>4, <2>1, <2>2 DEF ProcWait, TypeOK, Labels, WaitOn, ProcSave, Release
  <1>i. CASE PutRegs(c)
    <2>1. op.child \in Procs
      BY <1>i DEF PutRegs, ControlFacts
    <2>2. EntryRegs(op.prog) \in Regs
      BY <1>1, EntryRegsType DEF Ops
    <2>3. \/ sv' = sv
          \/ sv' = [sv EXCEPT ![op.child] = EntryRegs(op.prog)]
          \/ sv' = [sv EXCEPT ![op.child] = sv[op.child]]
      BY <1>i, Zenon DEF PutRegs
    <2>4. sv' \in [Procs -> Regs]
      BY <2>1, <2>2, <2>3 DEF TypeOK
    <2> QED BY <1>i, <1>4, <1>7, <1>8, <1>9, <2>4 DEF PutRegs, TypeOK, Labels
  <1>j. CASE GetRegs(c)
    <2>1. \A r \in Regs : RegsWord(r) \in Words
      BY WordTypes
    <2> DEFINE r == IF op.child \in alloc THEN sv[op.child] ELSE ZeroFrame
               got == [mem[cur[c]] EXCEPT ![op.page] = RegsWord(r)]
    <2>3. op.child \in Procs /\ cur[c] \in Procs
      BY <1>j, <1>2 DEF GetRegs, ControlFacts, Executing
    <2>4. r \in Regs
      BY <2>3, ConstAssumption DEF TypeOK
    <2>5. mem[cur[c]] \in [Pages -> Words] /\ got \in [Pages -> Words]
      <3> HIDE DEF r
      <3> QED BY <2>1, <2>3, <2>4 DEF TypeOK
    <2>6. \/ mem' = mem
          \/ mem' = [mem EXCEPT ![cur[c]] = got]
          \/ mem' = [mem EXCEPT ![cur[c]] = mem[cur[c]]]
      BY <1>j, Zenon DEF GetRegs
    <2>2. mem' \in [Procs -> [Pages -> Words]]
      <3> HIDE DEF got
      <3> QED BY <2>3, <2>5, <2>6 DEF TypeOK
    <2> QED BY <1>j, <1>4, <1>7, <1>8, <1>9, <2>2 DEF GetRegs, TypeOK, Labels
  <1>k. CASE PutMem(c)
    <2>1. op.child \in Procs /\ cur[c] \in Procs
      BY <1>k, <1>2 DEF PutMem, ControlFacts, Executing
    <2>2. mem[op.child] \in [Pages -> Words] /\ mem[cur[c]] \in [Pages -> Words]
      BY <2>1 DEF TypeOK
    <2>3. /\ ZeroMem \in [Pages -> Words]
          /\ CopyPages(ZeroMem, mem[op.child], op.pages) \in [Pages -> Words]
          /\ CopyPages(mem[cur[c]], mem[op.child], op.pages) \in [Pages -> Words]
      BY <2>2, MemTypes
    <2>4. mem' \in [Procs -> [Pages -> Words]]
      BY <1>k, <2>3 DEF PutMem, TypeOK
    <2> QED BY <1>k, <1>4, <1>7, <1>9, <2>4 DEF PutMem, TypeOK, Labels
  <1>l. CASE GetMem(c)
    <2> DEFINE src == mem[op.child]
               ref == rmem[op.child]
    <2>1. cur[c] \in Procs /\ op.child \in Procs
      BY <1>l, <1>2 DEF GetMem, Executing, ControlFacts
    <2>2. mem[cur[c]] \in [Pages -> Words] /\ ZeroMem \in [Pages -> Words]
      BY <2>1, MemTypes DEF TypeOK
    <2>3. src \in [Pages -> Words] /\ ref \in [Pages -> Words]
      BY <2>1 DEF TypeOK
    <2> HIDE DEF src, ref
    <2>4. /\ CopyPages(ZeroMem, mem[cur[c]], op.pages) \in [Pages -> Words]
          /\ CopyPages(src, mem[cur[c]], op.pages) \in [Pages -> Words]
          /\ MergePages(ref, src, mem[cur[c]], op.pages) \in [Pages -> Words]
      BY <2>2, <2>3, MemTypes
    <2>5. mem' \in [Procs -> [Pages -> Words]]
      <3>1. CASE mem' = mem
        BY <3>1 DEF TypeOK
      <3>2. CASE mem' = [mem EXCEPT ![cur[c]] = CopyPages(ZeroMem, @, op.pages)]
        BY <3>2, <2>1, <2>4 DEF TypeOK
      <3>3. CASE mem' = [mem EXCEPT ![cur[c]] = CopyPages(src, @, op.pages)]
        BY <3>3, <2>1, <2>4 DEF TypeOK
      <3>4. CASE mem' = [mem EXCEPT ![cur[c]] = MergePages(ref, src, @, op.pages)]
        BY <3>4, <2>1, <2>4 DEF TypeOK
      <3> QED BY <1>l, <3>1, <3>2, <3>3, <3>4 DEF GetMem, src, ref
    <2> QED BY <1>l, <1>4, <1>7, <1>9, <2>5 DEF GetMem, TypeOK, Labels
  <1>m. CASE PutSnap(c)
    <2>1. op.child \in Procs
      BY <1>m DEF PutSnap, ControlFacts
    <2>2. rmem' = rmem \/ rmem' = [rmem EXCEPT ![op.child] = mem[op.child]]
      BY <1>m, Zenon DEF PutSnap
    <2>3. rmem' \in [Procs -> [Pages -> Words]]
      <3>1. mem[op.child] \in [Pages -> Words]
        BY <2>1 DEF TypeOK
      <3>2. CASE rmem' = rmem
        BY <3>2 DEF TypeOK
      <3>3. CASE rmem' = [rmem EXCEPT ![op.child] = mem[op.child]]
        BY <3>1, <3>3 DEF TypeOK
      <3> QED BY <2>2, <3>2, <3>3
    <2> QED BY <1>m, <1>4, <1>6, <1>7, <1>9, <2>3 DEF PutSnap, TypeOK, Labels
  <1>n. CASE GetDone(c)
    BY <1>n, <1>6, <1>7, <1>9 DEF GetDone, TypeOK
  <1>o. CASE ReadyLock(c)
    BY <1>o, <1>4 DEF ReadyLock, TypeOK, Labels
  <1>p. CASE ProcReady(c)
    <2>1. op.child \in Procs
      BY <1>p DEF ProcReady, ControlFacts
    <2> QED BY <1>p, <1>6, <2>1 DEF ProcReady, TypeOK
  <1>q. CASE RetLock(c)
    BY <1>q, <1>2, <1>4 DEF RetLock, TypeOK, Labels, Executing, Acquire
  <1>r. CASE RetStop(c)
    <2>1. cur[c] \in Procs /\ cur[c] # Root
      BY <1>r, <1>2 DEF RetStop, ControlFacts, Executing, ProcSave, WaitsFor, Release
    <2>2. Saved(tf[c], ret[c].entry, ret[c].trap) \in Regs
      BY <1>3, RegsTypes DEF TypeOK
    <2>3. pc' \in [CPUs -> Labels]
      BY <1>r, <1>4 DEF RetStop, Labels, ProcSave, WaitsFor, Release
    <2> QED BY <1>r, <2>1, <2>2, <2>3 DEF RetStop, TypeOK, ProcSave, WaitsFor, Release
  <1>s. CASE RootRet(c)
    BY <1>s, <1>4, <1>6 DEF RootRet, TypeOK, Labels
  <1>t. CASE SchedLock(c)
    BY <1>t, <1>4 DEF SchedLock, TypeOK, Labels
  <1>u. CASE SchedIdle(c)
    BY <1>u, <1>4 DEF SchedIdle, TypeOK, Labels
  <1>v. CASE SchedSpin(c)
    BY <1>v, <1>4 DEF SchedSpin, TypeOK, Labels
  <1>w. CASE SchedPick(c)
    <2>1. Head(readyq) \in Procs /\ Tail(readyq) \in Seq(Procs)
      BY <1>w DEF SchedPick, TypeOK, Dequeue
    <2> QED BY <1>w, <1>4, <2>1 DEF SchedPick, TypeOK, Labels, Dequeue
  <1>x. CASE SchedLockProc(c)
    BY <1>x, <1>4 DEF SchedLockProc, TypeOK, Labels, Acquire
  <1>y. CASE ProcRun(c)
    <2>1. nxt[c] \in Procs
      BY <1>y DEF ProcRun, ControlFacts, RunOn, Release
    <2>2. Resume(sv[nxt[c]]) \in Regs
      BY <2>1, <1>9, RegsTypes DEF TypeOK
    <2> QED BY <1>y, <1>4, <2>1, <2>2 DEF ProcRun, TypeOK, Labels, RunOn, Release
  <1> QED
    BY <1>a, <1>b, <1>c, <1>d, <1>e, <1>f, <1>g, <1>h, <1>i, <1>j, <1>k, <1>l, <1>m,
       <1>n, <1>o, <1>p, <1>q, <1>r, <1>s, <1>t, <1>u, <1>v, <1>w, <1>x, <1>y
       DEF CpuStep, UserStep, KernelStep, SchedStep

-----------------------------------------------------------------------------
(* One CPU executes a process, and a process that a CPU is about to run is
   READY or a woken WAITer: consequences of the invariant that the steps
   below use again and again. *)
LEMMA Exclusive ==
    ASSUME IInv
    PROVE  /\ \A c, d \in CPUs : Executing(c) /\ Executing(d) /\ cur[c] = cur[d] => c = d
           /\ \A c \in CPUs : Executing(c) =>
                 cur[c] \in Procs /\ state[cur[c]] = "RUN" /\ runcpu[cur[c]] = c
           /\ \A c \in CPUs, p \in Procs : Picked(c, p) =>
                 \/ state[p] = "READY"
                 \/ state[p] = "WAIT" /\ waitchild[p] = NoProc /\ pc[c] = "run"
           /\ \A p \in Procs : InQueue(p) => state[p] = "READY"
           /\ \A c \in CPUs, p \in Procs : Controls(c, p) => Executing(c) /\ cur[c] = Parent[p]
           /\ \A p \in Procs : Parent[p] # p
  <1> USE DEF IInv, Control
  <1>1. \A c, d \in CPUs : Executing(c) /\ Executing(d) /\ cur[c] = cur[d] => c = d
    BY DEF RunsOnOneCpu
  <1>2. \A c \in CPUs : Executing(c) =>
            cur[c] \in Procs /\ state[cur[c]] = "RUN" /\ runcpu[cur[c]] = c
    BY DEF RunsOnOneCpu
  <1>3. \A c \in CPUs, p \in Procs : Picked(c, p) =>
            \/ state[p] = "READY"
            \/ state[p] = "WAIT" /\ waitchild[p] = NoProc /\ pc[c] = "run"
    BY DEF ControlFacts, Picked
  <1>4. \A p \in Procs : InQueue(p) => state[p] = "READY"
    BY DEF ReadyQueueExact, InQueue
  <1>5. \A c \in CPUs, p \in Procs : Controls(c, p) => Executing(c) /\ cur[c] = Parent[p]
    BY DEF ChildUnderControl, Controls, Executing
  <1>6. \A p \in Procs : Parent[p] # p
    BY ConstAssumption, TreeAssumption
  <1> QED BY <1>1, <1>2, <1>3, <1>4, <1>5, <1>6

(* A step that touches no lock, no queue and no process state, and moves one
   CPU between control points that hold no lock, preserves the control
   invariant.  It may change memory, saved registers and the CPU's own
   registers, but the latter only when the system call is over. *)
LEMMA LocalStep ==
    ASSUME IInv, NEW c \in CPUs, NEW l \in Labels,
           pc[c] \in {"user", "regs", "memop", "perm", "ret"},
           Goto(c, l),
           \/ l \in {"user", "ret", "panic"} /\ \A d \in CPUs \ {c} : tf'[d] = tf[d]
           \/ /\ l \in {"memop", "perm", "start", "nullmap"}
              /\ pc[c] \in {"regs", "memop", "perm"}
              /\ tf' = tf,
           UNCHANGED <<state, runcpu, waitchild, lockvars, cur, nxt>>
    PROVE  Control'
  <1> USE DEF Control
  <1>0. /\ \A d \in CPUs : d # c => pc'[d] = pc[d]
        /\ pc'[c] = l
    BY DEF Goto, IInv, TypeOK
  <1>1. /\ \A d \in CPUs : Executing(d)' <=> Executing(d)
        /\ \A d \in CPUs, k \in Procs : Picked(d, k)' <=> Picked(d, k)
        /\ \A d \in CPUs, k \in Procs : Controls(d, k)' => Controls(d, k)
        /\ \A k \in Procs : InQueue(k)' <=> InQueue(k)
    BY <1>0 DEF Executing, Picked, Controls, InQueue, OpAt, OpOf, lockvars
  <1>2. ControlFacts'
    BY <1>0 DEF IInv, ControlFacts, OpAt, OpOf
  <1>3. RunsOnOneCpu'
    BY <1>1 DEF IInv, RunsOnOneCpu
  <1>4. ReadyQueueExact'
    BY <1>1 DEF IInv, ReadyQueueExact, lockvars
  <1>5. ChildUnderControl'
    BY <1>1 DEF IInv, ChildUnderControl
  <1>6. NoLostWakeup'
    BY <1>0 DEF IInv, NoLostWakeup
  <1>7. LockDiscipline'
    BY <1>0 DEF IInv, LockDiscipline, lockvars
  <1> QED BY <1>2, <1>3, <1>4, <1>5, <1>6, <1>7

(* The steps of user mode, of the unlocked phases of PUT and GET, and of the
   root process's RET are local. *)
LEMMA LocalActions ==
    ASSUME IInv, NEW c \in CPUs,
           \/ UserStore(c) \/ UserTrap(c) \/ DoCputs(c) \/ DoNcpu(c) \/ DoRet(c)
           \/ PutRegs(c) \/ GetRegs(c) \/ PutMem(c) \/ GetMem(c) \/ PutSnap(c)
           \/ GetDone(c) \/ RootRet(c)
    PROVE  Control'
  <1> USE DEF procvars, datavars
  <1> DEFINE Over(l) == /\ l \in {"user", "ret", "panic"}
                        /\ Goto(c, l)
                        /\ \A d \in CPUs \ {c} : tf'[d] = tf[d]
             Goes(l) == l \in {"memop", "perm", "start", "nullmap"} /\ Goto(c, l) /\ tf' = tf
  <1>1. /\ Return(c) => Over("user")
        /\ \A r, e, t : ProcRet(c, r, e, t) => Over("ret")
    BY DEF IInv, TypeOK, Return, ProcRet
  <1>2. /\ \A t : Systrap(c, t) => Over("ret")
        /\ Sysrecover(c) => Over("ret")
    BY <1>1 DEF Systrap, Sysrecover
  <1>3. Goto(c, "panic") /\ UNCHANGED <<tf, ret>> => Over("panic")
    OBVIOUS
  <1>4. UNCHANGED <<state, runcpu, waitchild, lockvars, cur, nxt>>
    BY DEF UserStore, UserTrap, DoCputs, DoNcpu, DoRet, PutRegs, GetRegs, PutMem, GetMem,
       PutSnap, GetDone, RootRet, CpuLimit
  <1>5. \/ /\ pc[c] \in {"user", "regs", "memop", "perm", "ret"}
           /\ Over("user") \/ Over("ret") \/ Over("panic")
        \/ /\ pc[c] \in {"regs", "memop", "perm"}
           /\ Goes("memop") \/ Goes("perm") \/ Goes("start") \/ Goes("nullmap")
    <2>1. CASE UserStore(c) \/ UserTrap(c) \/ DoCputs(c) \/ DoNcpu(c) \/ DoRet(c)
      BY <2>1, <1>1, <1>2 DEF UserStore, UserTrap, DoCputs, DoNcpu, DoRet, CpuLimit
    <2>2. CASE PutRegs(c)
      BY <2>2, <1>2 DEF PutRegs
    <2>3. CASE GetRegs(c)
      BY <2>3, <1>2 DEF GetRegs
    <2>4. CASE PutMem(c)
      BY <2>4, <1>2 DEF PutMem
    <2>5. CASE GetMem(c)
      BY <2>5, <1>2 DEF GetMem
    <2>6. CASE PutSnap(c)
      BY <2>6, <1>1, <1>2 DEF PutSnap
    <2>7. CASE GetDone(c)
      BY <2>7, <1>1, <1>2 DEF GetDone
    <2>8. CASE RootRet(c)
      BY <2>8, <1>1, <1>3 DEF RootRet
    <2> QED BY <2>1, <2>2, <2>3, <2>4, <2>5, <2>6, <2>7, <2>8
  <1>6. \E l \in Labels : Over(l) \/ (Goes(l) /\ pc[c] \in {"regs", "memop", "perm"})
    <2> HIDE DEF Over, Goes
    <2> QED BY <1>5 DEF Labels
  <1>7. pc[c] \in {"user", "regs", "memop", "perm", "ret"}
    BY <1>5
  <1>8. PICK l \in Labels : Over(l) \/ (Goes(l) /\ pc[c] \in {"regs", "memop", "perm"})
    BY <1>6
  <1> QED BY <1>4, <1>7, <1>8, LocalStep

(* do_put and do_get take the caller's lock. *)
LEMMA PutGetLockStep == ASSUME IInv, NEW c \in CPUs, PutGetLock(c) PROVE Control'
  <1> USE DEF Control, IInv, procvars
  <1>0. /\ \A d \in CPUs : d # c => pc'[d] = pc[d]
        /\ pc[c] = "user" /\ pc'[c] = "sync"
        /\ cur[c] \in Procs
        /\ \A k \in Procs : lock'[k] = IF k = cur[c] THEN c ELSE lock[k]
        /\ lock[cur[c]] = NoCpu
        /\ UNCHANGED <<state, runcpu, waitchild, readylock, readyq, cur, nxt, tf>>
    BY Exclusive DEF PutGetLock, Goto, TypeOK, Executing, Acquire
  <1>1. /\ \A d \in CPUs : Executing(d)' <=> Executing(d)
        /\ \A d \in CPUs, k \in Procs : Picked(d, k)' <=> Picked(d, k)
        /\ \A d \in CPUs, k \in Procs : Controls(d, k)' <=> Controls(d, k)
        /\ \A k \in Procs : InQueue(k)' <=> InQueue(k)
    BY <1>0 DEF Executing, Picked, Controls, InQueue, OpAt, OpOf
  <1>2. ControlFacts'
    <2>1. \A d \in CPUs : OpAt(d)' = OpAt(d)
      BY <1>0 DEF OpAt, OpOf
    <2>2. OpAt(c).child \in Procs /\ Parent[OpAt(c).child] = cur[c]
      BY DEF PutGetLock
    <2>3. ControlFacts
      OBVIOUS
    <2> QED BY <1>0, <2>1, <2>2, <2>3 DEF ControlFacts
  <1>3. RunsOnOneCpu'
    BY <1>0, <1>1 DEF RunsOnOneCpu
  <1>4. ReadyQueueExact'
    BY <1>0, <1>1 DEF ReadyQueueExact
  <1>5. ChildUnderControl'
    BY <1>0, <1>1 DEF ChildUnderControl
  <1>6. NoLostWakeup'
    BY <1>0 DEF NoLostWakeup
  <1>7. LockDiscipline'
    BY <1>0, CpuAssumption DEF LockDiscipline
  <1> QED BY <1>2, <1>3, <1>4, <1>5, <1>6, <1>7

(* The child is stopped: the caller's lock is released and the child is
   controlled without one.  No other CPU can control it, because only the
   CPU that runs the parent does, nor can it be queued or picked, because it
   is stopped. *)
LEMMA PutGetSyncStep == ASSUME IInv, NEW c \in CPUs, PutGetSync(c) PROVE Control'
  <1> USE DEF Control, IInv
  <1> DEFINE k0 == OpAt(c).child
  <1>0. /\ \A d \in CPUs : d # c => pc'[d] = pc[d]
        /\ pc[c] = "sync" /\ pc'[c] = "regs"
        /\ cur[c] \in Procs
        /\ \A k \in Procs : lock'[k] = IF k = cur[c] THEN NoCpu ELSE lock[k]
        /\ UNCHANGED <<state, runcpu, waitchild, readylock, readyq, cur, nxt, tf>>
    BY Exclusive DEF PutGetSync, Goto, TypeOK, Executing, Stopped, Release
  <1>1. k0 \in Procs /\ Parent[k0] = cur[c] /\ state[k0] = "STOP"
    BY <1>0 DEF ControlFacts, PutGetSync, Stopped, Release
  <1>2. /\ \A d \in CPUs : Executing(d)' <=> Executing(d)
        /\ \A d \in CPUs, k \in Procs : Picked(d, k)' <=> Picked(d, k)
        /\ \A d \in CPUs, k \in Procs : d # c => (Controls(d, k)' <=> Controls(d, k))
        /\ \A k \in Procs : Controls(c, k)' => k = k0
        /\ \A k \in Procs : InQueue(k)' <=> InQueue(k)
    BY <1>0 DEF Executing, Picked, Controls, InQueue, OpAt, OpOf
  <1>3. ControlFacts'
    BY <1>0 DEF ControlFacts, OpAt, OpOf
  <1>4. RunsOnOneCpu'
    BY <1>0, <1>2 DEF RunsOnOneCpu
  <1>5. ReadyQueueExact'
    BY <1>0, <1>2 DEF ReadyQueueExact
  <1>6. ChildUnderControl'
    <2>1. ~InQueue(k0) /\ \A d \in CPUs : ~Picked(d, k0)
      BY <1>1, Exclusive
    <2>2. \A d \in CPUs : Controls(d, k0) => d = c
      BY <1>0, <1>1, Exclusive DEF Executing
    <2> QED BY <1>0, <1>1, <1>2, <2>1, <2>2 DEF ChildUnderControl
  <1>7. NoLostWakeup'
    BY <1>0 DEF NoLostWakeup
  <1>8. LockDiscipline'
    BY <1>0, CpuAssumption DEF LockDiscipline
  <1> QED BY <1>3, <1>4, <1>5, <1>6, <1>7, <1>8

(* The child is not stopped: the caller becomes a waiter for it. *)
LEMMA ProcWaitStep == ASSUME IInv, NEW c \in CPUs, ProcWait(c) PROVE Control'
  <1> USE DEF Control, IInv
  <1> DEFINE k0 == OpAt(c).child
             p0 == cur[c]
  <1>0. /\ \A d \in CPUs : d # c => pc'[d] = pc[d]
        /\ pc[c] = "sync" /\ pc'[c] = "sched"
        /\ p0 \in Procs /\ state[p0] = "RUN" /\ runcpu[p0] = c
        /\ \A k \in Procs : lock'[k] = IF k = p0 THEN NoCpu ELSE lock[k]
        /\ \A k \in Procs : state'[k] = IF k = p0 THEN "WAIT" ELSE state[k]
        /\ \A k \in Procs : runcpu'[k] = IF k = p0 THEN NoCpu ELSE runcpu[k]
        /\ \A k \in Procs : waitchild'[k] = IF k = p0 THEN k0 ELSE waitchild[k]
        /\ UNCHANGED <<readylock, readyq, cur, nxt, tf>>
    BY Exclusive DEF ProcWait, Goto, TypeOK, Executing, Stopped, WaitOn, ProcSave, Release
  <1>1. k0 \in Procs /\ Parent[k0] = p0 /\ state[k0] # "STOP"
    BY <1>0 DEF ControlFacts, ProcWait, Stopped, WaitOn, ProcSave, Release
  <1>2. /\ \A d \in CPUs : Executing(d)' <=> Executing(d) /\ d # c
        /\ \A d \in CPUs, k \in Procs : Picked(d, k)' <=> Picked(d, k)
        /\ \A d \in CPUs, k \in Procs : Controls(d, k)' => Controls(d, k)
        /\ \A k \in Procs : InQueue(k)' <=> InQueue(k)
    BY <1>0 DEF Executing, Picked, Controls, InQueue, OpAt, OpOf
  <1>3. ~InQueue(p0) /\ \A d \in CPUs : ~Picked(d, p0) /\ ~Controls(d, p0)
    BY <1>0, Exclusive DEF ChildUnderControl
  <1>4. ControlFacts'
    BY <1>0, <1>3 DEF ControlFacts, OpAt, OpOf, Picked
  <1>5. RunsOnOneCpu'
    BY <1>0, <1>2, Exclusive DEF RunsOnOneCpu, Executing
  <1>6. ReadyQueueExact'
    <2>1. \A i \in 1 .. Len(readyq) : readyq[i] # p0
      BY <1>3 DEF InQueue
    <2>2. /\ readyq \in Seq(Procs) /\ readyq' = readyq
          /\ \A i \in 1 .. Len(readyq) : readyq[i] \in Procs
      BY <1>0 DEF TypeOK
    <2>3. ReadyQueueExact
      OBVIOUS
    <2> QED BY <1>0, <1>2, <2>1, <2>2, <2>3 DEF ReadyQueueExact
  <1>7. ChildUnderControl'
    BY <1>0, <1>2, <1>3 DEF ChildUnderControl
  <1>8. NoLostWakeup'
    BY <1>0, <1>1 DEF NoLostWakeup
  <1>9. LockDiscipline'
    BY <1>0, CpuAssumption DEF LockDiscipline
  <1> QED BY <1>4, <1>5, <1>6, <1>7, <1>8, <1>9

(* proc_ready and proc_sched take the ready queue's lock, and proc_sched
   gives it up when there is nothing to run. *)
LEMMA QueueLockStep ==
    ASSUME IInv, NEW c \in CPUs,
           ReadyLock(c) \/ SchedLock(c) \/ SchedIdle(c) \/ SchedSpin(c)
    PROVE  Control'
  <1> USE DEF Control, IInv, procvars, lockvars
  <1>0. /\ \A d \in CPUs : d # c => pc'[d] = pc[d]
        /\ \/ pc[c] = "start" /\ pc'[c] = "enqueue" /\ readylock = NoCpu /\ readylock' = c
           \/ pc[c] = "sched" /\ pc'[c] = "pick" /\ readylock = NoCpu /\ readylock' = c
           \/ pc[c] = "pick" /\ pc'[c] = "idle" /\ readylock' = NoCpu
           \/ pc[c] = "idle" /\ pc'[c] = "sched" /\ readylock' = readylock
        /\ UNCHANGED <<state, runcpu, waitchild, lock, readyq, cur, nxt, tf>>
    BY DEF ReadyLock, SchedLock, SchedIdle, SchedSpin, Goto, TypeOK
  <1>1. /\ \A d \in CPUs : Executing(d)' <=> Executing(d)
        /\ \A d \in CPUs, k \in Procs : Picked(d, k)' <=> Picked(d, k)
        /\ \A d \in CPUs, k \in Procs : Controls(d, k)' <=> Controls(d, k)
        /\ \A k \in Procs : InQueue(k)' <=> InQueue(k)
    BY <1>0 DEF Executing, Picked, Controls, InQueue, OpAt, OpOf
  <1>2. ControlFacts'
    BY <1>0 DEF ControlFacts, OpAt, OpOf
  <1>3. RunsOnOneCpu'
    BY <1>0, <1>1 DEF RunsOnOneCpu
  <1>4. ReadyQueueExact'
    BY <1>0, <1>1 DEF ReadyQueueExact
  <1>5. ChildUnderControl'
    BY <1>0, <1>1 DEF ChildUnderControl
  <1>6. NoLostWakeup'
    BY <1>0 DEF NoLostWakeup
  <1>7. LockDiscipline'
    BY <1>0, CpuAssumption DEF LockDiscipline
  <1> QED BY <1>2, <1>3, <1>4, <1>5, <1>6, <1>7

(* proc_ready puts the child that the CPU controls into the queue, where it
   is not yet. *)
LEMMA ProcReadyStep == ASSUME IInv, NEW c \in CPUs, ProcReady(c) PROVE Control'
  <1> USE DEF Control, IInv
  <1> DEFINE k0 == OpAt(c).child
  <1>0. /\ \A d \in CPUs : d # c => pc'[d] = pc[d] /\ tf'[d] = tf[d]
        /\ pc[c] = "enqueue" /\ pc'[c] = "user"
        /\ readylock' = NoCpu
        /\ readyq' = Append(readyq, k0)
        /\ UNCHANGED <<runcpu, waitchild, lock, cur, nxt>>
    BY DEF ProcReady, Return, Goto, TypeOK
  <1>1. k0 \in Procs /\ Controls(c, k0) /\ state[k0] = "STOP"
    BY <1>0 DEF ControlFacts, ChildUnderControl, Controls
  <1>2. \A k \in Procs : state'[k] = IF k = k0 THEN "READY" ELSE state[k]
    BY DEF ProcReady, TypeOK
  <1>3. /\ ~InQueue(k0)
        /\ \A d \in CPUs : ~Picked(d, k0) /\ (Controls(d, k0) => d = c)
    BY <1>1 DEF ChildUnderControl
  <1>4. /\ Len(readyq') = Len(readyq) + 1
        /\ readyq'[Len(readyq) + 1] = k0
        /\ \A i \in 1 .. Len(readyq) : readyq'[i] = readyq[i] /\ readyq[i] # k0
        /\ Len(readyq) \in Nat
        /\ \A i \in 1 .. Len(readyq) : readyq[i] \in Procs
    BY <1>0, <1>1, <1>3 DEF InQueue, TypeOK
  <1>5. /\ \A d \in CPUs : Executing(d)' <=> Executing(d)
        /\ \A d \in CPUs, k \in Procs : Picked(d, k)' <=> Picked(d, k)
        /\ \A d \in CPUs, k \in Procs : Controls(d, k)' => Controls(d, k) /\ k # k0
    BY <1>0, <1>3 DEF Executing, Picked, Controls, OpAt, OpOf
  <1>6. \A k \in Procs : InQueue(k)' <=> (InQueue(k) \/ k = k0)
    <2>1. 1 .. Len(readyq') = (1 .. Len(readyq)) \cup {Len(readyq) + 1}
      BY <1>4
    <2> HIDE DEF k0
    <2> QED BY <1>4, <2>1 DEF InQueue
  <1>7. ControlFacts'
    <2>1. \A d \in CPUs : d # c => OpAt(d)' = OpAt(d)
      BY <1>0 DEF OpAt, OpOf
    <2>2. \A d \in CPUs : pc[d] = "lockproc" /\ nxt[d] \in Procs => nxt[d] # k0
      BY <1>3 DEF Picked
    <2>3. ControlFacts
      OBVIOUS
    <2> HIDE DEF k0
    <2> QED BY <1>0, <1>1, <1>2, <1>3, <2>1, <2>2, <2>3 DEF ControlFacts, Picked
  <1>8. RunsOnOneCpu'
    BY <1>0, <1>1, <1>2, <1>5 DEF RunsOnOneCpu
  <1>9. ReadyQueueExact'
    <2> HIDE DEF k0
    <2>1. \A i, j \in 1 .. Len(readyq') : readyq'[i] = readyq'[j] => i = j
      BY <1>4 DEF ReadyQueueExact
    <2>2. \A i \in 1 .. Len(readyq') : state'[readyq'[i]] = "READY"
      BY <1>1, <1>2, <1>4 DEF ReadyQueueExact
    <2>3. \A p \in Procs : state'[p] = "READY" => InQueue(p)' \/ \E d \in CPUs : Picked(d, p)'
      BY <1>2, <1>5, <1>6 DEF ReadyQueueExact
    <2>4. \A d \in CPUs : \A p \in Procs : Picked(d, p)' =>
              ~InQueue(p)' /\ \A e \in CPUs : Picked(e, p)' => d = e
      BY <1>3, <1>5, <1>6 DEF ReadyQueueExact
    <2> QED BY <2>1, <2>2, <2>3, <2>4 DEF ReadyQueueExact
  <1>a. ChildUnderControl'
    BY <1>0, <1>2, <1>5, <1>6 DEF ChildUnderControl
  <1>b. NoLostWakeup'
    BY <1>0, <1>2 DEF NoLostWakeup
  <1>c. LockDiscipline'
    BY <1>0, CpuAssumption DEF LockDiscipline
  <1> QED BY <1>7, <1>8, <1>9, <1>a, <1>b, <1>c

(* proc_ret takes the parent's lock. *)
LEMMA RetLockStep == ASSUME IInv, NEW c \in CPUs, RetLock(c) PROVE Control'
  <1> USE DEF Control, IInv, procvars
  <1> DEFINE p0 == Parent[cur[c]]
  <1>0. /\ \A d \in CPUs : d # c => pc'[d] = pc[d]
        /\ pc[c] = "ret" /\ pc'[c] = "stop" /\ cur[c] # Root
        /\ cur[c] \in Procs /\ p0 \in Procs
        /\ \A k \in Procs : lock'[k] = IF k = p0 THEN c ELSE lock[k]
        /\ lock[p0] = NoCpu
        /\ UNCHANGED <<state, runcpu, waitchild, readylock, readyq, cur, nxt, tf>>
    BY Exclusive, TreeAssumption DEF RetLock, Goto, TypeOK, Executing, Acquire
  <1>1. /\ \A d \in CPUs : Executing(d)' <=> Executing(d)
        /\ \A d \in CPUs, k \in Procs : Picked(d, k)' <=> Picked(d, k)
        /\ \A d \in CPUs, k \in Procs : Controls(d, k)' <=> Controls(d, k)
        /\ \A k \in Procs : InQueue(k)' <=> InQueue(k)
    BY <1>0 DEF Executing, Picked, Controls, InQueue, OpAt, OpOf
  <1>2. ControlFacts'
    BY <1>0 DEF ControlFacts, OpAt, OpOf
  <1>3. RunsOnOneCpu'
    BY <1>0, <1>1 DEF RunsOnOneCpu
  <1>4. ReadyQueueExact'
    BY <1>0, <1>1 DEF ReadyQueueExact
  <1>5. ChildUnderControl'
    BY <1>0, <1>1 DEF ChildUnderControl
  <1>6. NoLostWakeup'
    BY <1>0 DEF NoLostWakeup
  <1>7. LockDiscipline'
    BY <1>0, CpuAssumption DEF LockDiscipline
  <1> QED BY <1>2, <1>3, <1>4, <1>5, <1>6, <1>7

(* The process stops, and its parent is handed to this CPU if it waits for
   it.  Any other waiter waits for a child of its own, so the stop is of no
   concern to it. *)
LEMMA RetStopStep == ASSUME IInv, NEW c \in CPUs, RetStop(c) PROVE Control'
  <1> USE DEF Control, IInv
  <1> DEFINE k0 == cur[c]
             p0 == Parent[cur[c]]
  <1>0. /\ \A d \in CPUs : d # c => pc'[d] = pc[d] /\ nxt'[d] = nxt[d]
        /\ pc[c] = "stop"
        /\ k0 \in Procs /\ k0 # Root /\ state[k0] = "RUN" /\ runcpu[k0] = c
        /\ \A k \in Procs : state'[k] = IF k = k0 THEN "STOP" ELSE state[k]
        /\ \A k \in Procs : runcpu'[k] = IF k = k0 THEN NoCpu ELSE runcpu[k]
        /\ UNCHANGED <<readylock, readyq, cur, tf>>
    BY Exclusive DEF RetStop, Goto, TypeOK, Executing, ControlFacts, ProcSave, WaitsFor, Release
  <1>1. p0 \in Procs /\ p0 # k0 /\ lock[p0] = c
    BY <1>0, TreeAssumption DEF LockDiscipline
  <1>2. ~InQueue(k0) /\ \A d \in CPUs : ~Picked(d, k0) /\ ~Controls(d, k0)
    BY <1>0, Exclusive DEF ChildUnderControl
  <1>3. \A i \in 1 .. Len(readyq) : readyq[i] # k0
    BY <1>2 DEF InQueue
  <1>4. \A k \in Procs : InQueue(k)' <=> InQueue(k)
    BY <1>0 DEF InQueue
  <1>5. /\ \A d \in CPUs : Executing(d)' <=> Executing(d) /\ d # c
        /\ \A d \in CPUs, k \in Procs : d # c => (Picked(d, k)' <=> Picked(d, k))
        /\ \A d \in CPUs, k \in Procs : Controls(d, k)' => Controls(d, k)
        /\ \A k \in Procs : ~Picked(c, k)
        /\ pc'[c] \in {"run", "sched"}
    BY <1>0 DEF Executing, Picked, Controls, OpAt, OpOf, RetStop, Goto, TypeOK
  <1>6. RunsOnOneCpu'
    BY <1>0, <1>5, Exclusive DEF RunsOnOneCpu, Executing
  <1>7. CASE state[p0] = "WAIT" /\ waitchild[p0] = k0
    <2>0. /\ pc'[c] = "run" /\ nxt'[c] = p0
          /\ \A k \in Procs : waitchild'[k] = IF k = p0 THEN NoProc ELSE waitchild[k]
          /\ lock' = lock
      BY <1>7, <1>1 DEF RetStop, Goto, TypeOK, ProcSave, WaitsFor, Release
    <2>1. /\ ~InQueue(p0)
          /\ \A d \in CPUs : ~Picked(d, p0) /\ ~Controls(d, p0)
      BY <1>7, <1>1, <1>0, ConstAssumption, Exclusive DEF ChildUnderControl
    <2>2. \A k \in Procs : Picked(c, k)' <=> k = p0
      BY <2>0 DEF Picked
    <2>3. ControlFacts'
      <3>1. \A d \in CPUs : d # c /\ pc[d] \in {"lockproc", "run"} => nxt[d] # p0 /\ nxt[d] # k0
        BY <1>0, <1>1, <1>2, <2>1 DEF Picked
      <3> QED BY <1>0, <1>1, <1>7, <2>0, <3>1 DEF ControlFacts, OpAt, OpOf
    <2>4. ReadyQueueExact'
      <3>1. \A i, j \in 1 .. Len(readyq') : readyq'[i] = readyq'[j] => i = j
        BY <1>0 DEF ReadyQueueExact
      <3>2. \A i \in 1 .. Len(readyq') : state'[readyq'[i]] = "READY"
        BY <1>0, <1>3 DEF ReadyQueueExact, TypeOK
      <3>3. \A p \in Procs : state'[p] = "READY" => InQueue(p)' \/ \E d \in CPUs : Picked(d, p)'
        BY <1>0, <1>4, <1>5 DEF ReadyQueueExact
      <3>4. \A d \in CPUs : \A p \in Procs : Picked(d, p)' =>
                ~InQueue(p)' /\ \A e \in CPUs : Picked(e, p)' => d = e
        BY <1>4, <1>5, <2>1, <2>2 DEF ReadyQueueExact
      <3> QED BY <3>1, <3>2, <3>3, <3>4 DEF ReadyQueueExact
    <2>5. ChildUnderControl'
      BY <1>0, <1>4, <1>5, <2>1, <2>2 DEF ChildUnderControl
    <2>6. NoLostWakeup'
      BY <1>0, <1>1, <1>7, <2>0, ConstAssumption DEF NoLostWakeup
    <2>7. LockDiscipline'
      BY <1>0, <1>1, <2>0, CpuAssumption DEF LockDiscipline
    <2> QED BY <1>6, <2>3, <2>4, <2>5, <2>6, <2>7
  <1>8. CASE ~(state[p0] = "WAIT" /\ waitchild[p0] = k0)
    <2>0. /\ pc'[c] = "sched"
          /\ \A k \in Procs : lock'[k] = IF k = p0 THEN NoCpu ELSE lock[k]
          /\ UNCHANGED <<waitchild, nxt>>
      BY <1>8, <1>1 DEF RetStop, Goto, TypeOK, ProcSave, WaitsFor, Release
    <2>1. \A d \in CPUs, k \in Procs : Picked(d, k)' <=> Picked(d, k)
      BY <1>0, <1>5, <2>0 DEF Picked
    <2>2. ControlFacts'
      <3>1. \A d \in CPUs : pc[d] \in {"lockproc", "run"} => nxt[d] # k0
        BY <1>0, <1>2 DEF Picked
      <3> QED BY <1>0, <2>0, <3>1 DEF ControlFacts, OpAt, OpOf
    <2>3. ReadyQueueExact'
      <3>1. \A i, j \in 1 .. Len(readyq') : readyq'[i] = readyq'[j] => i = j
        BY <1>0 DEF ReadyQueueExact
      <3>2. \A i \in 1 .. Len(readyq') : state'[readyq'[i]] = "READY"
        BY <1>0, <1>3 DEF ReadyQueueExact, TypeOK
      <3>3. \A p \in Procs : state'[p] = "READY" => InQueue(p)' \/ \E d \in CPUs : Picked(d, p)'
        BY <1>0, <1>4, <2>1 DEF ReadyQueueExact
      <3>4. \A d \in CPUs : \A p \in Procs : Picked(d, p)' =>
                ~InQueue(p)' /\ \A e \in CPUs : Picked(e, p)' => d = e
        BY <1>4, <2>1 DEF ReadyQueueExact
      <3> QED BY <3>1, <3>2, <3>3, <3>4 DEF ReadyQueueExact
    <2>4. ChildUnderControl'
      BY <1>0, <1>4, <1>5, <2>1 DEF ChildUnderControl
    <2>5. NoLostWakeup'
      <3>1. \A p \in Procs : state[p] = "WAIT" => waitchild[p] # k0
        BY <1>0, <1>8, ConstAssumption DEF NoLostWakeup
      <3> QED BY <1>0, <2>0, <3>1 DEF NoLostWakeup
    <2>6. LockDiscipline'
      BY <1>0, <1>1, <2>0, CpuAssumption DEF LockDiscipline
    <2> QED BY <1>6, <2>2, <2>3, <2>4, <2>5, <2>6
  <1> QED BY <1>7, <1>8

(* proc_sched takes the head of the queue, which occurs in it only there. *)
LEMMA SchedPickStep == ASSUME IInv, NEW c \in CPUs, SchedPick(c) PROVE Control'
  <1> USE DEF Control, IInv, procvars
  <1> DEFINE p0 == Head(readyq)
  <1>0. /\ \A d \in CPUs : d # c => pc'[d] = pc[d] /\ nxt'[d] = nxt[d]
        /\ pc[c] = "pick" /\ pc'[c] = "lockproc" /\ nxt'[c] = p0
        /\ UNCHANGED <<state, runcpu, waitchild, lock, readylock, cur, tf>>
    BY DEF SchedPick, Goto, TypeOK, Dequeue
  <1>1. /\ p0 \in Procs
        /\ Len(readyq) \in Nat /\ Len(readyq) > 0
        /\ readyq[1] = p0
        /\ Len(readyq') = Len(readyq) - 1
        /\ \A i \in 1 .. Len(readyq') : readyq'[i] = readyq[i + 1]
        /\ \A i \in 1 .. Len(readyq) : readyq[i] \in Procs
    BY DEF SchedPick, TypeOK, Dequeue
  <1>2. InQueue(p0) /\ state[p0] = "READY"
    <2> HIDE DEF p0
    <2> QED BY <1>1 DEF InQueue, ReadyQueueExact
  <1>3. \A d \in CPUs : ~Picked(d, p0) /\ ~Controls(d, p0)
    BY <1>1, <1>2 DEF ReadyQueueExact, ChildUnderControl
  <1>4. \A k \in Procs : InQueue(k)' <=> InQueue(k) /\ k # p0
    <2> HIDE DEF p0
    <2> SUFFICES ASSUME NEW k \in Procs PROVE InQueue(k)' <=> InQueue(k) /\ k # p0
      OBVIOUS
    <2>1. ASSUME InQueue(k)' PROVE InQueue(k) /\ k # p0
      <3>1. PICK i \in 1 .. Len(readyq') : readyq'[i] = k
        BY <2>1 DEF InQueue
      <3>2. i + 1 \in 1 .. Len(readyq) /\ i + 1 # 1 /\ readyq[i + 1] = k
        BY <1>1, <3>1
      <3> QED BY <1>1, <3>2 DEF InQueue, ReadyQueueExact
    <2>2. ASSUME InQueue(k), k # p0 PROVE InQueue(k)'
      <3>1. PICK i \in 1 .. Len(readyq) : readyq[i] = k
        BY <2>2 DEF InQueue
      <3>2. i - 1 \in 1 .. Len(readyq') /\ readyq'[i - 1] = k
        BY <1>1, <2>2, <3>1
      <3> QED BY <3>2 DEF InQueue
    <2> QED BY <2>1, <2>2
  <1>5. /\ \A d \in CPUs : Executing(d)' <=> Executing(d)
        /\ \A d \in CPUs, k \in Procs : d # c => (Picked(d, k)' <=> Picked(d, k))
        /\ \A k \in Procs : Picked(c, k)' <=> k = p0
        /\ \A d \in CPUs, k \in Procs : Controls(d, k)' <=> Controls(d, k)
    BY <1>0 DEF Executing, Picked, Controls, OpAt, OpOf
  <1> HIDE DEF p0
  <1>6. ControlFacts'
    BY <1>0, <1>1, <1>2 DEF ControlFacts, OpAt, OpOf
  <1>7. RunsOnOneCpu'
    BY <1>0, <1>5 DEF RunsOnOneCpu
  <1>8. ReadyQueueExact'
    <2>1. \A i, j \in 1 .. Len(readyq') : readyq'[i] = readyq'[j] => i = j
      <3> SUFFICES ASSUME NEW i \in 1 .. Len(readyq'), NEW j \in 1 .. Len(readyq'),
                          readyq'[i] = readyq'[j]
                   PROVE  i = j
        OBVIOUS
      <3>1. /\ i + 1 \in 1 .. Len(readyq) /\ j + 1 \in 1 .. Len(readyq)
            /\ readyq[i + 1] = readyq[j + 1]
        BY <1>1
      <3>2. i + 1 = j + 1
        BY <3>1 DEF ReadyQueueExact
      <3> QED BY <3>2
    <2>2. \A i \in 1 .. Len(readyq') : state'[readyq'[i]] = "READY"
      <3> SUFFICES ASSUME NEW i \in 1 .. Len(readyq') PROVE state'[readyq'[i]] = "READY"
        OBVIOUS
      <3>1. i + 1 \in 1 .. Len(readyq) /\ readyq'[i] = readyq[i + 1]
        BY <1>1
      <3> QED BY <1>0, <3>1 DEF ReadyQueueExact
    <2>3. \A p \in Procs : state'[p] = "READY" => InQueue(p)' \/ \E d \in CPUs : Picked(d, p)'
      <3> SUFFICES ASSUME NEW p \in Procs, state'[p] = "READY", p # p0
                   PROVE  InQueue(p)' \/ \E d \in CPUs : Picked(d, p)'
        BY <1>5
      <3>1. CASE InQueue(p)
        BY <1>4, <3>1
      <3>2. CASE ~InQueue(p)
        <4>1. PICK d \in CPUs : Picked(d, p)
          BY <1>0, <3>2 DEF ReadyQueueExact
        <4>2. d # c
          BY <1>0, <4>1 DEF Picked
        <4> QED BY <1>5, <4>1, <4>2
      <3> QED BY <3>1, <3>2
    <2>4. \A d \in CPUs : \A p \in Procs : Picked(d, p)' =>
              ~InQueue(p)' /\ \A e \in CPUs : Picked(e, p)' => d = e
      BY <1>3, <1>4, <1>5 DEF ReadyQueueExact
    <2> QED BY <2>1, <2>2, <2>3, <2>4 DEF ReadyQueueExact
  <1>9. ChildUnderControl'
    BY <1>0, <1>1, <1>3, <1>4, <1>5 DEF ChildUnderControl
  <1>a. NoLostWakeup'
    BY <1>0 DEF NoLostWakeup
  <1>b. LockDiscipline'
    BY <1>0 DEF LockDiscipline
  <1> QED BY <1>6, <1>7, <1>8, <1>9, <1>a, <1>b

(* proc_sched locks the process it took before it unlocks the queue. *)
LEMMA SchedLockProcStep == ASSUME IInv, NEW c \in CPUs, SchedLockProc(c) PROVE Control'
  <1> USE DEF Control, IInv, procvars
  <1>0. /\ \A d \in CPUs : d # c => pc'[d] = pc[d]
        /\ pc[c] = "lockproc" /\ pc'[c] = "run" /\ nxt[c] \in Procs
        /\ \A k \in Procs : lock'[k] = IF k = nxt[c] THEN c ELSE lock[k]
        /\ lock[nxt[c]] = NoCpu /\ readylock' = NoCpu
        /\ UNCHANGED <<state, runcpu, waitchild, readyq, cur, nxt, tf>>
    BY DEF SchedLockProc, Goto, TypeOK, ControlFacts, Acquire
  <1>1. /\ \A d \in CPUs : Executing(d)' <=> Executing(d)
        /\ \A d \in CPUs, k \in Procs : Picked(d, k)' <=> Picked(d, k)
        /\ \A d \in CPUs, k \in Procs : Controls(d, k)' <=> Controls(d, k)
        /\ \A k \in Procs : InQueue(k)' <=> InQueue(k)
    BY <1>0 DEF Executing, Picked, Controls, InQueue, OpAt, OpOf
  <1>2. ControlFacts'
    BY <1>0 DEF ControlFacts, OpAt, OpOf
  <1>3. RunsOnOneCpu'
    BY <1>0, <1>1 DEF RunsOnOneCpu
  <1>4. ReadyQueueExact'
    BY <1>0, <1>1 DEF ReadyQueueExact
  <1>5. ChildUnderControl'
    BY <1>0, <1>1 DEF ChildUnderControl
  <1>6. NoLostWakeup'
    BY <1>0 DEF NoLostWakeup
  <1>7. LockDiscipline'
    BY <1>0, CpuAssumption DEF LockDiscipline
  <1> QED BY <1>2, <1>3, <1>4, <1>5, <1>6, <1>7

(* proc_run makes the process it was given run on this CPU and on no other:
   no other CPU was about to run it, and none executed it. *)
LEMMA ProcRunStep == ASSUME IInv, NEW c \in CPUs, ProcRun(c) PROVE Control'
  <1> USE DEF Control, IInv
  <1> DEFINE p0 == nxt[c]
  <1>0. /\ \A d \in CPUs : d # c => pc'[d] = pc[d] /\ cur'[d] = cur[d] /\ tf'[d] = tf[d]
        /\ pc[c] = "run" /\ pc'[c] = "user" /\ cur'[c] = p0
        /\ p0 \in Procs
        /\ \A k \in Procs : lock'[k] = IF k = p0 THEN NoCpu ELSE lock[k]
        /\ \A k \in Procs : state'[k] = IF k = p0 THEN "RUN" ELSE state[k]
        /\ \A k \in Procs : runcpu'[k] = IF k = p0 THEN c ELSE runcpu[k]
        /\ UNCHANGED <<waitchild, readylock, readyq, nxt>>
    BY DEF ProcRun, Goto, TypeOK, ControlFacts, RunOn, Release
  <1>1. /\ Picked(c, p0)
        /\ \/ state[p0] = "READY"
           \/ state[p0] = "WAIT" /\ waitchild[p0] = NoProc
        /\ lock[p0] = c
    BY <1>0 DEF Picked, ControlFacts, LockDiscipline
  <1>2. /\ ~InQueue(p0)
        /\ \A d \in CPUs : Picked(d, p0) => d = c
        /\ \A d \in CPUs : ~Controls(d, p0)
    BY <1>0, <1>1 DEF ReadyQueueExact, ChildUnderControl
  <1>3. /\ \A d \in CPUs : d # c => (Executing(d)' <=> Executing(d))
        /\ Executing(c)' /\ ~Executing(c)
        /\ \A d \in CPUs, k \in Procs : Picked(d, k)' <=> Picked(d, k) /\ d # c
        /\ \A d \in CPUs, k \in Procs : Controls(d, k)' => Controls(d, k) /\ d # c
        /\ \A k \in Procs : InQueue(k)' <=> InQueue(k)
    BY <1>0 DEF Executing, Picked, Controls, InQueue, OpAt, OpOf
  <1>4. \A i \in 1 .. Len(readyq) : readyq[i] # p0
    BY <1>2 DEF InQueue
  <1>5. ControlFacts'
    <2>1. \A d \in CPUs : d # c /\ pc[d] \in {"lockproc", "run"} => nxt[d] # p0
      BY <1>0, <1>2 DEF Picked
    <2> QED BY <1>0, <2>1 DEF ControlFacts, OpAt, OpOf
  <1>6. RunsOnOneCpu'
    BY <1>0, <1>1, <1>3 DEF RunsOnOneCpu
  <1>7. ReadyQueueExact'
    <2>1. \A p \in Procs : Picked(c, p) => p = p0
      BY DEF Picked
    <2>2. \A i, j \in 1 .. Len(readyq') : readyq'[i] = readyq'[j] => i = j
      BY <1>0 DEF ReadyQueueExact
    <2>3. \A i \in 1 .. Len(readyq') : state'[readyq'[i]] = "READY"
      BY <1>0, <1>4 DEF ReadyQueueExact, TypeOK
    <2>4. \A p \in Procs : state'[p] = "READY" => InQueue(p)' \/ \E d \in CPUs : Picked(d, p)'
      BY <1>0, <1>3, <2>1 DEF ReadyQueueExact
    <2>5. \A d \in CPUs : \A p \in Procs : Picked(d, p)' =>
              ~InQueue(p)' /\ \A e \in CPUs : Picked(e, p)' => d = e
      BY <1>3 DEF ReadyQueueExact
    <2> QED BY <2>2, <2>3, <2>4, <2>5 DEF ReadyQueueExact
  <1>8. ChildUnderControl'
    BY <1>0, <1>2, <1>3 DEF ChildUnderControl
  <1>9. NoLostWakeup'
    BY <1>0 DEF NoLostWakeup
  <1>a. LockDiscipline'
    BY <1>0, <1>1, CpuAssumption DEF LockDiscipline
  <1> QED BY <1>5, <1>6, <1>7, <1>8, <1>9, <1>a

-----------------------------------------------------------------------------
(* The invariant is inductive: every step of every CPU, and a step that
   changes nothing, preserves it. *)
LEMMA NextIInv == IInv /\ [Next]_vars => IInv'
  <1>1. ASSUME IInv, NEW c \in CPUs, CpuStep(c) PROVE IInv'
    <2>1. TypeOK'
      BY <1>1, TypeStep
    <2>2. Control'
      BY <1>1, LocalActions, PutGetLockStep, PutGetSyncStep, ProcWaitStep, QueueLockStep,
         ProcReadyStep, RetLockStep, RetStopStep, SchedPickStep, SchedLockProcStep,
         ProcRunStep
         DEF CpuStep, UserStep, KernelStep, SchedStep
    <2> QED BY <2>1, <2>2 DEF IInv
  <1>2. ASSUME IInv, UNCHANGED vars PROVE IInv'
    BY <1>2 DEF IInv, Control, vars, TypeOK, ControlFacts, RunsOnOneCpu, ReadyQueueExact,
       ChildUnderControl, NoLostWakeup, LockDiscipline, Executing, Picked, Controls,
       InQueue, OpAt, OpOf
  <1> QED BY <1>1, <1>2 DEF Next

(* Every reachable state of the process and system-call core satisfies the
   inductive invariant. *)
THEOREM Invariance == Spec => []IInv
  BY InitIInv, NextIInv, PTL DEF Spec

(* Type correctness: process states, registers, locks and the control points
   of every CPU keep their types. *)
THEOREM TypeCorrect == Spec => []TypeOK
  BY Invariance, PTL DEF IInv

(* No process runs on two CPUs, whatever the interleaving of proc_sched,
   proc_run, proc_wait and proc_ret. *)
THEOREM OneCpu == Spec => []RunsOnOneCpu
  BY Invariance, PTL DEF IInv, Control

(* The ready queue holds every READY process that no CPU has picked, once. *)
THEOREM QueueExact == Spec => []ReadyQueueExact
  BY Invariance, PTL DEF IInv, Control

(* The unlocked phases of do_put and do_get own the child they work on. *)
THEOREM ChildOwned == Spec => []ChildUnderControl
  BY Invariance, PTL DEF IInv, Control

(* A waiting parent is never forgotten by the child it waits for. *)
THEOREM WakeupKept == Spec => []NoLostWakeup
  BY Invariance, PTL DEF IInv, Control

(* The spinlocks are held exactly where the code holds them. *)
THEOREM LocksBalanced == Spec => []LockDiscipline
  BY Invariance, PTL DEF IInv, Control

(* A step of a CPU writes the data of a process only for that process while
   it runs, or for its running parent while it is stopped. *)
LEMMA IsolationOfStep == ASSUME IInv, NEW c \in CPUs, CpuStep(c) PROVE IsolationStep
  <1> USE DEF IInv, Control, procvars, datavars
  <1>1. ASSUME NEW p \in Procs,
               \/ state[p] = "RUN"
               \/ state[p] = "STOP" /\ Parent[p] \in Procs /\ state[Parent[p]] = "RUN",
               \A q \in Procs \ {p} : mem'[q] = mem[q] /\ rmem'[q] = rmem[q] /\ sv'[q] = sv[q]
        PROVE  IsolationStep
    BY <1>1 DEF IsolationStep
  <1>2. Executing(c) => cur[c] \in Procs /\ state[cur[c]] = "RUN"
    BY Exclusive
  <1>3. \A k : Controls(c, k) =>
            k \in Procs /\ state[k] = "STOP" /\ Parent[k] \in Procs /\ state[Parent[k]] = "RUN"
    <2>1. \A k : Controls(c, k) => k \in Procs /\ Executing(c)
      BY DEF Controls, ControlFacts, Executing
    <2> QED BY <1>2, <2>1 DEF ChildUnderControl
  <1>4. CASE UserStore(c) \/ GetRegs(c) \/ GetMem(c)
    <2>1. Executing(c)
      BY <1>4 DEF UserStore, GetRegs, GetMem, Executing
    <2>2. \A q \in Procs \ {cur[c]} : mem'[q] = mem[q] /\ rmem'[q] = rmem[q] /\ sv'[q] = sv[q]
      BY <1>4 DEF UserStore, GetRegs, GetMem, TypeOK
    <2> QED BY <1>1, <1>2, <2>1, <2>2
  <1>5. CASE ProcWait(c) \/ RetStop(c)
    <2>1. Executing(c)
      BY <1>5 DEF ProcWait, RetStop, Executing
    <2>2. \A q \in Procs \ {cur[c]} : mem'[q] = mem[q] /\ rmem'[q] = rmem[q] /\ sv'[q] = sv[q]
      BY <1>5 DEF ProcWait, RetStop, TypeOK, Stopped, WaitOn, ProcSave, Release, WaitsFor
    <2> QED BY <1>1, <1>2, <2>1, <2>2
  <1>6. CASE PutRegs(c) \/ PutMem(c) \/ PutSnap(c)
    <2> DEFINE k == OpAt(c).child
    <2>1. Controls(c, k)
      BY <1>6 DEF PutRegs, PutMem, PutSnap, Controls
    <2>2. \A q \in Procs \ {k} : mem'[q] = mem[q] /\ rmem'[q] = rmem[q] /\ sv'[q] = sv[q]
      <3>1. CASE PutRegs(c)
        BY <3>1 DEF PutRegs, TypeOK
      <3>2. CASE PutMem(c)
        BY <3>2 DEF PutMem, TypeOK
      <3>3. CASE PutSnap(c)
        <4>1. rmem' = rmem \/ rmem' = [rmem EXCEPT ![k] = mem[k]]
          BY <3>3, Zenon DEF PutSnap
        <4> QED BY <3>3, <4>1 DEF PutSnap, TypeOK
      <3> QED BY <1>6, <3>1, <3>2, <3>3
    <2> QED BY <1>1, <1>3, <2>1, <2>2
  <1>7. CASE mem' = mem /\ rmem' = rmem /\ sv' = sv
    BY <1>7 DEF IsolationStep
  <1>8. \/ UserStore(c) \/ GetRegs(c) \/ GetMem(c)
        \/ ProcWait(c) \/ RetStop(c)
        \/ PutRegs(c) \/ PutMem(c) \/ PutSnap(c)
        \/ mem' = mem /\ rmem' = rmem /\ sv' = sv
    BY DEF CpuStep, UserStep, KernelStep, SchedStep, UserTrap, DoCputs, DoNcpu, DoRet,
       PutGetLock, PutGetSync, GetDone, ReadyLock, ProcReady, RetLock, RootRet, SchedLock,
       SchedIdle, SchedSpin, SchedPick, SchedLockProc, ProcRun
  <1> QED BY <1>4, <1>5, <1>6, <1>7, <1>8

(* A step of a CPU changes the state of a process only along the arcs of its
   state machine. *)
LEMMA StateMachineOfStep == ASSUME IInv, NEW c \in CPUs, CpuStep(c) PROVE StateMachineStep
  <1> USE DEF IInv, Control, procvars
  <1>1. CASE ProcWait(c) \/ RetStop(c)
    <2>1. cur[c] \in Procs /\ state[cur[c]] = "RUN"
      BY <1>1, Exclusive DEF ProcWait, RetStop, Executing
    <2> QED BY <1>1, <2>1 DEF StateMachineStep, ProcWait, RetStop, TypeOK, WaitOn
  <1>2. CASE ProcReady(c)
    <2> DEFINE k == OpAt(c).child
    <2>1. k \in Procs /\ Controls(c, k) /\ Executing(c)
      BY <1>2 DEF ProcReady, ControlFacts, Controls, Executing
    <2>2. state[k] = "STOP" /\ state[Parent[k]] = "RUN"
      BY <2>1, Exclusive DEF ChildUnderControl
    <2>3. \A q \in Procs : state'[q] = IF q = k THEN "READY" ELSE state[q]
      BY <1>2 DEF ProcReady, TypeOK
    <2> HIDE DEF k
    <2> QED BY <2>1, <2>2, <2>3 DEF StateMachineStep
  <1>3. CASE ProcRun(c)
    <2>1. /\ nxt[c] \in Procs
          /\ \/ state[nxt[c]] = "READY"
             \/ state[nxt[c]] = "WAIT" /\ waitchild[nxt[c]] = NoProc
      BY <1>3 DEF ProcRun, ControlFacts, RunOn, Release
    <2> QED BY <1>3, <2>1 DEF StateMachineStep, ProcRun, TypeOK, RunOn, Release
  <1>4. CASE state' = state
    BY <1>4 DEF StateMachineStep
  <1>5. ProcWait(c) \/ RetStop(c) \/ ProcReady(c) \/ ProcRun(c) \/ state' = state
    BY DEF CpuStep, UserStep, KernelStep, SchedStep, UserStore, UserTrap, DoCputs, DoNcpu,
       DoRet, PutGetLock, PutGetSync, PutRegs, GetRegs, PutMem, GetMem, PutSnap, GetDone,
       ReadyLock, RetLock, RootRet, SchedLock, SchedIdle, SchedSpin, SchedPick,
       SchedLockProc, CpuLimit, Acquire, Stopped, Release, Dequeue
  <1> QED BY <1>1, <1>2, <1>3, <1>4, <1>5

(* Isolation: no step of the kernel ever writes the memory, the snapshot or
   the saved registers of a process that neither runs nor is controlled by
   its running parent. *)
THEOREM Isolated == Spec => Isolation
  <1>1. IInv /\ [Next]_vars => [IsolationStep]_vars
    BY IsolationOfStep DEF Next
  <1> QED BY <1>1, Invariance, PTL DEF Spec, Isolation

(* Every process follows its state machine. *)
THEOREM StatesFollowMachine == Spec => StateMachine
  <1>1. IInv /\ [Next]_vars => [StateMachineStep]_vars
    BY StateMachineOfStep DEF Next
  <1> QED BY <1>1, Invariance, PTL DEF Spec, StateMachine
=============================================================================
