--------------------------- MODULE RefinementProofs ---------------------------
(***************************************************************************)
(* Proof that the concurrent kernel implements the hierarchy of spaces     *)
(* with atomic system calls, for any number of CPUs, any process tree and  *)
(* any programs.                                                           *)
(***************************************************************************)
EXTENDS ProcRefinement, ProcProofs

(* What a call has passed when it is at a control point, and that user code
   runs with the trap number cleared. *)
CallFacts ==
    \A c \in CPUs :
        LET op == OpAt(c) IN
        /\ pc[c] \in {"user", "sync", "regs", "memop", "perm", "start", "enqueue", "nullmap"} =>
              tf[c].trap = 0
        /\ pc[c] \in {"sync", "regs", "memop", "perm"} => op.call \in {"PUT", "GET"}
        /\ pc[c] = "nullmap" => op.call = "GET" /\ op.mem = "copy"
        /\ InCall(c) => op.regs \in {"none", "copy"}
        /\ pc[c] = "perm" => op.mem # "bad" /\ (op.call = "PUT" => op.mem # "merge")
        /\ pc[c] \in {"start", "enqueue"} =>
              /\ op.call = "PUT" /\ op.mem \in {"none", "zero", "copy"} /\ op.perm = "none"
              /\ op.start
        /\ RootRets(c) => op.call = "RET" /\ tf[c].trap = 0

(* A process that has not been created is blank, and neither runs nor is the
   child of a PUT under way. *)
Blank ==
    /\ \A p \in Procs \ alloc :
          state[p] = "STOP" /\ sv[p] = ZeroFrame /\ mem[p] = ZeroMem /\ rmem[p] = ZeroMem
    /\ \A c \in CPUs :
          (pc[c] = "regs" \/ InCall(c)) /\ OpAt(c).call = "PUT" => OpAt(c).child \in alloc

RInv == IInv /\ CallFacts /\ Blank

-----------------------------------------------------------------------------
(* CallFacts and Blank are invariant. *)

(* A step that moves CPU c and leaves the registers of the others. *)
Moves(c, l) ==
    /\ pc' = [pc EXCEPT ![c] = l]
    /\ \A d \in CPUs \ {c} : tf'[d] = tf[d] /\ ret'[d] = ret[d] /\ cur'[d] = cur[d]

(* CallFacts at the other CPUs is not disturbed by a step of c. *)
LEMMA CallFactsOf ==
    ASSUME RInv, NEW c \in CPUs, NEW l, Moves(c, l),
           LET op == OpAt(c)' IN
           /\ l \in {"user", "sync", "regs", "memop", "perm", "start", "enqueue", "nullmap"} =>
                 tf'[c].trap = 0
           /\ l \in {"sync", "regs", "memop", "perm"} => op.call \in {"PUT", "GET"}
           /\ l = "nullmap" => op.call = "GET" /\ op.mem = "copy"
           /\ l \in {"memop", "perm", "start", "enqueue", "nullmap"} => op.regs \in {"none", "copy"}
           /\ l = "perm" => op.mem # "bad" /\ (op.call = "PUT" => op.mem # "merge")
           /\ l \in {"start", "enqueue"} =>
                 /\ op.call = "PUT" /\ op.mem \in {"none", "zero", "copy"} /\ op.perm = "none"
                 /\ op.start
           /\ l = "ret" /\ ret'[c].trap = T_SYSCALL /\ ret'[c].entry = 1 =>
                 op.call = "RET" /\ tf'[c].trap = 0
    PROVE  CallFacts'
  <1>1. /\ pc'[c] = l
        /\ \A d \in CPUs \ {c} : /\ pc'[d] = pc[d] /\ tf'[d] = tf[d] /\ ret'[d] = ret[d]
                                 /\ cur'[d] = cur[d]
    BY DEF Moves, RInv, IInv, TypeOK
  <1> QED BY <1>1 DEF RInv, CallFacts, InCall, RootRets, OpAt

(* Completing an instruction keeps the trap number, resuming clears it. *)
LEMMA TrapOf ==
    ASSUME NEW r \in Regs
    PROVE  Complete(r).trap = r.trap /\ Complete(r).prog = r.prog /\ Resume(r).trap = 0
  BY DEF Complete, Resume, Regs

(* Every step keeps CallFacts. *)
LEMMA CallFactsStep == ASSUME RInv, NEW c \in CPUs, CpuStep(c) PROVE CallFacts'
  <1> DEFINE op == OpAt(c)
  <1>1. tf[c] \in Regs /\ op \in Ops /\ tf \in [CPUs -> Regs] /\ pc \in [CPUs -> Labels]
        /\ ret \in [CPUs -> [entry: {-1, 0, 1}, trap: Traps]]
        /\ cur \in [CPUs -> Procs \cup {NoProc}]
    BY OpOfType DEF RInv, IInv, TypeOK, OpAt
  <1>2. ASSUME UNCHANGED tf PROVE OpAt(c)' = op
    BY <1>2 DEF OpAt
  <1>3. ASSUME Return(c), UNCHANGED cur, tf[c].trap = 0 PROVE CallFacts'
    <2>1. Moves(c, "user") /\ tf'[c].trap = 0
      BY <1>1, <1>3, TrapOf DEF Return, Goto, Moves
    <2> QED BY <2>1, CallFactsOf
  <1>4. ASSUME NEW r, NEW e, NEW t, ProcRet(c, r, e, t), UNCHANGED cur,
               t = T_SYSCALL /\ e = 1 => r = tf[c] /\ op.call = "RET" /\ tf[c].trap = 0
        PROVE  CallFacts'
    <2>1. Moves(c, "ret")
      BY <1>1, <1>4 DEF ProcRet, Goto, Moves
    <2>2. ret'[c].trap = t /\ ret'[c].entry = e /\ tf'[c] = r
      BY <1>1, <1>4 DEF ProcRet
    <2>3. r = tf[c] => OpAt(c)' = op
      BY <2>2 DEF OpAt
    <2> QED BY <1>4, <2>1, <2>2, <2>3, CallFactsOf
  <1>5. ASSUME NEW l, Goto(c, l), UNCHANGED <<cur, tf, ret>> PROVE Moves(c, l)
    BY <1>5 DEF Goto, Moves
  <1>6. ASSUME NEW l \in {"stop", "panic", "sched", "pick", "idle", "lockproc", "run"}, Goto(c, l),
               \A d \in CPUs \ {c} : cur'[d] = cur[d], UNCHANGED <<tf, ret>>
        PROVE  CallFacts'
    <2>1. Moves(c, l)
      BY <1>6 DEF Moves, Goto
    <2> QED BY <2>1, CallFactsOf
  <1>7. /\ pc[c] \in {"user", "sync", "regs", "memop", "perm", "start", "enqueue", "nullmap"} =>
              tf[c].trap = 0
        /\ pc[c] \in {"sync", "regs", "memop", "perm"} => op.call \in {"PUT", "GET"}
        /\ pc[c] = "nullmap" => op.call = "GET" /\ op.mem = "copy"
        /\ pc[c] \in {"memop", "perm", "start", "enqueue", "nullmap"} => op.regs \in {"none", "copy"}
        /\ pc[c] = "perm" => op.mem # "bad" /\ (op.call = "PUT" => op.mem # "merge")
        /\ pc[c] \in {"start", "enqueue"} =>
              /\ op.call = "PUT" /\ op.mem \in {"none", "zero", "copy"} /\ op.perm = "none"
              /\ op.start
        /\ RootRets(c) => op.call = "RET" /\ tf[c].trap = 0
    BY DEF RInv, CallFacts, InCall
  <1>8. T_PGFLT # T_SYSCALL /\ T_GPFLT # T_SYSCALL /\ T_BRKPT # T_SYSCALL /\ T_ILLOP # T_SYSCALL
    BY DEF T_PGFLT, T_GPFLT, T_SYSCALL, T_BRKPT, T_ILLOP
  <1>a. CASE UserStore(c) \/ DoNcpu(c)
    BY <1>a, <1>3, <1>7 DEF UserStore, DoNcpu
  <1>b. CASE UserTrap(c)
    BY <1>b, <1>4, <1>8 DEF UserTrap
  <1>c. CASE DoCputs(c)
    BY <1>c, <1>3, <1>4, <1>7, <1>8 DEF DoCputs, Systrap, Sysrecover
  <1>d. CASE DoRet(c)
    BY <1>d, <1>4, <1>7 DEF DoRet
  <1>e. CASE PutGetLock(c)
    <2>1. Moves(c, "sync") /\ UNCHANGED tf
      BY <1>e, <1>5 DEF PutGetLock
    <2> QED BY <1>e, <1>2, <1>7, <2>1, CallFactsOf DEF PutGetLock
  <1>f. CASE PutGetSync(c)
    <2>1. Moves(c, "regs") /\ UNCHANGED tf
      BY <1>f, <1>5 DEF PutGetSync
    <2> QED BY <1>f, <1>2, <1>7, <2>1, CallFactsOf DEF PutGetSync
  <1>g. CASE PutRegs(c) \/ GetRegs(c)
    <2>1. CASE op.regs \in {"none", "copy"}
      <3>1. Moves(c, "memop") /\ UNCHANGED tf /\ pc[c] = "regs"
        BY <1>g, <1>5, <2>1 DEF PutRegs, GetRegs
      <3> QED BY <1>2, <1>7, <2>1, <3>1, CallFactsOf
    <2>2. CASE op.regs \in {"bad", "fault"}
      BY <1>g, <1>4, <1>8, <2>2 DEF PutRegs, GetRegs, Systrap, Sysrecover
    <2> QED BY <1>1, <2>1, <2>2 DEF Ops
  <1>h. CASE PutMem(c)
    <2>1. CASE op.mem \in {"none", "zero", "copy"}
      <3>1. Moves(c, "perm") /\ UNCHANGED tf /\ pc[c] = "memop"
        BY <1>h, <1>5, <2>1 DEF PutMem
      <3> QED BY <1>2, <1>7, <2>1, <3>1, CallFactsOf
    <2>2. CASE op.mem \in {"merge", "bad"}
      BY <1>h, <1>4, <1>8, <2>2 DEF PutMem, Systrap
    <2> QED BY <1>1, <2>1, <2>2 DEF Ops
  <1>i. CASE GetMem(c)
    <2>1. CASE op.mem # "bad" /\ ~CopiesNull(op)
      <3>1. Moves(c, "perm") /\ UNCHANGED tf /\ pc[c] = "memop" /\ op.call = "GET"
        BY <1>i, <1>5, <2>1 DEF GetMem
      <3> QED BY <1>2, <1>7, <2>1, <3>1, CallFactsOf
    <2>2. CASE op.mem = "bad"
      BY <1>i, <1>4, <1>8, <2>2 DEF GetMem, Systrap, CopiesNull
    <2>3. CASE CopiesNull(op)
      <3>1. Moves(c, "nullmap") /\ UNCHANGED tf /\ pc[c] = "memop" /\ op.call = "GET"
            /\ op.mem = "copy"
        BY <1>i, <1>5, <2>3 DEF GetMem, CopiesNull
      <3> QED BY <1>2, <1>7, <3>1, CallFactsOf
    <2> QED BY <2>1, <2>2, <2>3
  <1>j. CASE PutSnap(c)
    <2>1. CASE op.perm = "none" /\ op.start
      <3>1. Moves(c, "start") /\ UNCHANGED tf /\ pc[c] = "perm" /\ op.call = "PUT"
        BY <1>j, <1>5, <2>1 DEF PutSnap
      <3>2. op.mem \in {"none", "zero", "copy"}
        BY <1>1, <1>7, <3>1 DEF Ops
      <3> QED BY <1>2, <1>7, <2>1, <3>1, <3>2, CallFactsOf
    <2>2. CASE ~(op.perm = "none" /\ op.start)
      BY <1>j, <1>3, <1>4, <1>7, <1>8, <2>2 DEF PutSnap, Systrap
    <2> QED BY <2>1, <2>2
  <1>k. CASE GetDone(c)
    BY <1>k, <1>3, <1>4, <1>7, <1>8 DEF GetDone, Systrap
  <1>l. CASE ReadyLock(c)
    <2>1. Moves(c, "enqueue") /\ UNCHANGED tf
      BY <1>l, <1>5 DEF ReadyLock
    <2> QED BY <1>l, <1>2, <1>7, <2>1, CallFactsOf DEF ReadyLock
  <1>m. CASE ProcReady(c)
    BY <1>m, <1>3, <1>7 DEF ProcReady
  <1>n. CASE RetLock(c) \/ RetStop(c) \/ ProcWait(c)
    BY <1>n, <1>6 DEF RetLock, RetStop, ProcWait
  <1>o. CASE RootRet(c)
    <2>1. CASE ret[c].trap = T_SYSCALL /\ ret[c].entry = 1
      BY <1>o, <1>3, <1>7, <2>1 DEF RootRet, RootRets
    <2>2. CASE ~(ret[c].trap = T_SYSCALL /\ ret[c].entry = 1)
      BY <1>o, <1>6, <2>2 DEF RootRet
    <2> QED BY <2>1, <2>2
  <1>p. CASE SchedLock(c) \/ SchedIdle(c) \/ SchedSpin(c) \/ SchedPick(c) \/ SchedLockProc(c)
    BY <1>p, <1>6 DEF SchedLock, SchedIdle, SchedSpin, SchedPick, SchedLockProc
  <1>q. CASE ProcRun(c)
    <2>1. nxt[c] \in Procs /\ sv[nxt[c]] \in Regs
      BY <1>q DEF ProcRun, RInv, IInv, Control, ControlFacts, TypeOK
    <2>2. Moves(c, "user") /\ tf'[c] = Resume(sv[nxt[c]])
      BY <1>q, <1>1 DEF ProcRun, Moves, Goto
    <2> QED BY <2>1, <2>2, TrapOf, CallFactsOf
  <1> QED
    BY <1>a, <1>b, <1>c, <1>d, <1>e, <1>f, <1>g, <1>h, <1>i, <1>j, <1>k, <1>l, <1>m,
       <1>n, <1>o, <1>p, <1>q
       DEF CpuStep, UserStep, KernelStep, SchedStep

(* Every step keeps Blank: what a step changes belongs to a process that runs,
   or is the child of a PUT, and both have been created. *)
LEMMA BlankStep == ASSUME RInv, NEW c \in CPUs, CpuStep(c) PROVE Blank'
  <1> USE DEF RInv, IInv, procvars, datavars, lockvars
  <1> DEFINE k == OpAt(c).child
             Same(q) == state'[q] = state[q] /\ sv'[q] = sv[q] /\ mem'[q] = mem[q]
                        /\ rmem'[q] = rmem[q]
  <1>1. ASSUME alloc \subseteq alloc', \A q \in Procs \ alloc : Same(q),
               (pc'[c] = "regs" \/ InCall(c)') /\ OpAt(c)'.call = "PUT" =>
                   OpAt(c)'.child \in alloc',
               \A d \in CPUs \ {c} : pc'[d] = pc[d] /\ tf'[d] = tf[d]
        PROVE  Blank'
    BY <1>1 DEF Blank, InCall, OpAt
  <1>2. \A q \in Procs \ alloc :
           /\ Executing(c) => q # cur[c]
           /\ pc[c] = "run" => q # nxt[c]
           /\ (pc[c] = "regs" \/ InCall(c)) /\ OpAt(c).call = "PUT" => q # k
    BY DEF Blank, Control, RunsOnOneCpu, ControlFacts
  <1>3. \A d \in CPUs \ {c} : pc'[d] = pc[d] /\ tf'[d] = tf[d]
    BY DEF CpuStep, UserStep, KernelStep, SchedStep, UserStore, UserTrap, DoCputs, DoNcpu,
       DoRet, PutGetLock, PutGetSync, ProcWait, PutRegs, GetRegs, PutMem, GetMem, PutSnap,
       GetDone, ReadyLock, ProcReady, RetLock, RetStop, RootRet, SchedLock, SchedIdle,
       SchedSpin, SchedPick, SchedLockProc, ProcRun, Goto, Return, ProcRet, Systrap,
       Sysrecover, TypeOK
  <1>a. CASE UserStore(c)
    <2>1. Executing(c) /\ pc'[c] = "user"
      BY <1>a DEF UserStore, Executing, Return, Goto, TypeOK
    <2>2. \A q \in Procs \ alloc : Same(q)
      BY <1>a, <1>2, <2>1 DEF UserStore, TypeOK
    <2> QED BY <1>a, <1>1, <1>3, <2>1, <2>2 DEF UserStore, InCall
  <1>b. CASE UserTrap(c) \/ DoCputs(c) \/ DoNcpu(c) \/ DoRet(c) \/ PutGetLock(c) \/ GetDone(c)
             \/ RetLock(c) \/ RootRet(c) \/ SchedLock(c) \/ SchedIdle(c) \/ SchedSpin(c)
             \/ SchedPick(c) \/ SchedLockProc(c)
    <2>1. UNCHANGED <<alloc, state, sv, mem, rmem>>
      BY <1>b DEF UserTrap, DoCputs, DoNcpu, DoRet, PutGetLock, GetDone, RetLock, RootRet,
         SchedLock, SchedIdle, SchedSpin, SchedPick, SchedLockProc
    <2>2. pc'[c] \in {"user", "ret", "sync", "stop", "panic", "pick", "idle", "sched", "lockproc",
                      "run"}
      BY <1>b DEF UserTrap, DoCputs, DoNcpu, DoRet, PutGetLock, GetDone, RetLock, RootRet,
         SchedLock, SchedIdle, SchedSpin, SchedPick, SchedLockProc, Goto, Return, ProcRet,
         Systrap, Sysrecover, TypeOK
    <2> QED BY <1>1, <1>3, <2>1, <2>2 DEF InCall
  <1>c. CASE PutGetSync(c)
    <2>1. /\ UNCHANGED <<state, sv, mem, rmem, tf>> /\ alloc \subseteq alloc'
          /\ OpAt(c).call = "PUT" => k \in alloc'
      BY <1>c DEF PutGetSync
    <2> QED BY <1>1, <1>3, <2>1 DEF OpAt
  <1>d. CASE ProcWait(c)
    <2>1. Executing(c) /\ pc'[c] = "sched" /\ UNCHANGED <<alloc, mem, rmem>>
      BY <1>d DEF ProcWait, Executing, Goto, TypeOK
    <2>2. \A q \in Procs \ alloc : state'[q] = state[q] /\ sv'[q] = sv[q]
      BY <1>d, <1>2, <2>1 DEF ProcWait, WaitOn, ProcSave, TypeOK
    <2> QED BY <1>1, <1>3, <2>1, <2>2 DEF InCall
  <1>e. CASE PutRegs(c)
    <2>1. /\ pc[c] = "regs" /\ OpAt(c).call = "PUT" /\ pc'[c] \in {"memop", "ret"}
          /\ UNCHANGED <<alloc, state, mem, rmem>>
          /\ pc'[c] = "memop" => UNCHANGED tf
      BY <1>e DEF PutRegs, Goto, Systrap, Sysrecover, ProcRet, TypeOK
    <2>2. \E r : sv' = [sv EXCEPT ![k] = r] \/ sv' = sv
      BY <1>e DEF PutRegs
    <2>3. \A q \in Procs \ alloc : sv'[q] = sv[q]
      BY <1>2, <2>1, <2>2 DEF TypeOK
    <2>4. pc'[c] = "memop" /\ OpAt(c)'.call = "PUT" => OpAt(c)'.child \in alloc'
      BY <2>1 DEF Blank, OpAt
    <2> QED BY <1>1, <1>3, <2>1, <2>3, <2>4 DEF InCall
  <1>f. CASE PutMem(c)
    <2>1. /\ InCall(c) /\ OpAt(c).call = "PUT" /\ pc'[c] \in {"perm", "ret"}
          /\ UNCHANGED <<alloc, state, sv, rmem>>
          /\ pc'[c] = "perm" => UNCHANGED tf
      BY <1>f DEF PutMem, Goto, Systrap, ProcRet, TypeOK, InCall
    <2>2. \A q \in Procs \ alloc : mem'[q] = mem[q]
      BY <1>f, <1>2, <2>1 DEF PutMem, TypeOK
    <2>3. pc'[c] = "perm" /\ OpAt(c)'.call = "PUT" => OpAt(c)'.child \in alloc'
      BY <2>1 DEF Blank, OpAt
    <2> QED BY <1>1, <1>3, <2>1, <2>2, <2>3 DEF InCall
  <1>g. CASE PutSnap(c)
    <2>1. /\ InCall(c) /\ OpAt(c).call = "PUT" /\ pc'[c] \in {"user", "start", "ret"}
          /\ UNCHANGED <<alloc, state, sv, mem>>
          /\ pc'[c] = "start" => UNCHANGED tf
      BY <1>g DEF PutSnap, Goto, Systrap, ProcRet, Return, TypeOK, InCall
    <2>2. rmem' = rmem \/ rmem' = [rmem EXCEPT ![k] = mem[k]]
      BY <1>g, Zenon DEF PutSnap
    <2>3. \A q \in Procs \ alloc : rmem'[q] = rmem[q]
      BY <1>2, <2>1, <2>2 DEF TypeOK
    <2>4. pc'[c] = "start" /\ OpAt(c)'.call = "PUT" => OpAt(c)'.child \in alloc'
      BY <2>1 DEF Blank, OpAt
    <2> QED BY <1>1, <1>3, <2>1, <2>3, <2>4 DEF InCall
  <1>h. CASE GetRegs(c) \/ GetMem(c)
    <2>1. /\ Executing(c) /\ OpAt(c).call = "GET" /\ pc'[c] \in {"memop", "perm", "nullmap", "ret"}
          /\ UNCHANGED <<alloc, state, sv, rmem>>
          /\ pc'[c] # "ret" => UNCHANGED tf
      BY <1>h DEF GetRegs, GetMem, Goto, Systrap, Sysrecover, ProcRet, TypeOK, Executing
    <2>2. \A q \in Procs \ alloc : mem'[q] = mem[q]
      BY <1>h, <1>2, <2>1 DEF GetRegs, GetMem, TypeOK
    <2> QED BY <1>1, <1>3, <2>1, <2>2 DEF InCall, OpAt
  <1>i. CASE ReadyLock(c)
    <2>1. InCall(c) /\ UNCHANGED <<alloc, state, sv, mem, rmem, tf>>
      BY <1>i DEF ReadyLock, InCall
    <2> QED BY <1>1, <1>3, <2>1 DEF Blank, OpAt
  <1>j. CASE ProcReady(c)
    <2>1. /\ InCall(c) /\ OpAt(c).call = "PUT" /\ pc'[c] = "user"
          /\ UNCHANGED <<alloc, sv, mem, rmem>>
      BY <1>j DEF ProcReady, InCall, Return, Goto, TypeOK, CallFacts
    <2>2. \A q \in Procs \ alloc : state'[q] = state[q]
      BY <1>j, <1>2, <2>1 DEF ProcReady, TypeOK
    <2> QED BY <1>1, <1>3, <2>1, <2>2 DEF InCall
  <1>k. CASE RetStop(c)
    <2>1. /\ Executing(c) /\ pc'[c] \in {"run", "sched"} /\ UNCHANGED <<alloc, mem, rmem>>
      BY <1>k DEF RetStop, Executing, Goto, TypeOK
    <2>2. \A q \in Procs \ alloc : state'[q] = state[q] /\ sv'[q] = sv[q]
      BY <1>k, <1>2, <2>1 DEF RetStop, ProcSave, TypeOK
    <2> QED BY <1>1, <1>3, <2>1, <2>2 DEF InCall
  <1>l. CASE ProcRun(c)
    <2>1. /\ pc[c] = "run" /\ pc'[c] = "user" /\ UNCHANGED <<alloc, sv, mem, rmem>>
      BY <1>l DEF ProcRun, Goto, TypeOK
    <2>2. \A q \in Procs \ alloc : state'[q] = state[q]
      BY <1>l, <1>2, <2>1 DEF ProcRun, RunOn, TypeOK
    <2> QED BY <1>1, <1>3, <2>1, <2>2 DEF InCall
  <1> QED
    BY <1>a, <1>b, <1>c, <1>d, <1>e, <1>f, <1>g, <1>h, <1>i, <1>j, <1>k, <1>l
       DEF CpuStep, UserStep, KernelStep, SchedStep

(* The strengthened invariant holds in every reachable state. *)
LEMMA RInvStep == RInv /\ [Next]_vars => RInv'
  <1>1. ASSUME RInv, NEW c \in CPUs, CpuStep(c) PROVE RInv'
    BY <1>1, NextIInv, CallFactsStep, BlankStep DEF RInv, Next
  <1>2. ASSUME RInv, UNCHANGED vars PROVE RInv'
    <2>1. IInv'
      BY <1>2, NextIInv DEF RInv
    <2> QED BY <1>2, <2>1 DEF RInv, vars, CallFacts, Blank, OpAt, InCall, RootRets
  <1> QED BY <1>1, <1>2 DEF Next

(* It holds at boot. *)
LEMMA RInvInit == Init => RInv
  <1> SUFFICES ASSUME Init PROVE RInv
    OBVIOUS
  <1>1. IInv
    BY InitIInv
  <1>2. CallFacts
    BY DEF Init, CallFacts, InCall, RootRets
  <1>3. Blank
    BY DEF Init, Blank, BootRegs, InCall
  <1> QED BY <1>1, <1>2, <1>3 DEF RInv

-----------------------------------------------------------------------------
(* What the abstract state shows of a process, according to who works on it:
   a CPU that executes it, a CPU whose PUT or GET controls it, or nobody. *)

Touches(c, q) == (Executing(c) /\ cur[c] = q) \/ Controls(c, q)

CallerView(c) ==
    /\ cur[c] \in AbsLive
    /\ cur[c] \in AbsLeaving <=> Leaves(c)
    /\ AbsRegs[cur[c]] = LiveRegs(c)
    /\ AbsMem[cur[c]] = CallerMem(c)
    /\ AbsSnap[cur[c]] = rmem[cur[c]]

ChildView(c, k) ==
    /\ k \in AbsLive <=> Starts(c, k)
    /\ k \notin AbsLeaving
    /\ AbsRegs[k] = IF Starts(c, k) THEN Resume(sv[k]) ELSE sv[k]
    /\ AbsMem[k] = ChildMem(c, k)
    /\ AbsSnap[k] = IF Snaps(c, k) THEN ChildMem(c, k) ELSE rmem[k]

IdleView(q) ==
    /\ q \in AbsLive <=> state[q] # "STOP"
    /\ q \notin AbsLeaving
    /\ AbsRegs[q] = IF state[q] # "STOP" THEN Resume(sv[q]) ELSE sv[q]
    /\ AbsMem[q] = mem[q]
    /\ AbsSnap[q] = rmem[q]

Views ==
    /\ \A c \in CPUs : Executing(c) => cur[c] \in Procs /\ CallerView(c)
    /\ \A c \in CPUs : \A k \in Procs : Controls(c, k) => ChildView(c, k)
    /\ \A q \in Procs : (\A c \in CPUs : ~Touches(c, q)) => IdleView(q)

(* Nobody works on a process that somebody else works on. *)
Apart ==
    \A c, d \in CPUs : \A q \in Procs : Touches(c, q) /\ Touches(d, q) =>
        c = d /\ (Controls(c, q) => state[q] = "STOP") /\ (~Controls(c, q) => state[q] = "RUN")

(* The abstract state consists of functions and sets over the processes. *)
Shapes ==
    /\ AbsLive \subseteq Procs /\ AbsLeaving \subseteq Procs
    /\ AbsRegs = [q \in Procs |-> AbsRegs[q]]
    /\ AbsMem = [q \in Procs |-> AbsMem[q]]
    /\ AbsSnap = [q \in Procs |-> AbsSnap[q]]

(* The abstract state, as the process's own situation shows it. *)
LEMMA ViewsHold == RInv => Views /\ Apart /\ Shapes
  <1> SUFFICES ASSUME RInv PROVE Views /\ Apart /\ Shapes
    OBVIOUS
  <1> USE DEF RInv, IInv, Control
  <1>1. /\ \A c, d \in CPUs : Executing(c) /\ Executing(d) /\ cur[c] = cur[d] => c = d
        /\ \A c \in CPUs : Executing(c) =>
              cur[c] \in Procs /\ state[cur[c]] = "RUN" /\ runcpu[cur[c]] = c
        /\ \A p \in Procs : state[p] = "RUN" =>
              runcpu[p] \in CPUs /\ Executing(runcpu[p]) /\ cur[runcpu[p]] = p
    BY Exclusive DEF RunsOnOneCpu
  <1>2. \A c \in CPUs : \A k \in Procs : Controls(c, k) =>
           /\ state[k] = "STOP"
           /\ \A d \in CPUs : Controls(d, k) => c = d
    BY DEF ChildUnderControl
  <1>3. \A c \in CPUs : \A k \in Procs :
           /\ Starts(c, k) => Putting(c, k)
           /\ Snaps(c, k) => Putting(c, k)
           /\ Putting(c, k) => Controls(c, k)
    BY DEF Starts, Snaps, Putting, InCall, Controls
  <1>4. Apart
    BY <1>1, <1>2 DEF Apart, Touches
  <1>5. Shapes
    BY DEF Shapes, AbsLive, AbsLeaving, AbsRegs, AbsMem, AbsSnap
  <1>6. ASSUME NEW c \in CPUs, Executing(c) PROVE cur[c] \in Procs /\ CallerView(c)
    <2> DEFINE p == cur[c]
    <2>1. p \in Procs /\ state[p] = "RUN" /\ runcpu[p] = c
      BY <1>1, <1>6
    <2>2. \A d \in CPUs : ~Snaps(d, p) /\ ~Putting(d, p)
      BY <1>2, <1>3, <2>1
    <2> HIDE DEF p
    <2>3. p \in AbsLive /\ (p \in AbsLeaving <=> Leaves(c))
      BY <2>1 DEF AbsLive, AbsLeaving
    <2>4. AbsRegs[p] = LiveRegs(c)
      BY <2>1 DEF AbsRegs
    <2>5. AbsMem[p] = CallerMem(c)
      BY <2>1 DEF AbsMem
    <2>6. AbsSnap[p] = rmem[p]
      BY <2>1, <2>2 DEF AbsSnap
    <2> QED BY <2>1, <2>3, <2>4, <2>5, <2>6 DEF CallerView, p
  <1>7. ASSUME NEW c \in CPUs, NEW k \in Procs, Controls(c, k) PROVE ChildView(c, k)
    <2>1. state[k] = "STOP" /\ \A d \in CPUs : Controls(d, k) => d = c
      BY <1>2, <1>7
    <2>2. \A d \in CPUs : (Starts(d, k) => d = c) /\ (Snaps(d, k) => d = c)
                          /\ (Putting(d, k) => d = c)
      BY <1>3, <2>1
    <2>3. (k \in AbsLive <=> Starts(c, k)) /\ k \notin AbsLeaving
      BY <2>1, <2>2 DEF AbsLive, AbsLeaving
    <2>4. AbsRegs[k] = IF Starts(c, k) THEN Resume(sv[k]) ELSE sv[k]
      BY <2>1, <2>3 DEF AbsRegs
    <2>5. AbsMem[k] = ChildMem(c, k)
      <3>1. CASE Putting(c, k)
        <4>1. c = CHOOSE d \in CPUs : Putting(d, k)
          BY <2>2, <3>1
        <4> QED BY <2>1, <3>1, <4>1 DEF AbsMem
      <3>2. CASE ~Putting(c, k)
        BY <2>1, <2>2, <3>2 DEF AbsMem, ChildMem
      <3> QED BY <3>1, <3>2
    <2>6. AbsSnap[k] = IF Snaps(c, k) THEN ChildMem(c, k) ELSE rmem[k]
      BY <2>2, <2>5 DEF AbsSnap
    <2> QED BY <2>3, <2>4, <2>5, <2>6 DEF ChildView
  <1>8. ASSUME NEW q \in Procs, \A c \in CPUs : ~Touches(c, q) PROVE IdleView(q)
    <2>1. state[q] # "RUN" /\ \A d \in CPUs : ~Starts(d, q) /\ ~Snaps(d, q) /\ ~Putting(d, q)
      BY <1>1, <1>3, <1>8 DEF Touches
    <2>2. (q \in AbsLive <=> state[q] # "STOP") /\ q \notin AbsLeaving
      BY <2>1 DEF AbsLive, AbsLeaving
    <2>3. AbsRegs[q] = IF state[q] # "STOP" THEN Resume(sv[q]) ELSE sv[q]
      BY <2>1, <2>2 DEF AbsRegs
    <2>4. AbsMem[q] = mem[q]
      BY <2>1 DEF AbsMem
    <2>5. AbsSnap[q] = rmem[q]
      BY <2>1 DEF AbsSnap
    <2> QED BY <2>2, <2>3, <2>4, <2>5 DEF IdleView
  <1> QED BY <1>4, <1>5, <1>6, <1>7, <1>8 DEF Views

(* The same after a step. *)
LEMMA ViewsHoldAfter == RInv' => Views' /\ Apart' /\ Shapes'
  BY ViewsHold, PTL

-----------------------------------------------------------------------------
(* The effect of a step on the abstract state. *)

SameData(q) ==
    state'[q] = state[q] /\ sv'[q] = sv[q] /\ mem'[q] = mem[q] /\ rmem'[q] = rmem[q]

SameView(q) ==
    /\ q \in AbsLive' <=> q \in AbsLive
    /\ q \in AbsLeaving' <=> q \in AbsLeaving
    /\ AbsRegs'[q] = AbsRegs[q] /\ AbsMem'[q] = AbsMem[q] /\ AbsSnap'[q] = AbsSnap[q]

(* CPU c steps: the other CPUs stay where they are, and no process changes
   but the ones that c works on before or after the step. *)
StepOf(c) ==
    /\ \A d \in CPUs \ {c} :
          pc'[d] = pc[d] /\ cur'[d] = cur[d] /\ tf'[d] = tf[d] /\ ret'[d] = ret[d]
    /\ \A q \in Procs : ~Touches(c, q) /\ ~Touches(c, q)' => SameData(q)

(* What the abstract state shows of the other processes does not change. *)
LEMMA Frame ==
    ASSUME RInv, RInv', NEW c \in CPUs, StepOf(c),
           NEW q \in Procs, ~Touches(c, q), ~Touches(c, q)'
    PROVE  SameView(q)
  <1>1. Views /\ Apart /\ Views' /\ Apart'
    BY ViewsHold, ViewsHoldAfter
  <1>2. \A d \in CPUs \ {c} :
          pc'[d] = pc[d] /\ cur'[d] = cur[d] /\ tf'[d] = tf[d] /\ ret'[d] = ret[d]
    BY DEF StepOf
  <1>3. \A d \in CPUs \ {c} :
          /\ OpAt(d)' = OpAt(d) /\ (InCall(d)' <=> InCall(d)) /\ (RootRets(d)' <=> RootRets(d))
          /\ (Executing(d)' <=> Executing(d))
    BY <1>2 DEF OpAt, InCall, RootRets, Executing
  <1>4. \A d \in CPUs \ {c} : CallTrap(d)' = CallTrap(d)
    BY <1>3 DEF CallTrap
  <1>5. \A d \in CPUs \ {c} : \A k :
          /\ Controls(d, k)' <=> Controls(d, k)
          /\ Putting(d, k)' <=> Putting(d, k)
          /\ Starts(d, k)' <=> Starts(d, k)
          /\ Snaps(d, k)' <=> Snaps(d, k)
    BY <1>2, <1>3, <1>4 DEF Controls, Putting, Starts, Snaps
  <1>6. \A d \in CPUs \ {c} : (Leaves(d)' <=> Leaves(d)) /\ LiveRegs(d)' = LiveRegs(d)
    BY <1>2, <1>3, <1>4 DEF Leaves, LiveRegs
  <1>7. \A k \in Procs : ~Touches(c, k) /\ ~Touches(c, k)' => SameData(k)
    BY DEF StepOf
  <1>8. \A d \in CPUs \ {c} : \A k \in Procs : Touches(d, k) => SameData(k) /\ Touches(d, k)'
    <2>1. \A d \in CPUs \ {c} : \A k \in Procs : Touches(d, k) => Touches(d, k)'
      BY <1>2, <1>3, <1>5 DEF Touches
    <2> QED BY <1>1, <1>7, <2>1 DEF Apart
  <1>9. SameData(q)
    BY <1>7
  <1>10. ASSUME NEW d \in CPUs, Executing(d), cur[d] = q PROVE SameView(q)
    <2>1. d # c /\ Executing(d)' /\ cur'[d] = q
      BY <1>2, <1>3, <1>10 DEF Touches
    <2>2. CallerView(d) /\ CallerView(d)'
      BY <1>1, <1>10, <2>1 DEF Views
    <2>3. CallerMem(d)' = CallerMem(d)
      <3>1. CASE pc[d] \in {"memop", "nullmap"}
        <4> DEFINE k == OpAt(d).child
        <4>1. k \in Procs /\ Controls(d, k)
          BY <3>1 DEF RInv, IInv, Control, ControlFacts, Controls
        <4>2. SameData(k)
          BY <1>8, <2>1, <4>1 DEF Touches
        <4> QED BY <1>2, <1>3, <1>9, <1>10, <2>1, <4>2 DEF CallerMem, SameData
      <3>2. CASE pc[d] \notin {"memop", "nullmap"}
        BY <1>2, <1>3, <1>9, <1>10, <2>1, <3>2 DEF CallerMem, SameData
      <3> QED BY <3>1, <3>2
    <2> QED BY <1>6, <1>9, <1>10, <2>1, <2>2, <2>3 DEF CallerView, SameView, SameData
  <1>11. ASSUME NEW d \in CPUs, Controls(d, q) PROVE SameView(q)
    <2>1. d # c /\ Controls(d, q)'
      BY <1>5, <1>11 DEF Touches
    <2>2. ChildView(d, q) /\ ChildView(d, q)'
      BY <1>1, <1>11, <2>1 DEF Views
    <2>3. Executing(d) /\ cur[d] \in Procs
      BY <1>1, <1>11 DEF Controls, Executing, Views
    <2>4. SameData(cur[d])
      BY <1>8, <2>1, <2>3 DEF Touches
    <2>5. ChildMem(d, q)' = ChildMem(d, q)
      BY <1>2, <1>3, <1>5, <1>9, <2>1, <2>4 DEF ChildMem, SameData
    <2> QED BY <1>5, <1>9, <2>1, <2>2, <2>5 DEF ChildView, SameView, SameData
  <1>12. ASSUME \A d \in CPUs : ~Touches(d, q) PROVE SameView(q)
    <2>1. \A d \in CPUs : ~Touches(d, q)'
      BY <1>2, <1>3, <1>5, <1>12 DEF Touches
    <2>2. IdleView(q) /\ IdleView(q)'
      BY <1>1, <1>12, <2>1 DEF Views
    <2> QED BY <1>9, <2>2 DEF IdleView, SameView, SameData
  <1> QED BY <1>10, <1>11, <1>12 DEF Touches

(* A step that changes what is shown of no process changes nothing. *)
LEMMA Stutter ==
    ASSUME RInv, RInv', \A q \in Procs : SameView(q)
    PROVE  UNCHANGED <<AbsLive, AbsLeaving, AbsRegs, AbsMem, AbsSnap>>
  <1>1. Shapes /\ Shapes'
    BY ViewsHold, ViewsHoldAfter
  <1>2. AbsLive' = AbsLive /\ AbsLeaving' = AbsLeaving
    BY <1>1 DEF Shapes, SameView
  <1>3. AbsRegs' = AbsRegs
    BY <1>1, Zenon DEF Shapes, SameView
  <1>4. AbsMem' = AbsMem
    BY <1>1, Zenon DEF Shapes, SameView
  <1>5. AbsSnap' = AbsSnap
    BY <1>1, Zenon DEF Shapes, SameView
  <1> QED BY <1>2, <1>3, <1>4, <1>5

(* The operators of the abstract specification are those of the kernel. *)
LEMMA SameOperators ==
    /\ \A r : Abs!OpOf(r) = OpOf(r) /\ Abs!Complete(r) = Complete(r) /\ Abs!Resume(r) = Resume(r)
    /\ \A r, e, t : Abs!Saved(r, e, t) = Saved(r, e, t)
    /\ \A g : Abs!EntryRegs(g) = EntryRegs(g)
    /\ \A op : Abs!PutTrap(op) = Ref!PutTrap(op) /\ Abs!GetTrap(op) = Ref!GetTrap(op)
    /\ \A r, op, t : Abs!AfterCall(r, op, t) = Ref!AfterCall(r, op, t)
    /\ \A op, m, n : Abs!PutMemory(op, m, n) = Ref!PutMemory(op, m, n)
    /\ \A op, m, r : /\ Abs!GetRegsMemory(op, m, r) = Ref!GetRegsMemory(op, m, r)
                     /\ Abs!GotRegs(op, m, r) = Ref!GotRegs(op, m, r)
    /\ \A op, m, n, f : Abs!GetMemory(op, m, n, f) = Ref!GetMemory(op, m, n, f)
  <1>1. \A r : Abs!OpOf(r) = OpOf(r) /\ Abs!Complete(r) = Complete(r) /\ Abs!Resume(r) = Resume(r)
    BY DEF Abs!OpOf, OpOf, Abs!Complete, Complete, Abs!Resume, Resume
  <1>2. \A r, e, t : Abs!Saved(r, e, t) = Saved(r, e, t)
    BY DEF Abs!Saved, Saved, Abs!Complete, Complete
  <1>3. \A g : Abs!EntryRegs(g) = EntryRegs(g)
    BY DEF Abs!EntryRegs, EntryRegs
  <1>4. \A op : Abs!PutTrap(op) = Ref!PutTrap(op) /\ Abs!GetTrap(op) = Ref!GetTrap(op)
    BY DEF Abs!PutTrap, Ref!PutTrap, Abs!GetTrap, Ref!GetTrap, Abs!T_PGFLT, Ref!T_PGFLT,
       Abs!T_GPFLT, Ref!T_GPFLT
  <1>5. \A r, op, t : Abs!AfterCall(r, op, t) = Ref!AfterCall(r, op, t)
    BY DEF Abs!AfterCall, Ref!AfterCall, Abs!Saved, Ref!Saved, Abs!Complete, Ref!Complete
  <1>6. \A op, m, n : Abs!PutMemory(op, m, n) = Ref!PutMemory(op, m, n)
    BY DEF Abs!PutMemory, Ref!PutMemory, Abs!CopyPages, Ref!CopyPages, Abs!ZeroMem, Ref!ZeroMem,
       Abs!Zero, Ref!Zero
  <1>7. \A op, m, r : /\ Abs!GetRegsMemory(op, m, r) = Ref!GetRegsMemory(op, m, r)
                      /\ Abs!GotRegs(op, m, r) = Ref!GotRegs(op, m, r)
    BY DEF Abs!GetRegsMemory, Ref!GetRegsMemory, Abs!GotRegs, Ref!GotRegs, Abs!RegsWord,
       Ref!RegsWord
  <1>8. \A op, m, n, f : Abs!GetMemory(op, m, n, f) = Ref!GetMemory(op, m, n, f)
    BY DEF Abs!GetMemory, Ref!GetMemory, Abs!CopyPages, Ref!CopyPages, Abs!ZeroMem, Ref!ZeroMem,
       Abs!Zero, Ref!Zero, Abs!MergePages, Ref!MergePages
  <1> QED BY <1>1, <1>2, <1>3, <1>4, <1>5, <1>6, <1>7, <1>8

(* What the kernel's register and memory operations come to in a call. *)
LEMMA CallOperators ==
    /\ \A r, op : Ref!AfterCall(r, op, 0) = Complete(r)
    /\ \A r, op, t : t # 0 =>
          Ref!AfterCall(r, op, t) = Saved(IF op.regs = "fault" THEN NullFrame ELSE r, 0, t)
    /\ \A op : op.regs \in {"bad", "fault"} =>
          Ref!PutTrap(op) = T_PGFLT /\ Ref!GetTrap(op) = T_PGFLT
    /\ \A op : op.regs \notin {"bad", "fault"} =>
          /\ Ref!PutTrap(op) = IF op.mem \in {"merge", "bad"} \/ op.perm = "bad"
                               THEN T_GPFLT ELSE 0
          /\ Ref!GetTrap(op) = IF op.mem = "bad" \/ op.perm = "bad" \/ op.snap
                               THEN T_GPFLT ELSE 0
    /\ \A op, m, n : op.regs \in {"bad", "fault"} \/ op.mem \notin {"zero", "copy"} =>
          Ref!PutMemory(op, m, n) = n
    /\ \A op, m, n : op.regs \notin {"bad", "fault"} /\ op.mem \in {"zero", "copy"} =>
          Ref!PutMemory(op, m, n) = CopyPages(IF op.mem = "zero" THEN ZeroMem ELSE m, n, op.pages)
    /\ \A op, m, r : Ref!GetRegsMemory(op, m, r) =
          IF op.regs = "copy" THEN [m EXCEPT ![op.page] = RegsWord(r)] ELSE m
    /\ \A op, m, n, f :
          /\ op.regs \in {"bad", "fault"} \/ op.mem \notin {"zero", "copy", "merge"} =>
                 Ref!GetMemory(op, m, n, f) = m
          /\ op.regs \notin {"bad", "fault"} /\ op.mem = "zero" =>
                 Ref!GetMemory(op, m, n, f) = CopyPages(ZeroMem, m, op.pages)
          /\ op.regs \notin {"bad", "fault"} /\ op.mem = "copy" =>
                 Ref!GetMemory(op, m, n, f) = CopyPages(n, m, op.pages)
          /\ op.regs \notin {"bad", "fault"} /\ op.mem = "merge" =>
                 Ref!GetMemory(op, m, n, f) = MergePages(f, n, m, op.pages)
    /\ T_PGFLT # 0 /\ T_GPFLT # 0
  <1>1. \A r, op : Ref!AfterCall(r, op, 0) = Complete(r)
    BY DEF Ref!AfterCall, Ref!Complete, Complete
  <1>2. \A r, op, t : t # 0 =>
          Ref!AfterCall(r, op, t) = Saved(IF op.regs = "fault" THEN NullFrame ELSE r, 0, t)
    BY DEF Ref!AfterCall, Ref!Saved, Saved, Ref!Complete, Complete
  <1>3. \A op : op.regs \in {"bad", "fault"} =>
          Ref!PutTrap(op) = T_PGFLT /\ Ref!GetTrap(op) = T_PGFLT
    BY DEF Ref!PutTrap, Ref!GetTrap, Ref!T_PGFLT, T_PGFLT
  <1>4. \A op : op.regs \notin {"bad", "fault"} =>
          /\ Ref!PutTrap(op) = IF op.mem \in {"merge", "bad"} \/ op.perm = "bad"
                               THEN T_GPFLT ELSE 0
          /\ Ref!GetTrap(op) = IF op.mem = "bad" \/ op.perm = "bad" \/ op.snap
                               THEN T_GPFLT ELSE 0
    BY DEF Ref!PutTrap, Ref!GetTrap, Ref!T_GPFLT, T_GPFLT
  <1>5. \A op, m, n : op.regs \in {"bad", "fault"} \/ op.mem \notin {"zero", "copy"} =>
          Ref!PutMemory(op, m, n) = n
    BY DEF Ref!PutMemory
  <1>6. \A op, m, n : op.regs \notin {"bad", "fault"} /\ op.mem \in {"zero", "copy"} =>
          Ref!PutMemory(op, m, n) = CopyPages(IF op.mem = "zero" THEN ZeroMem ELSE m, n, op.pages)
    BY DEF Ref!PutMemory, Ref!CopyPages, CopyPages, Ref!ZeroMem, ZeroMem, Ref!Zero, Zero
  <1>7. \A op, m, r : Ref!GetRegsMemory(op, m, r) =
          IF op.regs = "copy" THEN [m EXCEPT ![op.page] = RegsWord(r)] ELSE m
    BY DEF Ref!GetRegsMemory, Ref!RegsWord, RegsWord
  <1>8. \A op, m, n, f :
          /\ op.regs \in {"bad", "fault"} \/ op.mem \notin {"zero", "copy", "merge"} =>
                 Ref!GetMemory(op, m, n, f) = m
          /\ op.regs \notin {"bad", "fault"} /\ op.mem = "zero" =>
                 Ref!GetMemory(op, m, n, f) = CopyPages(ZeroMem, m, op.pages)
          /\ op.regs \notin {"bad", "fault"} /\ op.mem = "copy" =>
                 Ref!GetMemory(op, m, n, f) = CopyPages(n, m, op.pages)
          /\ op.regs \notin {"bad", "fault"} /\ op.mem = "merge" =>
                 Ref!GetMemory(op, m, n, f) = MergePages(f, n, m, op.pages)
    BY DEF Ref!GetMemory, Ref!CopyPages, CopyPages, Ref!ZeroMem, ZeroMem, Ref!Zero, Zero,
       Ref!MergePages, MergePages
  <1>9. T_PGFLT # 0 /\ T_GPFLT # 0
    BY DEF T_PGFLT, T_GPFLT
  <1> QED BY <1>1, <1>2, <1>3, <1>4, <1>5, <1>6, <1>7, <1>8, <1>9

(* Updating one process. *)
LEMMA OneUpdate ==
    ASSUME RInv, RInv', NEW p \in Procs, \A q \in Procs \ {p} : SameView(q)
    PROVE  /\ AbsRegs' = [AbsRegs EXCEPT ![p] = AbsRegs'[p]]
           /\ AbsMem' = [AbsMem EXCEPT ![p] = AbsMem'[p]]
           /\ AbsSnap' = [AbsSnap EXCEPT ![p] = AbsSnap'[p]]
           /\ AbsLive' = IF p \in AbsLive' THEN AbsLive \cup {p} ELSE AbsLive \ {p}
           /\ AbsLeaving' = IF p \in AbsLeaving' THEN AbsLeaving \cup {p} ELSE AbsLeaving \ {p}
  <1>1. Shapes /\ Shapes'
    BY ViewsHold, ViewsHoldAfter
  <1>2. ASSUME NEW F, NEW G, F = [q \in Procs |-> F[q]], G = [q \in Procs |-> G[q]],
               \A q \in Procs \ {p} : G[q] = F[q]
        PROVE  G = [F EXCEPT ![p] = G[p]]
    BY <1>2
  <1>3. AbsRegs' = [AbsRegs EXCEPT ![p] = AbsRegs'[p]]
    BY <1>1, <1>2 DEF Shapes, SameView
  <1>4. AbsMem' = [AbsMem EXCEPT ![p] = AbsMem'[p]]
    BY <1>1, <1>2 DEF Shapes, SameView
  <1>5. AbsSnap' = [AbsSnap EXCEPT ![p] = AbsSnap'[p]]
    BY <1>1, <1>2 DEF Shapes, SameView
  <1>6. AbsLive' = IF p \in AbsLive' THEN AbsLive \cup {p} ELSE AbsLive \ {p}
    BY <1>1 DEF Shapes, SameView
  <1>7. AbsLeaving' = IF p \in AbsLeaving' THEN AbsLeaving \cup {p} ELSE AbsLeaving \ {p}
    BY <1>1 DEF Shapes, SameView
  <1> QED BY <1>3, <1>4, <1>5, <1>6, <1>7

(* A process in user mode, or at the start of a call, shows its registers and
   its memory as they are. *)
LEMMA InUserMode ==
    ASSUME RInv, NEW c \in CPUs, pc[c] \in {"user", "sync", "regs"} \/ RootRets(c)
    PROVE  /\ Executing(c) /\ cur[c] \in Procs /\ tf[c] \in Regs /\ tf[c].trap = 0
           /\ cur[c] \in AbsLive /\ cur[c] \notin AbsLeaving
           /\ AbsRegs[cur[c]] = tf[c] /\ AbsMem[cur[c]] = mem[cur[c]]
           /\ AbsSnap[cur[c]] = rmem[cur[c]]
  <1>1. Executing(c) /\ tf[c] \in Regs /\ tf[c].trap = 0
    BY DEF Executing, RootRets, RInv, CallFacts, IInv, TypeOK
  <1>2. cur[c] \in Procs /\ CallerView(c)
    BY <1>1, ViewsHold DEF Views
  <1>3. ~Leaves(c) /\ LiveRegs(c) = tf[c] /\ CallerMem(c) = mem[cur[c]]
    BY DEF Leaves, LiveRegs, CallerMem, InCall, RootRets
  <1> QED BY <1>1, <1>2, <1>3 DEF CallerView

(* The same after a step. *)
LEMMA InUserModeAfter ==
    ASSUME RInv', NEW c \in CPUs, pc'[c] \in {"user", "sync", "regs"} \/ RootRets(c)'
    PROVE  /\ Executing(c)' /\ cur'[c] \in Procs
           /\ cur'[c] \in AbsLive' /\ cur'[c] \notin AbsLeaving'
           /\ AbsRegs'[cur'[c]] = tf'[c] /\ AbsMem'[cur'[c]] = mem'[cur'[c]]
           /\ AbsSnap'[cur'[c]] = rmem'[cur'[c]]
  <1>1. Executing(c)'
    BY DEF Executing, RootRets
  <1>2. cur'[c] \in Procs /\ CallerView(c)'
    BY <1>1, ViewsHoldAfter DEF Views
  <1>3. ~Leaves(c)' /\ LiveRegs(c)' = tf'[c] /\ CallerMem(c)' = mem'[cur'[c]]
    BY DEF Leaves, LiveRegs, CallerMem, InCall, RootRets
  <1> QED BY <1>1, <1>2, <1>3 DEF CallerView

(* A process on its way out shows the registers that proc_ret will save. *)
LEMMA OnTheWayOut ==
    ASSUME RInv', NEW c \in CPUs, pc'[c] \in {"ret", "stop", "panic"}, ~RootRets(c)'
    PROVE  /\ Executing(c)' /\ cur'[c] \in Procs
           /\ cur'[c] \in AbsLive' /\ cur'[c] \in AbsLeaving'
           /\ AbsRegs'[cur'[c]] = Saved(tf'[c], ret'[c].entry, ret'[c].trap)
           /\ AbsMem'[cur'[c]] = mem'[cur'[c]]
           /\ AbsSnap'[cur'[c]] = rmem'[cur'[c]]
  <1>1. Executing(c)'
    BY DEF Executing
  <1>2. cur'[c] \in Procs /\ CallerView(c)'
    BY <1>1, ViewsHoldAfter DEF Views
  <1>3. /\ Leaves(c)' /\ LiveRegs(c)' = Saved(tf'[c], ret'[c].entry, ret'[c].trap)
        /\ CallerMem(c)' = mem'[cur'[c]]
    BY DEF Leaves, LiveRegs, CallerMem, InCall, RootRets
  <1> QED BY <1>1, <1>2, <1>3 DEF CallerView

AbsStep == Abs!SNext \/ UNCHANGED <<AbsLive, AbsLeaving, AbsRegs, AbsMem, AbsSnap>>

(* A step of a process that goes on: STORE, NCPU, CPUTS, and RET of the root
   process. *)
LEMMA LocalAbs ==
    ASSUME RInv, RInv', NEW c \in CPUs, pc[c] = "user" \/ RootRets(c), pc'[c] = "user",
           UNCHANGED <<cur, rmem>>, tf'[c] = Complete(tf[c]),
           \A q \in Procs \ {cur[c]} : SameView(q),
           \/ OpAt(c).call = "STORE"
              /\ mem' = [mem EXCEPT ![cur[c]][OpAt(c).page] = <<OpAt(c).val>>]
           \/ OpAt(c).call = "NCPU" /\ mem' = mem
           \/ OpAt(c).call = "CPUTS" /\ OpAt(c).regs \in {"none", "copy"} /\ mem' = mem
           \/ OpAt(c).call = "RET" /\ cur[c] = Root /\ mem' = mem
    PROVE  Abs!SNext
  <1> DEFINE p == cur[c]
             op == OpAt(c)
  <1>1. /\ p \in Procs /\ p \in AbsLive /\ p \notin AbsLeaving
        /\ AbsRegs[p] = tf[c] /\ AbsMem[p] = mem[p] /\ AbsSnap[p] = rmem[p]
    BY InUserMode
  <1>2. /\ p \in AbsLive' /\ p \notin AbsLeaving' /\ AbsSnap'[p] = rmem[p]
        /\ AbsRegs'[p] = Complete(tf[c]) /\ AbsMem'[p] = mem'[p]
    BY InUserModeAfter
  <1>3. /\ AbsRegs' = [AbsRegs EXCEPT ![p] = AbsRegs'[p]]
        /\ AbsMem' = [AbsMem EXCEPT ![p] = AbsMem'[p]]
        /\ AbsSnap' = [AbsSnap EXCEPT ![p] = AbsSnap'[p]]
        /\ AbsLive' = AbsLive \cup {p} /\ AbsLeaving' = AbsLeaving \ {p}
    BY <1>1, <1>2, OneUpdate
  <1>4. Shapes /\ mem \in [Procs -> [Pages -> Words]]
    BY ViewsHold DEF RInv, IInv, TypeOK
  <1>5. AbsLive' = AbsLive /\ AbsLeaving' = AbsLeaving /\ AbsSnap' = AbsSnap
    BY <1>1, <1>2, <1>3, <1>4 DEF Shapes
  <1>6. AbsMem' = IF op.call = "STORE" THEN [AbsMem EXCEPT ![p][op.page] = <<op.val>>]
                  ELSE AbsMem
    <2>1. CASE op.call = "STORE"
      <3>1. mem'[p] = [mem[p] EXCEPT ![op.page] = <<op.val>>]
        BY <1>1, <1>4, <2>1
      <3> QED BY <1>1, <1>2, <1>3, <2>1, <3>1
    <2>2. CASE op.call # "STORE"
      <3>1. mem' = mem
        BY <2>2
      <3> QED BY <1>1, <1>2, <1>3, <1>4, <2>2, <3>1 DEF Shapes
    <2> QED BY <2>1, <2>2
  <1>7. AbsRegs' = [AbsRegs EXCEPT ![p] = Abs!Complete(@)] /\ Abs!OpOf(AbsRegs[p]) = op
    BY <1>1, <1>2, <1>3, SameOperators DEF OpAt
  <1>8. \/ op.call \in {"STORE", "NCPU"}
        \/ op.call = "CPUTS" /\ op.regs \in {"none", "copy"}
        \/ op.call = "RET" /\ p = Root
    OBVIOUS
  <1> HIDE DEF p, op
  <1>9. Abs!Local(p)
    BY <1>5, <1>6, <1>7, <1>8 DEF Abs!Local
  <1> QED BY <1>1, <1>9 DEF Abs!SNext, Abs!Step

(* A step of a process that leaves: RET, a trap, an unknown call, and CPUTS
   with a bad argument. *)
LEMMA LeaveAbs ==
    ASSUME RInv, RInv', NEW c \in CPUs, pc[c] = "user", UNCHANGED <<cur, mem, rmem>>,
           NEW r, NEW e, NEW t, ProcRet(c, r, e, t),
           \A q \in Procs \ {cur[c]} : SameView(q),
           \/ OpAt(c).call = "RET" /\ cur[c] # Root /\ r = tf[c] /\ e = 1 /\ t = T_SYSCALL
           \/ OpAt(c).call = "BRKPT" /\ r = tf[c] /\ e = 1 /\ t = T_BRKPT
           \/ OpAt(c).call = "ILLOP" /\ r = tf[c] /\ e = -1 /\ t = T_ILLOP
           \/ OpAt(c).call = "UNDEF" /\ r = Complete(tf[c]) /\ e = -1 /\ t = T_SYSCALL
           \/ /\ OpAt(c).call = "CPUTS" /\ OpAt(c).regs \in {"bad", "fault"}
              /\ r = (IF OpAt(c).regs = "fault" THEN NullFrame ELSE tf[c])
              /\ e = 0 /\ t = T_PGFLT
    PROVE  Abs!SNext
  <1> DEFINE p == cur[c]
             op == OpAt(c)
  <1>1. /\ p \in Procs /\ p \in AbsLive /\ p \notin AbsLeaving
        /\ AbsRegs[p] = tf[c] /\ AbsMem[p] = mem[p] /\ AbsSnap[p] = rmem[p]
    BY InUserMode
  <1>2. pc'[c] = "ret" /\ tf'[c] = r /\ ret'[c].entry = e /\ ret'[c].trap = t
    BY DEF ProcRet, Goto, RInv, IInv, TypeOK
  <1>3. ~RootRets(c)'
    BY <1>2 DEF RootRets, T_SYSCALL, T_BRKPT, T_ILLOP, T_PGFLT
  <1>4. /\ p \in AbsLive' /\ p \in AbsLeaving' /\ AbsSnap'[p] = rmem[p]
        /\ AbsRegs'[p] = Saved(r, e, t) /\ AbsMem'[p] = mem[p]
    BY <1>2, <1>3, OnTheWayOut
  <1>5. /\ AbsRegs' = [AbsRegs EXCEPT ![p] = AbsRegs'[p]]
        /\ AbsMem' = [AbsMem EXCEPT ![p] = AbsMem'[p]]
        /\ AbsSnap' = [AbsSnap EXCEPT ![p] = AbsSnap'[p]]
        /\ AbsLive' = AbsLive \cup {p} /\ AbsLeaving' = AbsLeaving \cup {p}
    BY <1>1, <1>4, OneUpdate
  <1>6. Shapes
    BY ViewsHold
  <1>7. AbsLive' = AbsLive /\ AbsMem' = AbsMem /\ AbsSnap' = AbsSnap
    BY <1>1, <1>4, <1>5, <1>6 DEF Shapes
  <1>8. AbsRegs' = [AbsRegs EXCEPT ![p] = Saved(r, e, t)] /\ Abs!OpOf(AbsRegs[p]) = op
    BY <1>1, <1>4, <1>5, SameOperators DEF OpAt
  <1>9. /\ Abs!Saved(tf[c], 1, Abs!T_SYSCALL) = Saved(tf[c], 1, T_SYSCALL)
        /\ Abs!Saved(tf[c], 1, Abs!T_BRKPT) = Saved(tf[c], 1, T_BRKPT)
        /\ Abs!Saved(tf[c], -1, Abs!T_ILLOP) = Saved(tf[c], -1, T_ILLOP)
        /\ Abs!Saved(Abs!Complete(tf[c]), -1, Abs!T_SYSCALL) = Saved(Complete(tf[c]), -1, T_SYSCALL)
        /\ Abs!AfterCall(tf[c], op, Abs!T_PGFLT) =
              Saved(IF op.regs = "fault" THEN NullFrame ELSE tf[c], 0, T_PGFLT)
    <2>1. /\ Abs!T_SYSCALL = T_SYSCALL /\ Abs!T_BRKPT = T_BRKPT /\ Abs!T_ILLOP = T_ILLOP
          /\ Abs!T_PGFLT = T_PGFLT
      BY DEF Abs!T_SYSCALL, Abs!T_BRKPT, Abs!T_ILLOP, Abs!T_PGFLT, T_SYSCALL, T_BRKPT, T_ILLOP,
         T_PGFLT
    <2> QED BY <2>1, SameOperators, CallOperators
  <1> HIDE DEF p, op
  <1>10. Abs!Leave(p)
    BY <1>1, <1>5, <1>7, <1>8, <1>9 DEF Abs!Leave, op, p
  <1> QED BY <1>1, <1>10 DEF Abs!SNext, Abs!Step

(* Control goes back to the parent. *)
LEMMA StopAbs == ASSUME RInv, RInv', NEW c \in CPUs, RetStop(c), StepOf(c) PROVE Abs!SNext
  <1> DEFINE p == cur[c]
  <1>0. UNCHANGED cur
    BY DEF RetStop
  <1>1. /\ Executing(c) /\ p \in Procs /\ p # Root /\ ~RootRets(c) /\ pc[c] = "stop"
        /\ ~InCall(c)
    BY DEF RetStop, Executing, RootRets, InCall, RInv, IInv, Control, ControlFacts, RunsOnOneCpu
  <1>2. /\ p \in AbsLive /\ p \in AbsLeaving /\ AbsMem[p] = mem[p] /\ AbsSnap[p] = rmem[p]
        /\ AbsRegs[p] = Saved(tf[c], ret[c].entry, ret[c].trap)
    <2>1. CallerView(c)
      BY <1>1, ViewsHold DEF Views
    <2>2. /\ Leaves(c) /\ LiveRegs(c) = Saved(tf[c], ret[c].entry, ret[c].trap)
          /\ CallerMem(c) = mem[p]
      BY <1>1 DEF Leaves, LiveRegs, CallerMem
    <2> QED BY <2>1, <2>2 DEF CallerView
  <1>3. /\ state'[p] = "STOP" /\ sv'[p] = Saved(tf[c], ret[c].entry, ret[c].trap)
        /\ mem' = mem /\ rmem' = rmem /\ pc'[c] \in {"run", "sched"}
    BY <1>1 DEF RetStop, ProcSave, Goto, RInv, IInv, TypeOK
  <1>4. \A d \in CPUs : ~Touches(d, p)'
    <2>1. ASSUME NEW d \in CPUs, d # c PROVE ~Touches(d, p)'
      <3>1. ~Touches(d, p)
        BY <1>1, <2>1, ViewsHold DEF Apart, Touches
      <3>2. pc'[d] = pc[d] /\ cur'[d] = cur[d] /\ tf'[d] = tf[d]
        BY <2>1 DEF StepOf
      <3> QED BY <1>0, <3>1, <3>2 DEF Touches, Executing, Controls, OpAt
    <2>2. ~Touches(c, p)'
      BY <1>3 DEF Touches, Executing, Controls
    <2> QED BY <2>1, <2>2
  <1>5. /\ p \notin AbsLive' /\ p \notin AbsLeaving' /\ AbsMem'[p] = mem[p]
        /\ AbsSnap'[p] = rmem[p] /\ AbsRegs'[p] = Saved(tf[c], ret[c].entry, ret[c].trap)
    <2>1. IdleView(p)'
      BY <1>0, <1>1, <1>4, ViewsHoldAfter DEF Views
    <2> QED BY <1>0, <1>3, <2>1 DEF IdleView
  <1>6. \A q \in Procs \ {p} : SameView(q)
    <2>1. \A q \in Procs \ {p} : ~Touches(c, q) /\ ~Touches(c, q)'
      BY <1>1, <1>3 DEF Touches, Executing, Controls
    <2> QED BY <2>1, Frame
  <1>7. /\ AbsRegs' = [AbsRegs EXCEPT ![p] = AbsRegs'[p]]
        /\ AbsMem' = [AbsMem EXCEPT ![p] = AbsMem'[p]]
        /\ AbsSnap' = [AbsSnap EXCEPT ![p] = AbsSnap'[p]]
        /\ AbsLive' = AbsLive \ {p} /\ AbsLeaving' = AbsLeaving \ {p}
    BY <1>1, <1>5, <1>6, OneUpdate
  <1>8. Shapes
    BY ViewsHold
  <1>9. AbsRegs' = AbsRegs /\ AbsMem' = AbsMem /\ AbsSnap' = AbsSnap
    BY <1>1, <1>2, <1>5, <1>7, <1>8 DEF Shapes
  <1> HIDE DEF p
  <1>10. Abs!Stop(p)
    BY <1>1, <1>2, <1>7, <1>9 DEF Abs!Stop
  <1> QED BY <1>2, <1>10 DEF Abs!SNext, Abs!Step

(* Updating a parent and its child. *)
LEMMA TwoUpdates ==
    ASSUME RInv, RInv', NEW p \in Procs, NEW k \in Procs, p # k,
           \A q \in Procs \ {p, k} : SameView(q)
    PROVE  /\ AbsRegs' = [AbsRegs EXCEPT ![k] = AbsRegs'[k], ![p] = AbsRegs'[p]]
           /\ AbsMem' = [AbsMem EXCEPT ![k] = AbsMem'[k], ![p] = AbsMem'[p]]
           /\ AbsSnap' = [AbsSnap EXCEPT ![k] = AbsSnap'[k], ![p] = AbsSnap'[p]]
  <1>1. Shapes /\ Shapes'
    BY ViewsHold, ViewsHoldAfter
  <1>2. ASSUME NEW F, NEW G, F = [q \in Procs |-> F[q]], G = [q \in Procs |-> G[q]],
               \A q \in Procs \ {p, k} : G[q] = F[q]
        PROVE  G = [F EXCEPT ![k] = G[k], ![p] = G[p]]
    BY <1>2
  <1>3. AbsRegs' = [AbsRegs EXCEPT ![k] = AbsRegs'[k], ![p] = AbsRegs'[p]]
    BY <1>1, <1>2 DEF Shapes, SameView
  <1>4. AbsMem' = [AbsMem EXCEPT ![k] = AbsMem'[k], ![p] = AbsMem'[p]]
    BY <1>1, <1>2 DEF Shapes, SameView
  <1>5. AbsSnap' = [AbsSnap EXCEPT ![k] = AbsSnap'[k], ![p] = AbsSnap'[p]]
    BY <1>1, <1>2 DEF Shapes, SameView
  <1> QED BY <1>3, <1>4, <1>5

(* The start of the register phase: the child is idle and its own. *)
LEMMA AtRegs ==
    ASSUME RInv, NEW c \in CPUs, pc[c] = "regs"
    PROVE  LET k == OpAt(c).child IN
           /\ k \in Procs /\ cur[c] \in Procs /\ Parent[k] = cur[c] /\ k # cur[c]
           /\ Controls(c, k) /\ state[k] = "STOP"
           /\ k \notin AbsLive /\ k \notin AbsLeaving
           /\ AbsRegs[k] = sv[k] /\ AbsMem[k] = mem[k] /\ AbsSnap[k] = rmem[k]
  <1> DEFINE k == OpAt(c).child
  <1>1. k \in Procs /\ Parent[k] = cur[c] /\ Controls(c, k) /\ state[k] = "STOP"
    BY DEF RInv, IInv, Control, ControlFacts, Controls, ChildUnderControl
  <1>2. cur[c] \in Procs /\ k # cur[c]
    BY <1>1, InUserMode, Exclusive DEF RInv
  <1>3. ChildView(c, k)
    BY <1>1, ViewsHold DEF Views
  <1>4. ~Starts(c, k) /\ ~Snaps(c, k) /\ ChildMem(c, k) = mem[k]
    BY DEF Starts, Snaps, ChildMem, Putting, InCall
  <1> QED BY <1>1, <1>2, <1>3, <1>4 DEF ChildView

(* A stopped child that its parent's CPU has let go of is idle. *)
LEMMA LetGo ==
    ASSUME RInv, RInv', NEW c \in CPUs, StepOf(c), NEW k \in Procs, Controls(c, k),
           ~Touches(c, k)'
    PROVE  IdleView(k)'
  <1>1. ASSUME NEW d \in CPUs, d # c PROVE ~Touches(d, k)'
    <2>1. ~Touches(d, k)
      BY <1>1, ViewsHold DEF Apart, Touches
    <2>2. pc'[d] = pc[d] /\ cur'[d] = cur[d] /\ tf'[d] = tf[d]
      BY <1>1 DEF StepOf
    <2> QED BY <2>1, <2>2 DEF Touches, Executing, Controls, OpAt
  <1> QED BY <1>1, ViewsHoldAfter DEF Views

(* PUT takes effect when it leaves the register phase. *)
LEMMA PutAbs == ASSUME RInv, RInv', NEW c \in CPUs, PutRegs(c), StepOf(c) PROVE Abs!SNext
  <1>1. PICK p, op : p = cur[c] /\ op = OpAt(c)
    OBVIOUS
  <1> DEFINE k == op.child
             trapno == Ref!PutTrap(op)
             starts == trapno = 0 /\ op.start
             cm == Ref!PutMemory(op, mem[p], mem[k])
  <1>2. /\ pc[c] = "regs" /\ op.call = "PUT" /\ UNCHANGED <<state, mem, rmem, cur>>
        /\ op \in Ops /\ op.regs \in {"none", "copy", "bad", "fault"}
    BY <1>1, OpOfType DEF PutRegs, RInv, IInv, TypeOK, OpAt, Ops, procvars
  <1>3. /\ k \in Procs /\ p \in Procs /\ Parent[k] = p /\ k # p
        /\ Controls(c, k) /\ state[k] = "STOP"
        /\ k \notin AbsLive /\ k \notin AbsLeaving
        /\ AbsRegs[k] = sv[k] /\ AbsMem[k] = mem[k] /\ AbsSnap[k] = rmem[k]
    BY <1>1, <1>2, AtRegs
  <1>4. /\ p \in AbsLive /\ p \notin AbsLeaving
        /\ AbsRegs[p] = tf[c] /\ AbsMem[p] = mem[p] /\ AbsSnap[p] = rmem[p]
    BY <1>1, <1>2, InUserMode
  <1>5. sv'[k] \in IF op.regs = "copy" THEN {EntryRegs(op.prog)}
                   ELSE IF op.regs = "fault" THEN {sv[k], EntryRegs(op.prog)}
                   ELSE {sv[k]}
    BY <1>1, <1>2, <1>3 DEF PutRegs, RInv, IInv, TypeOK
  <1>6. /\ p \in AbsLive' /\ (p \in AbsLeaving' <=> trapno # 0)
        /\ AbsRegs'[p] = Ref!AfterCall(tf[c], op, trapno)
        /\ AbsMem'[p] = mem[p] /\ AbsSnap'[p] = rmem[p]
        /\ (k \in AbsLive' <=> starts) /\ k \notin AbsLeaving'
        /\ AbsRegs'[k] = (IF starts THEN Resume(sv'[k]) ELSE sv'[k])
        /\ AbsMem'[k] = cm
        /\ AbsSnap'[k] = (IF trapno = 0 /\ op.snap THEN cm ELSE rmem[k])
        /\ Executing(c)' /\ cur'[c] = p
        /\ \A q \in Procs : Controls(c, q)' => q = k
    <2>1. CASE op.regs \in {"none", "copy"}
      <3>1. pc'[c] = "memop" /\ tf' = tf /\ OpAt(c)' = op /\ cur'[c] = p
        BY <1>1, <1>2, <2>1 DEF PutRegs, Goto, RInv, IInv, TypeOK, OpAt
      <3>2. /\ Executing(c)' /\ InCall(c)' /\ Controls(c, k)' /\ Putting(c, k)'
            /\ \A q \in Procs : Controls(c, q)' => q = k
        BY <1>2, <3>1 DEF Executing, InCall, Controls, Putting
      <3>3. CallTrap(c)' = trapno /\ ~RootRets(c)'
        BY <1>2, <3>1 DEF CallTrap, RootRets
      <3>4. /\ LiveRegs(c)' = Ref!AfterCall(tf[c], op, trapno) /\ (Leaves(c)' <=> trapno # 0)
            /\ CallerMem(c)' = mem[p]
        BY <1>2, <3>1, <3>2, <3>3 DEF LiveRegs, Leaves, CallerMem
      <3>5. /\ Starts(c, k)' <=> starts
            /\ Snaps(c, k)' <=> trapno = 0 /\ op.snap
            /\ ChildMem(c, k)' = cm
        BY <1>2, <3>1, <3>2, <3>3 DEF Starts, Snaps, ChildMem
      <3>6. CallerView(c)' /\ ChildView(c, k)'
        BY <1>3, <3>2, ViewsHoldAfter DEF Views
      <3>7. /\ p \in AbsLive' /\ (p \in AbsLeaving' <=> trapno # 0)
            /\ AbsRegs'[p] = Ref!AfterCall(tf[c], op, trapno)
            /\ AbsMem'[p] = mem[p] /\ AbsSnap'[p] = rmem[p]
        BY <1>2, <3>1, <3>4, <3>6 DEF CallerView
      <3>8. /\ (k \in AbsLive' <=> starts) /\ k \notin AbsLeaving'
            /\ AbsRegs'[k] = (IF starts THEN Resume(sv'[k]) ELSE sv'[k])
            /\ AbsMem'[k] = cm
            /\ AbsSnap'[k] = (IF trapno = 0 /\ op.snap THEN cm ELSE rmem[k])
        <4> HIDE DEF starts, cm, trapno, k
        <4> QED BY <1>2, <3>5, <3>6 DEF ChildView
      <3> QED BY <3>1, <3>2, <3>7, <3>8
    <2>2. CASE op.regs \in {"bad", "fault"}
      <3>1. trapno = T_PGFLT /\ trapno # 0 /\ cm = mem[k] /\ ~starts
        BY <2>2, CallOperators
      <3>2. /\ pc'[c] = "ret" /\ ret'[c].entry = 0 /\ ret'[c].trap = T_PGFLT
            /\ tf'[c] = (IF op.regs = "fault" THEN NullFrame ELSE tf[c]) /\ cur'[c] = p
        BY <1>1, <1>2, <2>2 DEF PutRegs, Systrap, Sysrecover, ProcRet, Goto, RInv, IInv, TypeOK
      <3>3. ~RootRets(c)' /\ \A q : ~Controls(c, q)'
        BY <3>2 DEF RootRets, Controls
      <3>4. /\ p \in AbsLive' /\ p \in AbsLeaving' /\ Executing(c)'
            /\ AbsRegs'[p] = Saved(tf'[c], 0, T_PGFLT)
            /\ AbsMem'[p] = mem[p] /\ AbsSnap'[p] = rmem[p]
        BY <1>2, <3>2, <3>3, OnTheWayOut
      <3>5. AbsRegs'[p] = Ref!AfterCall(tf[c], op, trapno)
        BY <3>1, <3>2, <3>4, CallOperators
      <3>6. ~Touches(c, k)'
        BY <1>3, <3>2, <3>3 DEF Touches
      <3>7. IdleView(k)'
        <4> HIDE DEF k
        <4> QED BY <1>3, <3>6, LetGo
      <3>8. /\ k \notin AbsLive' /\ k \notin AbsLeaving' /\ AbsRegs'[k] = sv'[k]
            /\ AbsMem'[k] = mem[k] /\ AbsSnap'[k] = rmem[k]
        BY <1>2, <1>3, <3>7 DEF IdleView
      <3> QED BY <3>1, <3>2, <3>3, <3>4, <3>5, <3>8
    <2> QED BY <1>2, <2>1, <2>2
  <1>7. \A q \in Procs \ {p, k} : SameView(q)
    <2>1. \A q \in Procs \ {p, k} : ~Touches(c, q) /\ ~Touches(c, q)'
      BY <1>1, <1>6 DEF Touches, Controls
    <2> QED BY <2>1, Frame
  <1> HIDE DEF k, trapno, starts, cm
  <1>8. /\ AbsRegs' = [AbsRegs EXCEPT ![k] = AbsRegs'[k], ![p] = AbsRegs'[p]]
        /\ AbsMem' = [AbsMem EXCEPT ![k] = AbsMem'[k], ![p] = AbsMem'[p]]
        /\ AbsSnap' = [AbsSnap EXCEPT ![k] = AbsSnap'[k], ![p] = AbsSnap'[p]]
    BY <1>3, <1>7, TwoUpdates
  <1>9. AbsLive' = IF starts THEN AbsLive \cup {k} ELSE AbsLive
    <2>1. \A q : q \notin {p, k} => (q \in AbsLive' <=> q \in AbsLive)
      BY <1>7, ViewsHold, ViewsHoldAfter DEF SameView, Shapes
    <2>2. p \in AbsLive' /\ p \in AbsLive /\ k \notin AbsLive /\ (k \in AbsLive' <=> starts)
      BY <1>3, <1>4, <1>6
    <2>3. \A q : q \in AbsLive' <=> q \in AbsLive \/ (starts /\ q = k)
      BY <2>1, <2>2
    <2> QED BY <2>3
  <1>10. AbsLeaving' = IF trapno = 0 THEN AbsLeaving ELSE AbsLeaving \cup {p}
    <2>1. \A q : q \notin {p, k} => (q \in AbsLeaving' <=> q \in AbsLeaving)
      BY <1>7, ViewsHold, ViewsHoldAfter DEF SameView, Shapes
    <2>2. /\ k \notin AbsLeaving' /\ k \notin AbsLeaving /\ p \notin AbsLeaving
          /\ (p \in AbsLeaving' <=> trapno # 0)
      BY <1>3, <1>4, <1>6
    <2>3. \A q : q \in AbsLeaving' <=> q \in AbsLeaving \/ (trapno # 0 /\ q = p)
      BY <2>1, <2>2
    <2> QED BY <2>3
  <1>11. Shapes
    BY ViewsHold
  <1>12. AbsMem' = [AbsMem EXCEPT ![k] = cm]
    BY <1>3, <1>4, <1>6, <1>8, <1>11 DEF Shapes
  <1>13. AbsSnap' = IF trapno = 0 /\ op.snap THEN [AbsSnap EXCEPT ![k] = cm] ELSE AbsSnap
    BY <1>3, <1>4, <1>6, <1>8, <1>11 DEF Shapes
  <1>14. AbsRegs' = [AbsRegs EXCEPT ![k] = IF starts THEN Resume(sv'[k]) ELSE sv'[k],
                                    ![p] = Ref!AfterCall(@, op, trapno)]
    BY <1>3, <1>4, <1>6, <1>8, <1>11 DEF Shapes
  <1>15. Abs!OpOf(AbsRegs[p]) = op
    BY <1>1, <1>4, SameOperators DEF OpAt
  <1>16. Abs!Put(p)
    <2>1. sv'[k] \in IF op.regs = "copy" THEN {Abs!EntryRegs(op.prog)}
                     ELSE IF op.regs = "fault" THEN {AbsRegs[k], Abs!EntryRegs(op.prog)}
                     ELSE {AbsRegs[k]}
      BY <1>3, <1>5, SameOperators DEF k
    <2>2. AbsRegs' = [AbsRegs EXCEPT ![k] = IF starts THEN Abs!Resume(sv'[k]) ELSE sv'[k],
                                     ![p] = Abs!AfterCall(@, op, trapno)]
      BY <1>14, SameOperators
    <2>3. trapno = Abs!PutTrap(op) /\ cm = Abs!PutMemory(op, AbsMem[p], AbsMem[k])
      BY <1>3, <1>4, SameOperators DEF trapno, cm
    <2> QED BY <1>2, <1>3, <1>9, <1>10, <1>12, <1>13, <1>15, <2>1, <2>2, <2>3
            DEF Abs!Put, starts, k
  <1> QED BY <1>4, <1>16 DEF Abs!SNext, Abs!Step

(* GET takes effect when it leaves the register phase. *)
LEMMA GetAbs == ASSUME RInv, RInv', NEW c \in CPUs, GetRegs(c), StepOf(c) PROVE Abs!SNext
  <1>1. PICK p, op : p = cur[c] /\ op = OpAt(c)
    OBVIOUS
  <1> DEFINE k == op.child
             trapno == Ref!GetTrap(op)
             pm == mem'[p]
             new == Ref!GetMemory(op, pm, mem[k], rmem[k])
  <1>2. /\ pc[c] = "regs" /\ op.call = "GET" /\ UNCHANGED <<state, sv, rmem, cur>>
        /\ op \in Ops /\ op.regs \in {"none", "copy", "bad", "fault"}
    BY <1>1, OpOfType DEF GetRegs, RInv, IInv, TypeOK, OpAt, Ops, procvars
  <1>3. /\ k \in Procs /\ p \in Procs /\ Parent[k] = p /\ k # p
        /\ Controls(c, k) /\ state[k] = "STOP"
        /\ k \notin AbsLive /\ k \notin AbsLeaving
        /\ AbsRegs[k] = sv[k] /\ AbsMem[k] = mem[k] /\ AbsSnap[k] = rmem[k]
    BY <1>1, <1>2, AtRegs
  <1>4. /\ p \in AbsLive /\ p \notin AbsLeaving
        /\ AbsRegs[p] = tf[c] /\ AbsMem[p] = mem[p] /\ AbsSnap[p] = rmem[p]
    BY <1>1, <1>2, InUserMode
  <1>5. pm \in Ref!GotRegs(op, mem[p], sv[k]) /\ mem'[k] = mem[k]
    <2> DEFINE got == [mem[p] EXCEPT ![op.page] = RegsWord(sv[k])]
    <2>1. (IF k \in alloc THEN sv[k] ELSE ZeroFrame) = sv[k]
      BY <1>3 DEF RInv, Blank
    <2>2. Ref!GotRegs(op, mem[p], sv[k]) =
            IF op.regs = "fault" THEN {mem[p], got}
            ELSE {IF op.regs = "copy" THEN got ELSE mem[p]}
      BY CallOperators DEF Ref!GotRegs, Ref!RegsWord, RegsWord
    <2>3. mem \in [Procs -> [Pages -> Words]]
      BY DEF RInv, IInv, TypeOK
    <2>4. CASE op.regs \in {"none", "bad"}
      <3>1. mem' = mem
        BY <1>1, <1>2, <2>4 DEF GetRegs
      <3> QED BY <2>2, <2>4, <3>1
    <2>5. CASE op.regs = "copy"
      <3>1. mem' = [mem EXCEPT ![p] = got]
        BY <1>1, <1>2, <2>1, <2>5 DEF GetRegs
      <3> HIDE DEF k, got
      <3>2. mem'[p] = got /\ mem'[k] = mem[k]
        BY <1>3, <2>3, <3>1
      <3> QED BY <2>2, <2>5, <3>2
    <2>6. CASE op.regs = "fault"
      <3>1. \/ mem' = [mem EXCEPT ![p] = got]
            \/ mem' = [mem EXCEPT ![p] = mem[p]]
        BY <1>1, <1>2, <2>1, <2>6 DEF GetRegs
      <3> HIDE DEF k, got
      <3>2. mem'[p] \in {mem[p], got} /\ mem'[k] = mem[k]
        BY <1>3, <2>3, <3>1
      <3> QED BY <2>2, <2>6, <3>2
    <2> QED BY <1>2, <2>4, <2>5, <2>6
  <1>6. /\ p \in AbsLive' /\ (p \in AbsLeaving' <=> trapno # 0)
        /\ AbsRegs'[p] = Ref!AfterCall(tf[c], op, trapno)
        /\ AbsMem'[p] = new /\ AbsSnap'[p] = rmem[p]
        /\ SameView(k)
        /\ Executing(c)' /\ cur'[c] = p
        /\ \A q \in Procs : Controls(c, q)' => q = k
    <2>1. CASE op.regs \in {"none", "copy"}
      <3>1. pc'[c] = "memop" /\ tf' = tf /\ OpAt(c)' = op /\ cur'[c] = p
        BY <1>1, <1>2, <2>1 DEF GetRegs, Goto, RInv, IInv, TypeOK, OpAt
      <3>2. /\ Executing(c)' /\ InCall(c)' /\ Controls(c, k)' /\ ~Putting(c, k)'
            /\ \A q \in Procs : Controls(c, q)' => q = k
        BY <1>2, <3>1 DEF Executing, InCall, Controls, Putting
      <3>3. CallTrap(c)' = trapno /\ ~RootRets(c)'
        BY <1>2, <3>1 DEF CallTrap, RootRets
      <3>4. /\ LiveRegs(c)' = Ref!AfterCall(tf[c], op, trapno) /\ (Leaves(c)' <=> trapno # 0)
            /\ CallerMem(c)' = new
        BY <1>2, <1>5, <3>1, <3>2, <3>3 DEF LiveRegs, Leaves, CallerMem
      <3>5. ~Starts(c, k)' /\ ~Snaps(c, k)' /\ ChildMem(c, k)' = mem[k]
        BY <1>5, <3>2 DEF Starts, Snaps, ChildMem
      <3>6. CallerView(c)' /\ ChildView(c, k)'
        BY <1>3, <3>2, ViewsHoldAfter DEF Views
      <3>7. /\ p \in AbsLive' /\ (p \in AbsLeaving' <=> trapno # 0)
            /\ AbsRegs'[p] = Ref!AfterCall(tf[c], op, trapno)
            /\ AbsMem'[p] = new /\ AbsSnap'[p] = rmem[p]
        <4> HIDE DEF new, trapno
        <4> QED BY <1>2, <3>1, <3>4, <3>6 DEF CallerView
      <3>8. SameView(k)
        <4> HIDE DEF k
        <4> QED BY <1>2, <1>3, <3>5, <3>6 DEF ChildView, SameView
      <3> QED BY <3>1, <3>2, <3>7, <3>8
    <2>2. CASE op.regs \in {"bad", "fault"}
      <3>1. trapno = T_PGFLT /\ trapno # 0 /\ new = pm
        BY <2>2, CallOperators
      <3>2. /\ pc'[c] = "ret" /\ ret'[c].entry = 0 /\ ret'[c].trap = T_PGFLT
            /\ tf'[c] = (IF op.regs = "fault" THEN NullFrame ELSE tf[c]) /\ cur'[c] = p
        BY <1>1, <1>2, <2>2 DEF GetRegs, Systrap, Sysrecover, ProcRet, Goto, RInv, IInv, TypeOK
      <3>3. ~RootRets(c)' /\ \A q : ~Controls(c, q)'
        BY <3>2 DEF RootRets, Controls
      <3>4. /\ p \in AbsLive' /\ p \in AbsLeaving' /\ Executing(c)'
            /\ AbsRegs'[p] = Saved(tf'[c], 0, T_PGFLT)
            /\ AbsMem'[p] = mem'[p] /\ AbsSnap'[p] = rmem[p]
        BY <1>2, <3>2, <3>3, OnTheWayOut
      <3>5. AbsRegs'[p] = Ref!AfterCall(tf[c], op, trapno)
        BY <3>1, <3>2, <3>4, CallOperators
      <3>6. ~Touches(c, k)'
        BY <1>3, <3>2, <3>3 DEF Touches
      <3>7. IdleView(k)'
        <4> HIDE DEF k
        <4> QED BY <1>3, <3>6, LetGo
      <3>8. SameView(k)
        <4> HIDE DEF k
        <4> QED BY <1>2, <1>3, <1>5, <3>7 DEF IdleView, SameView
      <3>9. AbsMem'[p] = new
        BY <1>5, <3>1, <3>4
      <3> QED BY <3>1, <3>2, <3>3, <3>4, <3>5, <3>8, <3>9
    <2> QED BY <1>2, <2>1, <2>2
  <1> HIDE DEF k, trapno, pm, new
  <1>7. \A q \in Procs \ {p} : SameView(q)
    <2>1. \A q \in Procs \ {p, k} : ~Touches(c, q) /\ ~Touches(c, q)'
      BY <1>1, <1>6 DEF Touches, Controls, k
    <2> QED BY <1>6, <2>1, Frame
  <1>8. /\ AbsRegs' = [AbsRegs EXCEPT ![p] = AbsRegs'[p]]
        /\ AbsMem' = [AbsMem EXCEPT ![p] = AbsMem'[p]]
        /\ AbsSnap' = [AbsSnap EXCEPT ![p] = AbsSnap'[p]]
        /\ AbsLive' = AbsLive \cup {p}
        /\ AbsLeaving' = IF p \in AbsLeaving' THEN AbsLeaving \cup {p} ELSE AbsLeaving \ {p}
    BY <1>3, <1>6, <1>7, OneUpdate
  <1>9. Shapes
    BY ViewsHold
  <1>10. AbsLive' = AbsLive /\ AbsSnap' = AbsSnap
    BY <1>3, <1>4, <1>6, <1>8, <1>9 DEF Shapes
  <1>11. AbsLeaving' = IF trapno = 0 THEN AbsLeaving ELSE AbsLeaving \cup {p}
    BY <1>4, <1>6, <1>8
  <1>12. \E m \in Abs!GotRegs(op, AbsMem[p], AbsRegs[k]) :
            AbsMem' = [AbsMem EXCEPT ![p] = Abs!GetMemory(op, m, AbsMem[k], AbsSnap[k])]
    <2>1. new = Abs!GetMemory(op, pm, AbsMem[k], AbsSnap[k])
      BY <1>3, <1>4, SameOperators DEF new
    <2>2. pm \in Abs!GotRegs(op, AbsMem[p], AbsRegs[k])
      BY <1>3, <1>4, <1>5, SameOperators
    <2> QED BY <1>6, <1>8, <2>1, <2>2
  <1>13. AbsRegs' = [AbsRegs EXCEPT ![p] = Abs!AfterCall(@, op, trapno)] /\ trapno = Abs!GetTrap(op)
    <2>1. AbsRegs'[p] = Abs!AfterCall(AbsRegs[p], op, trapno) /\ trapno = Abs!GetTrap(op)
      BY <1>4, <1>6, SameOperators DEF trapno
    <2> QED BY <1>8, <2>1
  <1>14. Abs!OpOf(AbsRegs[p]) = op
    BY <1>1, <1>4, SameOperators DEF OpAt
  <1>15. Abs!Get(p)
    BY <1>2, <1>3, <1>10, <1>11, <1>12, <1>13, <1>14 DEF Abs!Get, k
  <1> QED BY <1>4, <1>15 DEF Abs!SNext, Abs!Step

-----------------------------------------------------------------------------
(* A CPU changes only the processes it works on. *)
LEMMA StepOfCpu == ASSUME RInv, RInv', NEW c \in CPUs, CpuStep(c) PROVE StepOf(c)
  <1> USE DEF RInv, IInv, procvars, datavars
  <1>1. \A d \in CPUs \ {c} :
          pc'[d] = pc[d] /\ cur'[d] = cur[d] /\ tf'[d] = tf[d] /\ ret'[d] = ret[d]
    BY DEF CpuStep, UserStep, KernelStep, SchedStep, UserStore, UserTrap, DoCputs, DoNcpu,
       DoRet, PutGetLock, PutGetSync, ProcWait, PutRegs, GetRegs, PutMem, GetMem, PutSnap,
       GetDone, ReadyLock, ProcReady, RetLock, RetStop, RootRet, SchedLock, SchedIdle,
       SchedSpin, SchedPick, SchedLockProc, ProcRun, Goto, Return, ProcRet, Systrap,
       Sysrecover, TypeOK
  <1>2. ASSUME NEW q \in Procs, ~Touches(c, q), ~Touches(c, q)' PROVE SameData(q)
    <2>1. /\ Executing(c) => q # cur[c]
          /\ pc[c] \in {"regs", "memop", "perm", "start", "enqueue", "nullmap"} => q # OpAt(c).child
      BY <1>2 DEF Touches, Controls
    <2>2. CASE UserStore(c) \/ GetRegs(c) \/ GetMem(c)
      <3>1. Executing(c) /\ UNCHANGED <<state, sv, rmem>>
        BY <2>2 DEF UserStore, GetRegs, GetMem, Executing
      <3>2. mem'[q] = mem[q]
        BY <2>1, <2>2, <3>1 DEF UserStore, GetRegs, GetMem, TypeOK
      <3> QED BY <3>1, <3>2 DEF SameData
    <2>3. CASE ProcWait(c) \/ RetStop(c)
      <3>1. Executing(c) /\ UNCHANGED <<mem, rmem>>
        BY <2>3 DEF ProcWait, RetStop, Executing
      <3>2. state'[q] = state[q] /\ sv'[q] = sv[q]
        BY <2>1, <2>3, <3>1 DEF ProcWait, RetStop, WaitOn, ProcSave, TypeOK
      <3> QED BY <3>1, <3>2 DEF SameData
    <2>4. CASE PutRegs(c)
      BY <2>1, <2>4 DEF PutRegs, TypeOK, SameData
    <2>5. CASE PutMem(c)
      BY <2>1, <2>5 DEF PutMem, TypeOK, SameData
    <2>6. CASE PutSnap(c)
      <3>1. rmem' = rmem \/ rmem' = [rmem EXCEPT ![OpAt(c).child] = mem[OpAt(c).child]]
        BY <2>6, Zenon DEF PutSnap
      <3>2. UNCHANGED <<state, sv, mem>> /\ pc[c] = "perm"
        BY <2>6 DEF PutSnap
      <3> QED BY <2>1, <3>1, <3>2 DEF TypeOK, SameData
    <2>7. CASE ProcReady(c)
      BY <2>1, <2>7 DEF ProcReady, TypeOK, SameData
    <2>8. CASE ProcRun(c)
      <3>1. cur'[c] = nxt[c] /\ pc'[c] = "user" /\ UNCHANGED <<sv, mem, rmem>>
        BY <2>8 DEF ProcRun, Goto, TypeOK
      <3>2. q # nxt[c]
        BY <1>2, <3>1 DEF Touches, Executing
      <3> QED BY <2>8, <3>1, <3>2 DEF ProcRun, RunOn, TypeOK, SameData
    <2>9. CASE UNCHANGED <<state, sv, mem, rmem>>
      BY <2>9 DEF SameData
    <2>10. \/ UserStore(c) \/ GetRegs(c) \/ GetMem(c) \/ ProcWait(c) \/ RetStop(c)
           \/ PutRegs(c) \/ PutMem(c) \/ PutSnap(c) \/ ProcReady(c) \/ ProcRun(c)
           \/ UNCHANGED <<state, sv, mem, rmem>>
      BY DEF CpuStep, UserStep, KernelStep, SchedStep, UserTrap, DoCputs, DoNcpu, DoRet,
         PutGetLock, PutGetSync, GetDone, ReadyLock, RetLock, RootRet, SchedLock, SchedIdle,
         SchedSpin, SchedPick, SchedLockProc
    <2> QED BY <2>2, <2>3, <2>4, <2>5, <2>6, <2>7, <2>8, <2>9, <2>10
  <1> QED BY <1>1, <1>2 DEF StepOf

(* What the abstract state shows of a call under way. *)
CallView(c) ==
    LET p == cur[c]
        k == OpAt(c).child
    IN
    /\ p \in Procs /\ k \in Procs /\ k # p /\ Executing(c) /\ Controls(c, k)
    /\ state[k] = "STOP" /\ tf[c].trap = 0 /\ OpAt(c) \in Ops
    /\ OpAt(c).regs \in {"none", "copy"} /\ OpAt(c).call \in {"PUT", "GET"}
    /\ p \in AbsLive /\ (p \in AbsLeaving <=> CallTrap(c) # 0)
    /\ AbsRegs[p] = Ref!AfterCall(tf[c], OpAt(c), CallTrap(c))
    /\ AbsMem[p] = CallerMem(c) /\ AbsSnap[p] = rmem[p]
    /\ ChildView(c, k)

(* It shows that of every call that has left the register phase. *)
LEMMA CallViews == RInv => \A c \in CPUs : InCall(c) => CallView(c)
  <1> SUFFICES ASSUME RInv, NEW c \in CPUs, InCall(c) PROVE CallView(c)
    OBVIOUS
  <1> DEFINE k == OpAt(c).child
  <1>1. /\ k \in Procs /\ Parent[k] = cur[c] /\ Controls(c, k) /\ Executing(c)
        /\ state[k] = "STOP" /\ tf[c].trap = 0
        /\ OpAt(c).regs \in {"none", "copy"} /\ OpAt(c).call \in {"PUT", "GET"}
    BY DEF RInv, IInv, Control, ControlFacts, Controls, ChildUnderControl, CallFacts, InCall,
       Executing
  <1>2. OpAt(c) \in Ops
    BY OpOfType DEF RInv, IInv, TypeOK, OpAt
  <1>3. cur[c] \in Procs /\ CallerView(c) /\ ChildView(c, k)
    BY <1>1, ViewsHold DEF Views
  <1>4. k # cur[c]
    BY <1>1, Exclusive DEF RInv
  <1>5. ~RootRets(c)
    BY DEF InCall, RootRets
  <1>6. (Leaves(c) <=> CallTrap(c) # 0) /\ LiveRegs(c) = Ref!AfterCall(tf[c], OpAt(c), CallTrap(c))
    BY <1>5 DEF Leaves, LiveRegs, InCall
  <1> QED BY <1>1, <1>2, <1>3, <1>4, <1>6 DEF CallView, CallerView

(* The same after a step. *)
LEMMA CallViewsAfter == RInv' => (\A c \in CPUs : InCall(c) => CallView(c))'
  BY CallViews, PTL

(* The later phases of a call change nothing that can be seen. *)

(* A call goes on to its next phase. *)
LEMMA Proceeds ==
    ASSUME RInv, RInv', NEW c \in CPUs, StepOf(c), InCall(c), InCall(c)',
           UNCHANGED <<cur, tf, sv>>, CallerMem(c)' = CallerMem(c),
           LET p == cur[c]
               k == OpAt(c).child
           IN /\ rmem'[p] = rmem[p] /\ ChildMem(c, k)' = ChildMem(c, k)
              /\ (IF Snaps(c, k)' THEN ChildMem(c, k)' ELSE rmem'[k])
                  = (IF Snaps(c, k) THEN ChildMem(c, k) ELSE rmem[k])
    PROVE  UNCHANGED <<AbsLive, AbsLeaving, AbsRegs, AbsMem, AbsSnap>>
  <1>1. PICK p, op : p = cur[c] /\ op = OpAt(c)
    OBVIOUS
  <1>2. PICK k : k = op.child
    OBVIOUS
  <1>3. cur'[c] = p /\ OpAt(c)' = op
    BY <1>1 DEF OpAt
  <1>4. CallView(c) /\ CallView(c)'
    BY CallViews, CallViewsAfter
  <1>5. CallTrap(c)' = CallTrap(c) /\ (Putting(c, k)' <=> Putting(c, k))
    BY <1>1, <1>3 DEF CallTrap, Putting
  <1>6. Starts(c, k)' <=> Starts(c, k)
    BY <1>1, <1>3, <1>5 DEF Starts
  <1>7. SameView(p)
    BY <1>1, <1>3, <1>4, <1>5 DEF CallView, SameView
  <1>8. SameView(k)
    <2>1. ChildView(c, k) /\ ChildView(c, k)'
      BY <1>1, <1>2, <1>3, <1>4 DEF CallView
    <2> QED BY <1>1, <1>2, <1>3, <1>6, <2>1 DEF ChildView, SameView
  <1>9. ASSUME NEW q \in Procs \ {p, k} PROVE SameView(q)
    BY <1>1, <1>2, <1>3, <1>9, Frame DEF Touches, Controls
  <1> QED BY <1>7, <1>8, <1>9, Stutter

(* A call ends with a trap. *)
LEMMA Aborts ==
    ASSUME RInv, RInv', NEW c \in CPUs, StepOf(c), InCall(c), Systrap(c, T_GPFLT),
           CallTrap(c) = T_GPFLT, UNCHANGED <<cur, state, sv, mem, rmem>>,
           CallerMem(c) = mem[cur[c]], ChildMem(c, OpAt(c).child) = mem[OpAt(c).child]
    PROVE  UNCHANGED <<AbsLive, AbsLeaving, AbsRegs, AbsMem, AbsSnap>>
  <1>1. PICK p, op : p = cur[c] /\ op = OpAt(c)
    OBVIOUS
  <1>2. PICK k : k = op.child
    OBVIOUS
  <1>3. CallView(c) /\ k \in Procs /\ Controls(c, k) /\ k # p
    BY <1>1, <1>2, CallViews DEF CallView
  <1>4. /\ pc'[c] = "ret" /\ ret'[c].entry = 0 /\ ret'[c].trap = T_GPFLT
        /\ tf'[c] = tf[c] /\ cur'[c] = p
    BY <1>1 DEF Systrap, ProcRet, Goto, RInv, IInv, TypeOK
  <1>5. ~RootRets(c)' /\ (\A q : ~Controls(c, q)') /\ T_GPFLT # 0
    BY <1>4 DEF RootRets, Controls, T_GPFLT, T_SYSCALL
  <1>6. SameView(p)
    <2>1. /\ p \in AbsLive' /\ p \in AbsLeaving'
          /\ AbsRegs'[p] = Saved(tf[c], 0, T_GPFLT)
          /\ AbsMem'[p] = mem[p] /\ AbsSnap'[p] = rmem[p]
      BY <1>4, <1>5, OnTheWayOut
    <2>2. op.regs # "fault" /\ AbsRegs[p] = Ref!AfterCall(tf[c], op, T_GPFLT)
      BY <1>1, <1>3 DEF CallView
    <2>3. AbsRegs[p] = Saved(tf[c], 0, T_GPFLT)
      BY <1>5, <2>2, CallOperators
    <2> QED BY <1>1, <1>3, <1>5, <2>1, <2>3 DEF CallView, SameView
  <1>7. SameView(k)
    <2>1. IdleView(k)'
      BY <1>3, <1>4, <1>5, LetGo DEF Touches
    <2>2. ChildView(c, k) /\ ~Starts(c, k) /\ ~Snaps(c, k) /\ state[k] = "STOP"
      BY <1>1, <1>2, <1>3, <1>5 DEF CallView, Starts, Snaps
    <2> QED BY <1>1, <1>2, <2>1, <2>2 DEF IdleView, ChildView, SameView
  <1>8. ASSUME NEW q \in Procs \ {p, k} PROVE SameView(q)
    BY <1>1, <1>2, <1>4, <1>5, <1>8, Frame DEF Touches, Controls
  <1> QED BY <1>6, <1>7, <1>8, Stutter

(* A call completes, and with it the snapshot and the start of the child. *)
LEMMA Completes ==
    ASSUME RInv, RInv', NEW c \in CPUs, StepOf(c), InCall(c), pc[c] \notin {"memop", "nullmap"}, Return(c),
           CallTrap(c) = 0, UNCHANGED <<cur, sv, mem>>,
           LET p == cur[c]
               k == OpAt(c).child
           IN /\ rmem'[p] = rmem[p] /\ rmem'[k] = (IF Snaps(c, k) THEN mem[k] ELSE rmem[k])
              /\ state'[k] = (IF Starts(c, k) THEN "READY" ELSE "STOP")
    PROVE  UNCHANGED <<AbsLive, AbsLeaving, AbsRegs, AbsMem, AbsSnap>>
  <1>1. PICK p, op : p = cur[c] /\ op = OpAt(c)
    OBVIOUS
  <1>2. PICK k : k = op.child
    OBVIOUS
  <1>3. CallView(c) /\ k \in Procs /\ Controls(c, k) /\ k # p
    BY <1>1, <1>2, CallViews DEF CallView
  <1>4. pc'[c] = "user" /\ tf'[c] = Complete(tf[c]) /\ cur'[c] = p
    BY <1>1 DEF Return, Goto, RInv, IInv, TypeOK
  <1>5. \A q : ~Controls(c, q)'
    BY <1>4 DEF Controls
  <1>6. CallerMem(c) = mem[p] /\ ChildMem(c, k) = mem[k]
    BY <1>1 DEF CallerMem, ChildMem
  <1>7. SameView(p)
    <2>1. /\ p \in AbsLive' /\ p \notin AbsLeaving'
          /\ AbsRegs'[p] = Complete(tf[c])
          /\ AbsMem'[p] = mem[p] /\ AbsSnap'[p] = rmem[p]
      BY <1>1, <1>4, InUserModeAfter
    <2>2. AbsRegs[p] = Complete(tf[c])
      BY <1>1, <1>3, CallOperators DEF CallView
    <2> QED BY <1>1, <1>3, <1>6, <2>1, <2>2 DEF CallView, SameView
  <1>8. SameView(k)
    <2>1. IdleView(k)'
      BY <1>3, <1>4, <1>5, LetGo DEF Touches
    <2>2. ChildView(c, k)
      BY <1>1, <1>2, <1>3 DEF CallView
    <2> QED BY <1>1, <1>2, <1>6, <2>1, <2>2 DEF IdleView, ChildView, SameView
  <1>9. ASSUME NEW q \in Procs \ {p, k} PROVE SameView(q)
    BY <1>1, <1>2, <1>4, <1>5, <1>9, Frame DEF Touches, Controls
  <1> QED BY <1>7, <1>8, <1>9, Stutter

(* The phases of PUT and GET after the register phase. *)
LEMMA PhaseAbs ==
    ASSUME RInv, RInv', NEW c \in CPUs, StepOf(c),
           PutMem(c) \/ GetMem(c) \/ PutSnap(c) \/ GetDone(c) \/ ReadyLock(c) \/ ProcReady(c)
    PROVE  UNCHANGED <<AbsLive, AbsLeaving, AbsRegs, AbsMem, AbsSnap>>
  <1>1. PICK p, op : p = cur[c] /\ op = OpAt(c)
    OBVIOUS
  <1>2. PICK k : k = op.child
    OBVIOUS
  <1>3. /\ InCall(c) /\ pc \in [CPUs -> Labels] /\ UNCHANGED cur
        /\ mem \in [Procs -> [Pages -> Words]] /\ rmem \in [Procs -> [Pages -> Words]]
        /\ state \in [Procs -> {"STOP", "READY", "RUN", "WAIT"}]
    BY DEF PutMem, GetMem, PutSnap, GetDone, ReadyLock, ProcReady, InCall, RInv, IInv, TypeOK
  <1>4. /\ p \in Procs /\ k \in Procs /\ k # p /\ state[k] = "STOP" /\ op \in Ops
        /\ op.regs \in {"none", "copy"} /\ op.call \in {"PUT", "GET"}
        /\ op.mem \in {"none", "zero", "copy", "merge", "bad"} /\ op.perm \in {"none", "bad"}
    BY <1>1, <1>2, <1>3, CallViews DEF CallView, Ops
  <1>5. CallTrap(c) = IF op.call = "PUT" THEN Ref!PutTrap(op) ELSE Ref!GetTrap(op)
    BY <1>1 DEF CallTrap
  <1>6. Putting(c, k) <=> op.call = "PUT"
    BY <1>1, <1>2, <1>3 DEF Putting
  <1>a. CASE PutMem(c)
    <2>1. pc[c] = "memop" /\ op.call = "PUT" /\ UNCHANGED <<state, sv, rmem>>
      BY <1>1, <1>a DEF PutMem, procvars
    <2>2. CASE op.mem \in {"none", "zero", "copy"}
      <3>1. pc'[c] = "perm" /\ UNCHANGED tf /\ InCall(c)' /\ OpAt(c)' = op
        BY <1>1, <1>3, <1>a, <2>2 DEF PutMem, Goto, InCall, OpAt
      <3>2. mem'[p] = mem[p] /\ mem'[k] = Ref!PutMemory(op, mem[p], mem[k])
        <4>1. CASE op.mem = "none"
          BY <1>1, <1>4, <1>a, <4>1, CallOperators DEF PutMem
        <4>2. CASE op.mem \in {"zero", "copy"}
          <5>1. mem' = [mem EXCEPT ![k] = CopyPages(IF op.mem = "zero" THEN ZeroMem ELSE mem[p],
                                                    mem[k], op.pages)]
            BY <1>1, <1>2, <1>a, <4>2 DEF PutMem
          <5>2. Ref!PutMemory(op, mem[p], mem[k]) =
                   CopyPages(IF op.mem = "zero" THEN ZeroMem ELSE mem[p], mem[k], op.pages)
            BY <1>4, <4>2, CallOperators
          <5> QED BY <1>3, <1>4, <5>1, <5>2
        <4> QED BY <2>2, <4>1, <4>2
      <3>3. Putting(c, k)' /\ CallTrap(c)' = CallTrap(c)
        BY <1>1, <1>2, <2>1, <3>1 DEF Putting, CallTrap
      <3>4. CallerMem(c)' = CallerMem(c) /\ ChildMem(c, k)' = ChildMem(c, k)
        BY <1>1, <1>3, <1>6, <2>1, <3>1, <3>2 DEF CallerMem, ChildMem
      <3>5. Snaps(c, k)' <=> Snaps(c, k)
        BY <1>1, <1>6, <2>1, <3>1, <3>3 DEF Snaps
      <3> QED BY <1>1, <1>2, <1>3, <2>1, <3>1, <3>4, <3>5, Proceeds
    <2>3. CASE op.mem \in {"merge", "bad"}
      <3>1. Systrap(c, T_GPFLT) /\ UNCHANGED mem
        BY <1>1, <1>a, <2>3 DEF PutMem
      <3>2. CallTrap(c) = T_GPFLT
        BY <1>4, <1>5, <2>1, <2>3, CallOperators
      <3>3. CallerMem(c) = mem[p] /\ ChildMem(c, k) = mem[k]
        BY <1>1, <2>1, <2>3, CallOperators DEF CallerMem, ChildMem
      <3> QED BY <1>1, <1>2, <1>3, <2>1, <3>1, <3>2, <3>3, Aborts
    <2> QED BY <1>4, <2>2, <2>3
  <1>b. CASE GetMem(c)
    <2>1. pc[c] = "memop" /\ op.call = "GET" /\ UNCHANGED <<state, sv, rmem>>
      BY <1>1, <1>b DEF GetMem, procvars
    <2>2. CallerMem(c) = Ref!GetMemory(op, mem[p], mem[k], rmem[k]) /\ ChildMem(c, k) = mem[k]
          /\ ~Snaps(c, k)
      BY <1>1, <1>2, <1>6, <2>1 DEF CallerMem, ChildMem, Snaps
    <2>3. CASE op.mem # "bad" /\ ~CopiesNull(op)
      <3>1. pc'[c] = "perm" /\ UNCHANGED tf /\ InCall(c)' /\ OpAt(c)' = op
        BY <1>1, <1>3, <1>4, <1>b, <2>3 DEF GetMem, Goto, InCall, OpAt
      <3>2. mem'[p] = Ref!GetMemory(op, mem[p], mem[k], rmem[k]) /\ mem'[k] = mem[k]
        <4>1. CASE op.mem = "none"
          BY <1>1, <1>4, <1>b, <4>1, CallOperators DEF GetMem, CopiesNull
        <4>2. CASE op.mem \in {"zero", "copy", "merge"}
          <5>1. PICK src, ref : src = mem[k] /\ ref = rmem[k]
            OBVIOUS
          <5>2. mem' = [mem EXCEPT ![p] =
                          CASE op.mem = "zero"  -> CopyPages(ZeroMem, @, op.pages)
                            [] op.mem = "copy"  -> CopyPages(src, @, op.pages)
                            [] op.mem = "merge" -> MergePages(ref, src, @, op.pages)]
            BY <1>1, <1>2, <1>b, <2>3, <4>2, <5>1 DEF GetMem
          <5>3. mem'[k] = mem[k]
            BY <1>3, <1>4, <5>2
          <5>4. mem'[p] = CASE op.mem = "zero"  -> CopyPages(ZeroMem, mem[p], op.pages)
                            [] op.mem = "copy"  -> CopyPages(src, mem[p], op.pages)
                            [] op.mem = "merge" -> MergePages(ref, src, mem[p], op.pages)
            BY <1>3, <1>4, <5>2
          <5>5. mem'[p] = Ref!GetMemory(op, mem[p], mem[k], rmem[k])
            BY <1>4, <4>2, <5>1, <5>4, CallOperators
          <5> QED BY <5>3, <5>5
        <4> QED BY <1>4, <2>3, <4>1, <4>2
      <3>3. ~Putting(c, k)'
        BY <2>1, <3>1 DEF Putting
      <3>4. CallerMem(c)' = CallerMem(c) /\ ChildMem(c, k)' = ChildMem(c, k) /\ ~Snaps(c, k)'
        BY <1>1, <1>3, <2>1, <2>2, <3>1, <3>2, <3>3 DEF CallerMem, ChildMem, Snaps
      <3> QED BY <1>1, <1>2, <1>3, <2>1, <2>2, <3>1, <3>4, Proceeds
    <2>4. CASE op.mem = "bad"
      <3>1. Systrap(c, T_GPFLT) /\ UNCHANGED mem
        BY <1>1, <1>b, <2>4 DEF GetMem, CopiesNull
      <3>2. CallTrap(c) = T_GPFLT
        BY <1>4, <1>5, <2>1, <2>4, CallOperators
      <3>3. CallerMem(c) = mem[p]
        BY <2>2, <2>4, CallOperators
      <3> QED BY <1>1, <1>2, <1>3, <2>1, <2>2, <3>1, <3>2, <3>3, Aborts
    <2>5. CASE CopiesNull(op)
      <3>1. pc'[c] = "nullmap" /\ UNCHANGED <<tf, mem>> /\ InCall(c)' /\ OpAt(c)' = op
        BY <1>1, <1>3, <1>b, <2>5 DEF GetMem, CopiesNull, Goto, InCall, OpAt
      <3>2. ~Putting(c, k)'
        BY <2>1, <3>1 DEF Putting
      <3>3. CallerMem(c)' = CallerMem(c) /\ ChildMem(c, k)' = ChildMem(c, k) /\ ~Snaps(c, k)'
        BY <1>1, <1>3, <2>1, <2>2, <3>1, <3>2 DEF CallerMem, ChildMem, Snaps
      <3> QED BY <1>1, <1>2, <1>3, <2>1, <2>2, <3>1, <3>3, Proceeds
    <2> QED BY <2>3, <2>4, <2>5
  <1>c. CASE PutSnap(c)
    <2>1. /\ pc[c] = "perm" /\ op.call = "PUT" /\ UNCHANGED <<state, sv, mem>>
          /\ op.mem \in {"none", "zero", "copy"}
      BY <1>1, <1>4, <1>c DEF PutSnap, procvars, RInv, CallFacts
    <2>2. CallerMem(c) = mem[p] /\ ChildMem(c, k) = mem[k]
      BY <1>1, <2>1 DEF CallerMem, ChildMem
    <2>3. CASE op.perm = "bad"
      <3>1. Systrap(c, T_GPFLT) /\ UNCHANGED rmem
        BY <1>1, <1>c, <2>3 DEF PutSnap
      <3>2. CallTrap(c) = T_GPFLT
        BY <1>4, <1>5, <2>1, <2>3, CallOperators
      <3> QED BY <1>1, <1>2, <1>3, <2>1, <2>2, <3>1, <3>2, Aborts
    <2>4. CASE op.perm = "none"
      <3>1. CallTrap(c) = 0
        BY <1>4, <1>5, <2>1, <2>4, CallOperators
      <3>2. /\ Snaps(c, k) <=> op.snap
            /\ Starts(c, k) <=> op.start
        BY <1>1, <1>6, <2>1, <3>1 DEF Snaps, Starts
      <3>3. rmem' = IF op.snap THEN [rmem EXCEPT ![k] = mem[k]] ELSE rmem
        BY <1>1, <1>2, <1>c, <2>4, Zenon DEF PutSnap
      <3>4. rmem'[p] = rmem[p] /\ rmem'[k] = IF Snaps(c, k) THEN mem[k] ELSE rmem[k]
        <4>1. CASE op.snap
          BY <1>3, <1>4, <3>2, <3>3, <4>1
        <4>2. CASE ~op.snap
          BY <3>2, <3>3, <4>2
        <4> QED BY <4>1, <4>2
      <3>5. CASE op.start
        <4>1. pc'[c] = "start" /\ UNCHANGED tf /\ InCall(c)' /\ OpAt(c)' = op
          BY <1>1, <1>3, <1>c, <2>4, <3>5 DEF PutSnap, Goto, InCall, OpAt
        <4>2. ~Snaps(c, k)'
          BY <4>1 DEF Snaps
        <4>3. CallerMem(c)' = mem[p] /\ ChildMem(c, k)' = mem[k]
          BY <1>1, <1>3, <2>1, <4>1 DEF CallerMem, ChildMem
        <4> QED BY <1>1, <1>2, <1>3, <2>1, <2>2, <3>4, <4>1, <4>2, <4>3, Proceeds
      <3>6. CASE ~op.start
        <4>1. Return(c)
          BY <1>1, <1>c, <2>4, <3>6 DEF PutSnap
        <4>2. state'[k] = IF Starts(c, k) THEN "READY" ELSE "STOP"
          BY <1>4, <2>1, <3>2, <3>6
        <4> QED BY <1>1, <1>2, <1>3, <2>1, <3>1, <3>4, <4>1, <4>2, Completes
      <3> QED BY <3>5, <3>6
    <2> QED BY <1>4, <2>3, <2>4
  <1>d. CASE GetDone(c)
    <2>1. /\ pc[c] = "perm" /\ op.call = "GET" /\ UNCHANGED <<state, sv, mem, rmem>>
          /\ op.mem # "bad"
      BY <1>1, <1>d DEF GetDone, procvars, datavars, RInv, CallFacts
    <2>2. CallerMem(c) = mem[p] /\ ChildMem(c, k) = mem[k] /\ ~Snaps(c, k) /\ ~Starts(c, k)
      BY <1>1, <1>6, <2>1 DEF CallerMem, ChildMem, Snaps, Starts
    <2>3. CASE op.perm = "bad" \/ op.snap
      <3>1. Systrap(c, T_GPFLT)
        BY <1>1, <1>d, <2>3 DEF GetDone
      <3>2. CallTrap(c) = T_GPFLT
        BY <1>4, <1>5, <2>1, <2>3, CallOperators
      <3> QED BY <1>1, <1>2, <1>3, <2>1, <2>2, <3>1, <3>2, Aborts
    <2>4. CASE ~(op.perm = "bad" \/ op.snap)
      <3>1. Return(c)
        BY <1>1, <1>d, <2>4 DEF GetDone
      <3>2. CallTrap(c) = 0
        BY <1>4, <1>5, <2>1, <2>4, CallOperators
      <3> QED BY <1>1, <1>2, <1>3, <1>4, <2>1, <2>2, <3>1, <3>2, Completes
    <2> QED BY <2>3, <2>4
  <1>e. CASE ReadyLock(c)
    <2>1. pc[c] = "start" /\ pc'[c] = "enqueue" /\ UNCHANGED <<state, sv, mem, rmem, tf>>
      BY <1>3, <1>e DEF ReadyLock, Goto, procvars, datavars
    <2>2. InCall(c)' /\ OpAt(c)' = op
      BY <1>1, <2>1 DEF InCall, OpAt
    <2>3. /\ CallerMem(c)' = mem[p] /\ CallerMem(c) = mem[p] /\ ChildMem(c, k)' = mem[k]
          /\ ChildMem(c, k) = mem[k] /\ ~Snaps(c, k) /\ ~Snaps(c, k)'
      BY <1>1, <1>3, <2>1 DEF CallerMem, ChildMem, Snaps
    <2> QED BY <1>1, <1>2, <1>3, <2>1, <2>2, <2>3, Proceeds
  <1>f. CASE ProcReady(c)
    <2>1. /\ pc[c] = "enqueue" /\ UNCHANGED <<sv, mem, rmem>> /\ Return(c)
          /\ op.call = "PUT" /\ op.mem \in {"none", "zero", "copy"} /\ op.perm = "none" /\ op.start
      BY <1>1, <1>f DEF ProcReady, datavars, RInv, CallFacts
    <2>2. CallTrap(c) = 0
      BY <1>4, <1>5, <2>1, CallOperators
    <2>3. ~Snaps(c, k) /\ Starts(c, k)
      BY <1>1, <1>6, <2>1, <2>2 DEF Snaps, Starts
    <2>4. state'[k] = "READY"
      BY <1>1, <1>2, <1>3, <1>4, <1>f DEF ProcReady
    <2> QED BY <1>1, <1>2, <1>3, <2>1, <2>2, <2>3, <2>4, Completes
  <1> QED BY <1>a, <1>b, <1>c, <1>d, <1>e, <1>f

-----------------------------------------------------------------------------
(* The steps that no program can notice. *)

(* A CPU that works on no process before the step and on none after it. *)
LEMMA SchedAbs ==
    ASSUME RInv, RInv', NEW c \in CPUs, StepOf(c),
           SchedLock(c) \/ SchedIdle(c) \/ SchedSpin(c) \/ SchedPick(c) \/ SchedLockProc(c)
    PROVE  UNCHANGED <<AbsLive, AbsLeaving, AbsRegs, AbsMem, AbsSnap>>
  <1>1. /\ pc[c] \in {"sched", "pick", "idle", "lockproc"}
        /\ pc'[c] \in {"sched", "pick", "idle", "lockproc", "run"}
    BY DEF SchedLock, SchedIdle, SchedSpin, SchedPick, SchedLockProc, Goto, RInv, IInv, TypeOK
  <1>2. \A q \in Procs : ~Touches(c, q) /\ ~Touches(c, q)'
    BY <1>1 DEF Touches, Executing, Controls
  <1> QED BY <1>2, Frame, Stutter

(* A step in which CPU c goes on working for the same process. *)
LEMMA OnlyCaller ==
    ASSUME RInv, RInv', NEW c \in CPUs, StepOf(c), UNCHANGED cur,
           \A q \in Procs : ~Controls(c, q) /\ ~Controls(c, q)'
    PROVE  \A q \in Procs \ {cur[c]} : SameView(q)
  <1>1. \A q \in Procs \ {cur[c]} : ~Touches(c, q) /\ ~Touches(c, q)'
    BY DEF Touches
  <1> QED BY <1>1, Frame

(* Entering PUT or GET, and taking the caller's lock. *)
LEMMA LockAbs ==
    ASSUME RInv, RInv', NEW c \in CPUs, StepOf(c), PutGetLock(c)
    PROVE  UNCHANGED <<AbsLive, AbsLeaving, AbsRegs, AbsMem, AbsSnap>>
  <1>1. pc[c] = "user" /\ pc'[c] = "sync" /\ UNCHANGED <<cur, tf, mem, rmem>>
    BY DEF PutGetLock, Goto, RInv, IInv, TypeOK, datavars
  <1>2. \A q \in Procs \ {cur[c]} : SameView(q)
    BY <1>1, OnlyCaller DEF Controls
  <1>3. PICK p : p = cur[c]
    OBVIOUS
  <1>4. SameView(p)
    BY <1>1, <1>3, InUserMode, InUserModeAfter DEF SameView
  <1> QED BY <1>2, <1>3, <1>4, Stutter

(* A stopped child whose parent is about to control it is idle. *)
LEMMA IdleAtSync ==
    ASSUME RInv, NEW c \in CPUs, pc[c] = "sync", state[OpAt(c).child] = "STOP"
    PROVE  /\ OpAt(c).child \in Procs /\ OpAt(c).child # cur[c] /\ cur[c] \in Procs
           /\ IdleView(OpAt(c).child)
  <1>1. PICK k : k = OpAt(c).child
    OBVIOUS
  <1>2. k \in Procs /\ Parent[k] = cur[c] /\ Executing(c) /\ state[k] = "STOP"
    BY <1>1 DEF RInv, IInv, Control, ControlFacts, Executing
  <1>3. IInv
    BY DEF RInv
  <1>4. k # cur[c] /\ cur[c] \in Procs
    BY <1>2, <1>3, Exclusive
  <1>5. ASSUME NEW d \in CPUs PROVE ~Touches(d, k)
    <2>1. ~(Executing(d) /\ cur[d] = k)
      BY <1>2, <1>3, Exclusive
    <2>2. Controls(d, k) => d = c
      BY <1>2, <1>3, Exclusive
    <2>3. ~Controls(c, k)
      BY DEF Controls
    <2> QED BY <2>1, <2>2, <2>3 DEF Touches
  <1> QED BY <1>1, <1>2, <1>4, <1>5, ViewsHold DEF Views

(* Finding the child stopped, and letting go of the caller's lock. *)
LEMMA SyncAbs ==
    ASSUME RInv, RInv', NEW c \in CPUs, StepOf(c), PutGetSync(c)
    PROVE  UNCHANGED <<AbsLive, AbsLeaving, AbsRegs, AbsMem, AbsSnap>>
  <1>1. PICK p, k : p = cur[c] /\ k = OpAt(c).child
    OBVIOUS
  <1>2. /\ pc[c] = "sync" /\ pc'[c] = "regs" /\ UNCHANGED <<cur, tf, state, sv, mem, rmem>>
        /\ state[k] = "STOP"
    BY <1>1 DEF PutGetSync, Stopped, Goto, RInv, IInv, TypeOK, datavars
  <1>3. cur'[c] = p /\ OpAt(c)'.child = k
    BY <1>1, <1>2 DEF OpAt
  <1>4. SameView(p)
    BY <1>1, <1>2, <1>3, InUserMode, InUserModeAfter DEF SameView
  <1>5. k \in Procs /\ k # p /\ IdleView(k) /\ p \in Procs
    BY <1>1, <1>2, IdleAtSync
  <1>6. SameView(k)
    <2>1. Controls(c, k)' /\ ~Starts(c, k)' /\ ~Snaps(c, k)' /\ ChildMem(c, k)' = mem'[k]
      BY <1>2, <1>3 DEF Controls, Starts, Snaps, ChildMem, Putting, InCall
    <2>2. ChildView(c, k)'
      BY <1>5, <2>1, ViewsHoldAfter DEF Views
    <2> QED BY <1>2, <1>5, <2>1, <2>2 DEF IdleView, ChildView, SameView
  <1>7. \A q \in Procs \ {p, k} : ~Touches(c, q) /\ ~Touches(c, q)'
    BY <1>1, <1>2, <1>3 DEF Touches, Controls
  <1> QED BY <1>4, <1>6, <1>7, Frame, Stutter

(* A call that is aborted and made again leaves no trace in the registers. *)
LEMMA AbortedCall ==
    ASSUME NEW r \in Regs, r.trap = 0
    PROVE  Resume(Saved(r, 0, T_SYSCALL)) = r
  <1>1. PICK s : s = Saved(r, 0, T_SYSCALL)
    OBVIOUS
  <1>2. r = [prog |-> r.prog, ip |-> r.ip, trap |-> r.trap]
    BY DEF Regs
  <1>3. s = [prog |-> r.prog, ip |-> r.ip, trap |-> T_SYSCALL]
    BY <1>1, <1>2 DEF Saved
  <1>4. [s EXCEPT !.trap = 0] = [prog |-> r.prog, ip |-> r.ip, trap |-> 0]
    BY <1>3
  <1> QED BY <1>1, <1>2, <1>4 DEF Resume

(* Nobody works on a process that neither runs nor is stopped. *)
LEMMA Dormant ==
    ASSUME RInv, NEW q \in Procs, state[q] \in {"READY", "WAIT"}
    PROVE  IdleView(q)
  <1>1. ASSUME NEW d \in CPUs PROVE ~Touches(d, q)
    BY ViewsHold DEF Apart, Touches
  <1> QED BY <1>1, ViewsHold DEF Views

(* The same after a step. *)
LEMMA DormantAfter ==
    ASSUME RInv', NEW q \in Procs, state'[q] \in {"READY", "WAIT"}
    PROVE  IdleView(q)'
  <1>1. ASSUME NEW d \in CPUs PROVE ~Touches(d, q)'
    BY ViewsHoldAfter DEF Apart, Touches
  <1> QED BY <1>1, ViewsHoldAfter DEF Views

(* Going to sleep until the child stops. *)
LEMMA WaitAbs ==
    ASSUME RInv, RInv', NEW c \in CPUs, StepOf(c), ProcWait(c)
    PROVE  UNCHANGED <<AbsLive, AbsLeaving, AbsRegs, AbsMem, AbsSnap>>
  <1>1. PICK p : p = cur[c]
    OBVIOUS
  <1>2. pc[c] = "sync" /\ pc'[c] = "sched" /\ UNCHANGED <<cur, mem, rmem>>
    BY DEF ProcWait, Goto, RInv, IInv, TypeOK
  <1>3. /\ p \in Procs /\ tf[c] \in Regs /\ tf[c].trap = 0 /\ p \in AbsLive /\ p \notin AbsLeaving
        /\ AbsRegs[p] = tf[c] /\ AbsMem[p] = mem[p] /\ AbsSnap[p] = rmem[p]
    BY <1>1, <1>2, InUserMode
  <1>4. state'[p] = "WAIT" /\ sv'[p] = Saved(tf[c], 0, T_SYSCALL)
    BY <1>1, <1>3 DEF ProcWait, WaitOn, ProcSave, RInv, IInv, TypeOK
  <1>5. IdleView(p)'
    BY <1>3, <1>4, DormantAfter
  <1>6. SameView(p)
    BY <1>2, <1>3, <1>4, <1>5, AbortedCall DEF IdleView, SameView
  <1>7. \A q \in Procs \ {p} : SameView(q)
    BY <1>1, <1>2, OnlyCaller DEF Controls
  <1> QED BY <1>6, <1>7, Stutter

(* Running a process that was ready or has been woken. *)
LEMMA RunAbs ==
    ASSUME RInv, RInv', NEW c \in CPUs, StepOf(c), ProcRun(c)
    PROVE  UNCHANGED <<AbsLive, AbsLeaving, AbsRegs, AbsMem, AbsSnap>>
  <1>1. PICK p : p = nxt[c]
    OBVIOUS
  <1>2. p \in Procs /\ state[p] \in {"READY", "WAIT"}
    BY <1>1 DEF ProcRun, RInv, IInv, Control, ControlFacts
  <1>3. /\ pc[c] = "run" /\ pc'[c] = "user" /\ cur'[c] = p /\ tf'[c] = Resume(sv[p])
        /\ UNCHANGED <<sv, mem, rmem>>
    BY <1>1 DEF ProcRun, Goto, RInv, IInv, TypeOK, datavars
  <1>4. IdleView(p)
    BY <1>2, Dormant
  <1>5. SameView(p)
    BY <1>2, <1>3, <1>4, InUserModeAfter DEF IdleView, SameView
  <1>6. \A q \in Procs \ {p} : ~Touches(c, q) /\ ~Touches(c, q)'
    BY <1>3 DEF Touches, Executing, Controls
  <1> QED BY <1>5, <1>6, Frame, Stutter

(* On the way out: taking the parent's lock, or the panic of the root. *)
LEMMA RetAbs ==
    ASSUME RInv, RInv', NEW c \in CPUs, StepOf(c), pc[c] = "ret", ~RootRets(c),
           pc'[c] \in {"stop", "panic"}, UNCHANGED <<cur, tf, ret, mem, rmem>>
    PROVE  UNCHANGED <<AbsLive, AbsLeaving, AbsRegs, AbsMem, AbsSnap>>
  <1>1. PICK p : p = cur[c]
    OBVIOUS
  <1>2. Executing(c) /\ p \in Procs /\ CallerView(c)
    BY <1>1, ViewsHold DEF Executing, Views
  <1>3. /\ Leaves(c) /\ LiveRegs(c) = Saved(tf[c], ret[c].entry, ret[c].trap)
        /\ CallerMem(c) = mem[p]
    BY <1>1 DEF Leaves, LiveRegs, CallerMem, InCall
  <1>4. ~RootRets(c)'
    BY DEF RootRets
  <1>5. SameView(p)
    BY <1>1, <1>2, <1>3, <1>4, OnTheWayOut DEF CallerView, SameView
  <1>6. \A q \in Procs \ {p} : SameView(q)
    BY <1>1, OnlyCaller DEF Controls
  <1> QED BY <1>5, <1>6, Stutter

(* The root process's RET is seen when its I/O is done, not when it enters
   the kernel. *)
LEMMA RootEnters ==
    ASSUME RInv, RInv', NEW c \in CPUs, StepOf(c), DoRet(c), cur[c] = Root
    PROVE  UNCHANGED <<AbsLive, AbsLeaving, AbsRegs, AbsMem, AbsSnap>>
  <1>1. /\ pc[c] = "user" /\ pc'[c] = "ret" /\ tf'[c] = tf[c] /\ UNCHANGED <<cur, mem, rmem>>
        /\ ret'[c].entry = 1 /\ ret'[c].trap = T_SYSCALL
    BY DEF DoRet, ProcRet, Goto, RInv, IInv, TypeOK, datavars
  <1>2. RootRets(c)' /\ cur'[c] = Root
    BY <1>1 DEF RootRets
  <1>3. SameView(Root)
    BY <1>1, <1>2, InUserMode, InUserModeAfter DEF SameView
  <1>4. \A q \in Procs \ {Root} : SameView(q)
    BY <1>1, OnlyCaller DEF Controls
  <1> QED BY <1>3, <1>4, Stutter

-----------------------------------------------------------------------------
(* The steps of a process in user mode, and the end of the root's RET. *)
LEMMA UserAbs ==
    ASSUME RInv, RInv', NEW c \in CPUs, StepOf(c),
           UserStore(c) \/ UserTrap(c) \/ DoCputs(c) \/ DoNcpu(c) \/ DoRet(c) \/ RootRet(c)
    PROVE  AbsStep
  <1>1. /\ pc[c] \in {"user", "ret"} /\ pc'[c] \in {"user", "ret", "panic"}
        /\ UNCHANGED <<cur, rmem>>
    BY DEF UserStore, UserTrap, DoCputs, DoNcpu, DoRet, RootRet, Return, Systrap, Sysrecover,
       ProcRet, Goto, RInv, IInv, TypeOK, datavars
  <1>2. \A q \in Procs \ {cur[c]} : SameView(q)
    BY <1>1, OnlyCaller DEF Controls
  <1>3. Return(c) => pc'[c] = "user" /\ tf'[c] = Complete(tf[c])
    BY DEF Return, Goto, RInv, IInv, TypeOK
  <1>a. CASE UserStore(c) \/ DoNcpu(c)
    <2>1. pc[c] = "user" /\ Return(c)
      BY <1>a DEF UserStore, DoNcpu
    <2>2. \/ /\ OpAt(c).call = "STORE"
             /\ mem' = [mem EXCEPT ![cur[c]][OpAt(c).page] = <<OpAt(c).val>>]
          \/ OpAt(c).call = "NCPU" /\ mem' = mem
      BY <1>a DEF UserStore, DoNcpu, datavars
    <2> QED BY <1>1, <1>2, <1>3, <2>1, <2>2, LocalAbs DEF AbsStep
  <1>b. CASE UserTrap(c)
    <2>1. pc[c] = "user" /\ mem' = mem
      BY <1>b DEF UserTrap, datavars
    <2>2. CASE OpAt(c).call = "BRKPT" /\ ProcRet(c, tf[c], 1, T_BRKPT)
      BY <1>1, <1>2, <2>1, <2>2, LeaveAbs DEF AbsStep
    <2>3. CASE OpAt(c).call = "ILLOP" /\ ProcRet(c, tf[c], -1, T_ILLOP)
      BY <1>1, <1>2, <2>1, <2>3, LeaveAbs DEF AbsStep
    <2>4. CASE OpAt(c).call = "UNDEF" /\ ProcRet(c, Complete(tf[c]), -1, T_SYSCALL)
      BY <1>1, <1>2, <2>1, <2>4, LeaveAbs DEF AbsStep
    <2> QED BY <1>b, <2>2, <2>3, <2>4 DEF UserTrap
  <1>c. CASE DoCputs(c)
    <2>1. pc[c] = "user" /\ mem' = mem /\ OpAt(c).call = "CPUTS"
      BY <1>c DEF DoCputs, datavars
    <2>2. CASE OpAt(c).regs \in {"none", "copy"} /\ Return(c)
      BY <1>1, <1>2, <1>3, <2>1, <2>2, LocalAbs DEF AbsStep
    <2>3. CASE OpAt(c).regs = "bad" /\ Systrap(c, T_PGFLT)
      BY <1>1, <1>2, <2>1, <2>3, LeaveAbs DEF AbsStep, Systrap
    <2>4. CASE OpAt(c).regs = "fault" /\ Sysrecover(c)
      BY <1>1, <1>2, <2>1, <2>4, LeaveAbs DEF AbsStep, Sysrecover
    <2> QED BY <1>c, <2>2, <2>3, <2>4 DEF DoCputs
  <1>d. CASE DoRet(c)
    <2>1. pc[c] = "user" /\ mem' = mem /\ OpAt(c).call = "RET" /\ ProcRet(c, tf[c], 1, T_SYSCALL)
      BY <1>d DEF DoRet, datavars
    <2>2. CASE cur[c] = Root
      BY <1>d, <2>2, RootEnters DEF AbsStep
    <2>3. CASE cur[c] # Root
      BY <1>1, <1>2, <2>1, <2>3, LeaveAbs DEF AbsStep
    <2> QED BY <2>2, <2>3
  <1>e. CASE RootRet(c)
    <2>1. pc[c] = "ret" /\ cur[c] = Root /\ mem' = mem
      BY <1>e DEF RootRet, datavars
    <2>2. CASE RootRets(c)
      <3>1. Return(c) /\ OpAt(c).call = "RET"
        BY <1>e, <2>2 DEF RootRet, RootRets, RInv, CallFacts
      <3> QED BY <1>1, <1>2, <1>3, <2>1, <2>2, <3>1, LocalAbs DEF AbsStep
    <2>3. CASE ~RootRets(c)
      <3>1. pc'[c] = "panic" /\ UNCHANGED <<tf, ret>>
        BY <1>e, <2>1, <2>3 DEF RootRet, RootRets, Goto, RInv, IInv, TypeOK
      <3> QED BY <1>1, <2>1, <2>3, <3>1, RetAbs DEF AbsStep
    <2> QED BY <2>2, <2>3
  <1> QED BY <1>a, <1>b, <1>c, <1>d, <1>e

(* Every step of the kernel is a step of the hierarchy of spaces, or changes
   nothing in it. *)
LEMMA StepAbs == RInv /\ RInv' /\ [Next]_vars => [Abs!SNext]_(Abs!svars)
  <1> SUFFICES ASSUME RInv, RInv', [Next]_vars PROVE AbsStep
    BY DEF AbsStep, Abs!svars
  <1>1. CASE UNCHANGED vars
    <2>1. UNCHANGED <<AbsLive, AbsLeaving, AbsRegs, AbsMem>>
      BY <1>1 DEF vars, AbsLive, AbsLeaving, AbsRegs, AbsMem, Starts, Putting, InCall, CallTrap,
         Leaves, RootRets, LiveRegs, CallerMem, ChildMem, OpAt
    <2> QED BY <1>1, <2>1 DEF AbsStep, vars, AbsSnap, Snaps, Putting, InCall, CallTrap, OpAt
  <1>2. ASSUME NEW c \in CPUs, CpuStep(c) PROVE AbsStep
    <2>1. StepOf(c)
      BY <1>2, StepOfCpu
    <2>2. CASE \/ UserStore(c) \/ UserTrap(c) \/ DoCputs(c) \/ DoNcpu(c) \/ DoRet(c)
               \/ RootRet(c)
      BY <2>1, <2>2, UserAbs
    <2>3. CASE PutGetLock(c)
      BY <2>1, <2>3, LockAbs DEF AbsStep
    <2>4. CASE PutGetSync(c)
      BY <2>1, <2>4, SyncAbs DEF AbsStep
    <2>5. CASE ProcWait(c)
      BY <2>1, <2>5, WaitAbs DEF AbsStep
    <2>6. CASE PutRegs(c)
      BY <2>1, <2>6, PutAbs DEF AbsStep
    <2>7. CASE GetRegs(c)
      BY <2>1, <2>7, GetAbs DEF AbsStep
    <2>8. CASE \/ PutMem(c) \/ GetMem(c) \/ PutSnap(c) \/ GetDone(c) \/ ReadyLock(c)
               \/ ProcReady(c)
      BY <2>1, <2>8, PhaseAbs DEF AbsStep
    <2>9. CASE RetLock(c)
      <3>1. /\ pc[c] = "ret" /\ pc'[c] = "stop" /\ ~RootRets(c)
            /\ UNCHANGED <<cur, tf, ret, mem, rmem>>
        BY <2>9 DEF RetLock, RootRets, Goto, RInv, IInv, TypeOK, datavars
      <3> QED BY <2>1, <3>1, RetAbs DEF AbsStep
    <2>10. CASE RetStop(c)
      BY <2>1, <2>10, StopAbs DEF AbsStep
    <2>11. CASE SchedLock(c) \/ SchedIdle(c) \/ SchedSpin(c) \/ SchedPick(c) \/ SchedLockProc(c)
      BY <2>1, <2>11, SchedAbs DEF AbsStep
    <2>12. CASE ProcRun(c)
      BY <2>1, <2>12, RunAbs DEF AbsStep
    <2> QED BY <1>2, <2>2, <2>3, <2>4, <2>5, <2>6, <2>7, <2>8, <2>9, <2>10, <2>11, <2>12
            DEF CpuStep, UserStep, KernelStep, SchedStep
  <1> QED BY <1>1, <1>2 DEF Next

(* At boot only the root process is live. *)
LEMMA InitAbs == Init => Abs!SInit
  <1> SUFFICES ASSUME Init PROVE Abs!SInit
    OBVIOUS
  <1>1. RInv
    BY RInvInit
  <1>2. \A c \in CPUs : \A q \in Procs : ~Touches(c, q)
    BY DEF Init, Touches, Executing, Controls
  <1>3. \A q \in Procs : IdleView(q)
    BY <1>1, <1>2, ViewsHold DEF Views
  <1>4. Shapes
    BY <1>1, ViewsHold
  <1>5. PICK prog \in RootProgs : sv = BootRegs(prog)
    BY DEF Init
  <1>6. \A q \in Procs : (state[q] # "STOP" <=> q = Root) /\ mem[q] = ZeroMem /\ rmem[q] = ZeroMem
    BY DEF Init
  <1>7. AbsLive = {Root} /\ AbsLeaving = {}
    BY <1>3, <1>4, <1>6, ConstAssumption DEF Shapes, IdleView
  <1>8. AbsMem = [p \in Procs |-> ZeroMem] /\ AbsSnap = [p \in Procs |-> ZeroMem]
    BY <1>3, <1>4, <1>6 DEF Shapes, IdleView
  <1>9. AbsRegs = sv
    <2>1. sv[Root] = EntryRegs(prog) /\ Resume(EntryRegs(prog)) = EntryRegs(prog)
      BY <1>5, ConstAssumption DEF BootRegs, EntryRegs, Resume
    <2>2. \A q \in Procs : AbsRegs[q] = sv[q]
      BY <1>3, <1>6, <2>1 DEF IdleView
    <2>3. sv = [q \in Procs |-> sv[q]]
      BY <1>5 DEF BootRegs
    <2> QED BY <1>4, <2>2, <2>3 DEF Shapes
  <1>10. Abs!ZeroMem = ZeroMem /\ Abs!BootRegs(prog) = BootRegs(prog)
    BY DEF Abs!ZeroMem, ZeroMem, Abs!Zero, Zero, Abs!BootRegs, BootRegs, Abs!EntryRegs, EntryRegs
  <1> QED BY <1>5, <1>7, <1>8, <1>9, <1>10 DEF Abs!SInit

(* The concurrent kernel implements the atomic system calls: every behaviour
   of the kernel, for any number of CPUs, any process tree and any programs,
   is one in which PUT, GET and RET are atomic. *)
THEOREM Implements == Spec => ImplementsSpaces
  <1>1. Spec => []RInv
    BY RInvInit, RInvStep, PTL DEF Spec
  <1>2. []RInv /\ [][Next]_vars => [][Abs!SNext]_(Abs!svars)
    BY StepAbs, PTL
  <1> QED BY <1>1, <1>2, InitAbs, PTL DEF Spec, ImplementsSpaces, Abs!SSpec
=============================================================================
