------------------------------- MODULE Icount -------------------------------
(***************************************************************************)
(* Instruction counting: proc_save and proc_run (kern/proc.c), the traps   *)
(* T_DEBUG and T_PERFCTR (kern/trap.c) and the counter (dev/pmc.c).        *)
(*                                                                         *)
(* A process with PFF_ICNT executes imax instructions and is then stopped  *)
(* with T_ICNT.  As long as the rest is larger than pmc_safety, the        *)
(* processor's performance counter counts them and interrupts when it      *)
(* overflows; the interrupt comes up to MaxLate instructions late.  The    *)
(* last instructions are single-stepped.  A processor without a counter    *)
(* single-steps them all.                                                  *)
(*                                                                         *)
(* One action is one instruction of a process with the traps it causes, or *)
(* one interrupt.  Of an instruction the model keeps whether it is a       *)
(* system call and how that call ends.  The scheduler, which module Proc   *)
(* is about, is reduced to a choice of a ready process.  An operator X_Y   *)
(* is a wrong version of the operator X.                                   *)
(***************************************************************************)
EXTENDS Integers

CONSTANTS
    Cpus, Procs, NoProc,
    IntHalf,        \* an int32_t is one of -IntHalf .. IntHalf - 1 (2^31 in the code)
    CtrSize,        \* pmc_ctrmask + 1
    pmc_safety,
    MaxLate,        \* the latest that an overflow interrupts, in instructions
    Limits,         \* the limits that parents set
    MaxStarts,      \* bound: how often processes are started
    MaxCalls        \* bound: calls of a process that is single-stepped

ASSUME IcountAssumption ==
    /\ IntHalf \in Nat \ {0} /\ CtrSize \in Nat \ {0} /\ pmc_safety \in 0 .. IntHalf
    /\ MaxLate \in 0 .. pmc_safety /\ MaxStarts \in Nat /\ MaxCalls \in Nat
    /\ NoProc \notin Procs
    /\ Limits \subseteq 0 .. 2 * IntHalf - 1 /\ \A n \in Limits : n < CtrSize

VARIABLES
    avail,      \* whether there is a counter (pmc_set # NULL)
    proc,       \* state, flags and counts of each process
    cur,        \* the process each CPU runs, NoProc in the scheduler
    ctr,        \* each CPU's counter: value, enabled, overflow interrupt on its way
    nstart,
    done,       \* history: instructions executed since icnt was set
    missed,     \* history: calls among them that no trap and no counter saw
    panicked

vars == <<avail, proc, cur, ctr, nstart, done, missed, panicked>>

NewProc == [st |-> "STOP", trapno |-> "none", icnt |-> 0, imax |-> 0, pmcmax |-> 0,
            tf |-> FALSE, iff |-> TRUE]

\* late counts the instructions since the overflow.
NoCount == [val |-> 0, en |-> FALSE, ovf |-> FALSE, late |-> 0]

Init ==
    /\ avail \in BOOLEAN
    /\ proc = [p \in Procs |-> NewProc]
    /\ cur = [c \in Cpus |-> NoProc]
    /\ ctr = [c \in Cpus |-> NoCount]
    /\ nstart = 0
    /\ done = [p \in Procs |-> 0]
    /\ missed = [p \in Procs |-> 0]
    /\ panicked = FALSE

-----------------------------------------------------------------------------
(* The counter *)

\* A value assigned to an int32_t.
AsInt(n) == LET k == n % (2 * IntHalf) IN IF k < IntHalf THEN k ELSE k - 2 * IntHalf

\* pmc_amdset, pmc_amdget, which also disables the counter
PmcSet(k, maxcnt) == [k EXCEPT !.val = (-maxcnt) % CtrSize, !.en = TRUE]
PmcStop(k) == [k EXCEPT !.en = FALSE]

PmcGet(k, maxcnt) ==
    LET init == (-maxcnt) % CtrSize
        now == IF k.val < init THEN k.val + CtrSize ELSE k.val
    IN  now - init

\* The processor retires an instruction in user mode.
Retire(k) ==
    LET next == (k.val + 1) % CtrSize
    IN  [k EXCEPT !.val = IF k.en THEN next ELSE @,
                  !.ovf = @ \/ (k.en /\ next = 0),
                  !.late = IF k.ovf /\ @ < MaxLate THEN @ + 1 ELSE @]

-----------------------------------------------------------------------------
(* The kernel *)

\* A wrong proc_save: the INT instruction of an aborted call is counted.
ProcSave_CountAborted(r, k, entry) ==
    IF r.tf
    THEN [r EXCEPT !.icnt = IF entry > 0 THEN @ + 1 ELSE @, !.tf = FALSE, !.iff = TRUE]
    ELSE IF r.pmcmax > 0 THEN [r EXCEPT !.icnt = @ + PmcGet(k, r.pmcmax), !.pmcmax = 0]
    ELSE r

\* proc_save of process r with counter k; entry is 1 after a system call, 0 if the
\* call is aborted and -1 for a trap before an instruction.
ProcSave(r, k, entry) ==
    IF r.tf
    THEN [r EXCEPT !.icnt = IF entry > 0 THEN @ + 1 ELSE @, !.tf = FALSE, !.iff = TRUE]
    ELSE IF r.pmcmax > 0
    THEN [r EXCEPT !.icnt = @ + PmcGet(k, r.pmcmax) - (IF entry = 0 THEN 1 ELSE 0),
                   !.pmcmax = 0]
    ELSE r

\* The process p of CPU c leaves it, saved as r: proc_ret, proc_wait, net_migrate.
Leave(c, p, r, k, st, trapno) ==
    /\ proc' = [proc EXCEPT ![p] = [r EXCEPT !.st = st, !.trapno = trapno]]
    /\ cur' = [cur EXCEPT ![c] = NoProc]
    /\ ctr' = [ctr EXCEPT ![c] = IF proc[p].pmcmax > 0 /\ ~proc[p].tf THEN PmcStop(k) ELSE k]
    /\ panicked' = (r.icnt > r.imax)

\* PUT with SYS_REGS and SYS_START, or SYS_START alone, for a stopped child.
Put(p) ==
    /\ ~panicked /\ proc[p].st = "STOP" /\ nstart < MaxStarts
    /\ nstart' = nstart + 1
    /\ \/ /\ \E n \in Limits :
               proc' = [proc EXCEPT ![p].st = "READY", ![p].icnt = 0, ![p].imax = n]
          /\ done' = [done EXCEPT ![p] = 0]
          /\ missed' = [missed EXCEPT ![p] = 0]
       \/ /\ proc' = [proc EXCEPT ![p].st = "READY"]
          /\ UNCHANGED <<done, missed>>
    /\ UNCHANGED <<avail, cur, ctr, panicked>>

\* The child that a process waits for stops, or the process arrives at a node.
Wake(p) ==
    /\ ~panicked /\ proc[p].st = "WAIT"
    /\ proc' = [proc EXCEPT ![p].st = "READY"]
    /\ UNCHANGED <<avail, cur, ctr, nstart, done, missed, panicked>>

\* How many instructions proc_run leaves to the counter.
Pmax(r) == AsInt(r.imax - r.icnt - pmc_safety)

\* proc_run
ProcRun(c, p) ==
    LET r == proc[p]
        pmax == Pmax(r)
    IN  /\ ~panicked /\ cur[c] = NoProc /\ r.st = "READY"
        /\ \/ /\ r.icnt >= r.imax
              /\ Leave(c, p, ProcSave(r, ctr[c], -1), ctr[c], "STOP", "ICNT")
           \/ /\ r.icnt < r.imax
              /\ cur' = [cur EXCEPT ![c] = p]
              /\ \/ /\ avail /\ pmax > 0
                    /\ proc' = [proc EXCEPT ![p].st = "RUN", ![p].pmcmax = pmax]
                    /\ ctr' = [ctr EXCEPT ![c] = PmcSet(@, pmax)]
                 \/ /\ ~(avail /\ pmax > 0)
                    /\ proc' = [proc EXCEPT ![p].st = "RUN", ![p].tf = TRUE, ![p].iff = FALSE]
                    /\ UNCHANGED ctr
              /\ UNCHANGED panicked
        /\ UNCHANGED <<avail, nstart, done, missed>>

\* A pending overflow interrupts before the instruction that would make it too late.
Executes(c, p) ==
    /\ ~panicked /\ cur[c] = p /\ p \in Procs
    /\ ~(ctr[c].ovf /\ proc[p].iff /\ ctr[c].late >= MaxLate)

\* An instruction that traps at most to be repeated, and the T_DEBUG that follows it
\* when it is single-stepped.
Instruction(c, p) ==
    LET r == proc[p]
        k == Retire(ctr[c])
        r1 == [r EXCEPT !.icnt = @ + 1]
    IN  /\ Executes(c, p)
        /\ done' = [done EXCEPT ![p] = @ + 1]
        /\ \/ /\ ~r.tf
              /\ ctr' = [ctr EXCEPT ![c] = k]
              /\ UNCHANGED <<proc, cur, panicked>>
           \/ /\ r.tf /\ avail /\ r.imax - r.icnt > pmc_safety
              /\ panicked' = TRUE
              /\ UNCHANGED <<proc, cur, ctr>>
           \/ /\ r.tf /\ ~(avail /\ r.imax - r.icnt > pmc_safety)
              /\ \/ /\ r1.icnt < r.imax
                    /\ proc' = [proc EXCEPT ![p] = r1]
                    /\ ctr' = [ctr EXCEPT ![c] = k]
                    /\ UNCHANGED <<cur, panicked>>
                 \/ /\ r1.icnt >= r.imax
                    /\ Leave(c, p, ProcSave(r1, k, -1), k, "STOP", "ICNT")
        /\ UNCHANGED <<avail, nstart, missed>>

\* A system call that is done at once: trap_return.  INT clears the trap flag before
\* the instruction is over, so that single-stepping does not see it.
Call(c, p) ==
    /\ Executes(c, p) /\ (proc[p].tf => missed[p] < MaxCalls)
    /\ done' = [done EXCEPT ![p] = @ + 1]
    /\ missed' = IF proc[p].tf THEN [missed EXCEPT ![p] = @ + 1] ELSE missed
    /\ ctr' = [ctr EXCEPT ![c] = Retire(@)]
    /\ UNCHANGED <<avail, proc, cur, nstart, panicked>>

\* A system call that must wait, that goes to another node, or that is refused.
AbortedCall(c, p) ==
    LET k == Retire(ctr[c])
    IN  /\ Executes(c, p)
        /\ \E st \in {"WAIT", "STOP"} : Leave(c, p, ProcSave(proc[p], k, 0), k, st, "other")
        /\ UNCHANGED <<avail, nstart, done, missed>>

\* SYS_RET, T_BRKPT and T_OFLOW.
Ret(c, p) ==
    LET k == Retire(ctr[c])
    IN  /\ Executes(c, p)
        /\ done' = [done EXCEPT ![p] = @ + 1]
        /\ Leave(c, p, ProcSave(proc[p], k, 1), k, "STOP", "other")
        /\ UNCHANGED <<avail, nstart, missed>>

\* Another trap, reflected to the parent.
Trap(c, p) ==
    /\ Executes(c, p)
    /\ Leave(c, p, ProcSave(proc[p], ctr[c], -1), ctr[c], "STOP", "other")
    /\ UNCHANGED <<avail, nstart, done, missed>>

\* T_PERFCTR in the idle loop, or for a process whose instructions the counter does
\* not count.
SpuriousPerfCtr(c) ==
    /\ ~panicked /\ ctr[c].ovf
    /\ cur[c] \in Procs => proc[cur[c]].iff /\ proc[cur[c]].pmcmax = 0
    /\ ctr' = [ctr EXCEPT ![c].ovf = FALSE, ![c].late = 0]
    /\ UNCHANGED <<avail, proc, cur, nstart, done, missed, panicked>>

\* T_PERFCTR: the process goes on by single steps or stops; an overshoot beyond the
\* limit is a panic.
PerfCtr(c, p) ==
    LET r == proc[p]
        r1 == [r EXCEPT !.icnt = @ + PmcGet(ctr[c], r.pmcmax), !.pmcmax = 0]
    IN  /\ ~panicked /\ cur[c] = p /\ ctr[c].ovf
        /\ r.pmcmax > 0 /\ r.iff
        /\ ctr' = [ctr EXCEPT ![c] = [PmcStop(@) EXCEPT !.ovf = FALSE, !.late = 0]]
        /\ \/ /\ r1.icnt < r.imax
              /\ proc' = [proc EXCEPT ![p] = [r1 EXCEPT !.tf = TRUE]]
              /\ UNCHANGED <<cur, panicked>>
           \/ /\ r1.icnt >= r.imax
              /\ proc' = [proc EXCEPT ![p] = [r1 EXCEPT !.st = "STOP", !.trapno = "ICNT"]]
              /\ cur' = [cur EXCEPT ![c] = NoProc]
              /\ panicked' = (r1.icnt > r.imax)
        /\ UNCHANGED <<avail, nstart, done, missed>>

Next ==
    \/ \E p \in Procs : Put(p) \/ Wake(p)
    \/ \E c \in Cpus, p \in Procs :
         \/ ProcRun(c, p) \/ Instruction(c, p) \/ Call(c, p)
         \/ AbortedCall(c, p) \/ Ret(c, p) \/ Trap(c, p) \/ PerfCtr(c, p)
    \/ \E c \in Cpus : SpuriousPerfCtr(c)

Spec == Init /\ [][Next]_vars

-----------------------------------------------------------------------------
(* Properties *)

\* The count of a process that is not running is the number of instructions it has
\* executed, wherever the interrupts of the counter fell, however often it was
\* stopped and moved, and with every aborted call counted once, when it is carried
\* out; a process stopped with T_ICNT is exactly at its limit.  Excepted are the
\* calls that return at once while the process is single-stepped.
CountExact ==
    \A p \in Procs :
        LET r == proc[p]
        IN  /\ r.st # "RUN" => r.icnt = done[p] - missed[p]
            /\ r.st = "STOP" /\ r.trapno = "ICNT" => r.icnt = r.imax
            /\ done[p] - missed[p] <= r.imax

\* "max insns to execute before ret": no process executes more than imax.
StopsAtLimit == \A p \in Procs : done[p] <= proc[p].imax

\* No assertion about the counts fails: an interrupt that comes "after the process
\* that triggered it has already taken a trap for some other reason" is harmless.
AssertsHold == ~panicked
=============================================================================
