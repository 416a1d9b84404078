------------------------------- MODULE Spaces -------------------------------
(***************************************************************************)
(* What the system calls of Determinator promise to user code: a hierarchy *)
(* of processes ("spaces") in which PUT and GET are atomic and wait for    *)
(* the child to stop, and RET and traps stop a process.  There are no      *)
(* CPUs, locks, queues or sleeping parents here, and no difference between *)
(* a child that was never created and one that is still blank: a GET from  *)
(* either reads zeroes.  The kernel does not complete a GET that copies    *)
(* from a child it never created; the caller's CPU stops in the call (see  *)
(* CopiesNull in Proc).  It implements this specification all the same,    *)
(* since nothing here says that a process takes its next step.             *)
(*                                                                         *)
(* Proc implements this specification; see ProcRefinement.                 *)
(***************************************************************************)
EXTENDS Machine

VARIABLES
    live,       \* the processes that run on their own account
    leaving,    \* live processes that have executed their RET or trap
    regs,       \* registers
    smem,       \* user memory
    snap        \* reference snapshot

svars == <<live, leaving, regs, smem, snap>>

SInit ==
    /\ live = {Root}
    /\ leaving = {}
    /\ \E prog \in RootProgs : regs = BootRegs(prog)
    /\ smem = [p \in Procs |-> ZeroMem]
    /\ snap = [p \in Procs |-> ZeroMem]

(* The trap that a PUT or GET ends with, 0 if it completes. *)
PutTrap(op) ==
    IF op.regs \in {"bad", "fault"} THEN T_PGFLT
    ELSE IF op.mem \in {"merge", "bad"} \/ op.perm = "bad" THEN T_GPFLT
    ELSE 0

GetTrap(op) ==
    IF op.regs \in {"bad", "fault"} THEN T_PGFLT
    ELSE IF op.mem = "bad" \/ op.perm = "bad" \/ op.snap THEN T_GPFLT
    ELSE 0

(* Registers r of the caller after a call op that ends with this trap. *)
AfterCall(r, op, trapno) ==
    IF trapno = 0 THEN Complete(r)
    ELSE Saved(IF op.regs = "fault" THEN NullFrame ELSE r, 0, trapno)

(* Memory of the child after a PUT, and of the caller after a GET. *)
PutMemory(op, pm, cm) ==
    IF op.regs \in {"bad", "fault"} THEN cm
    ELSE CASE op.mem = "zero" -> CopyPages(ZeroMem, cm, op.pages)
           [] op.mem = "copy" -> CopyPages(pm, cm, op.pages)
           [] OTHER -> cm

GetRegsMemory(op, pm, r) ==
    IF op.regs = "copy" THEN [pm EXCEPT ![op.page] = RegsWord(r)] ELSE pm

(* The same with the memories that a copy which faults may leave behind. *)
GotRegs(op, pm, r) ==
    IF op.regs = "fault" THEN {pm, [pm EXCEPT ![op.page] = RegsWord(r)]}
    ELSE {GetRegsMemory(op, pm, r)}

GetMemory(op, pm, cm, ref) ==
    IF op.regs \in {"bad", "fault"} THEN pm
    ELSE CASE op.mem = "zero" -> CopyPages(ZeroMem, pm, op.pages)
           [] op.mem = "copy" -> CopyPages(cm, pm, op.pages)
           [] op.mem = "merge" -> MergePages(ref, cm, pm, op.pages)
           [] OTHER -> pm

(* A step that only concerns p itself and lets it go on. *)
Local(p) ==
    LET op == OpOf(regs[p]) IN
    /\ \/ op.call \in {"STORE", "NCPU"}
       \/ op.call = "CPUTS" /\ op.regs \in {"none", "copy"}
       \/ op.call = "RET" /\ p = Root
    /\ regs' = [regs EXCEPT ![p] = Complete(@)]
    /\ smem' = IF op.call = "STORE"
               THEN [smem EXCEPT ![p][op.page] = <<op.val>>] ELSE smem
    /\ UNCHANGED <<live, leaving, snap>>

(* p executes the instruction that will stop it. *)
Leave(p) ==
    LET op == OpOf(regs[p]) IN
    /\ \/ /\ op.call = "RET" /\ p # Root
          /\ regs' = [regs EXCEPT ![p] = Saved(@, 1, T_SYSCALL)]
       \/ /\ op.call = "BRKPT"
          /\ regs' = [regs EXCEPT ![p] = Saved(@, 1, T_BRKPT)]
       \/ /\ op.call = "ILLOP"
          /\ regs' = [regs EXCEPT ![p] = Saved(@, -1, T_ILLOP)]
       \/ /\ op.call = "UNDEF"
          /\ regs' = [regs EXCEPT ![p] = Saved(Complete(@), -1, T_SYSCALL)]
       \/ /\ op.call = "CPUTS" /\ op.regs \in {"bad", "fault"}
          /\ regs' = [regs EXCEPT ![p] = AfterCall(@, op, T_PGFLT)]
    /\ leaving' = leaving \cup {p}
    /\ UNCHANGED <<live, smem, snap>>

(* Control is back with the parent. *)
Stop(p) ==
    /\ p \in leaving /\ p # Root
    /\ live' = live \ {p}
    /\ leaving' = leaving \ {p}
    /\ UNCHANGED <<regs, smem, snap>>

Put(p) ==
    LET op == OpOf(regs[p])
        k == op.child
        trapno == PutTrap(op)
        starts == trapno = 0 /\ op.start
        cm == PutMemory(op, smem[p], smem[k])
        loads == IF op.regs = "copy" THEN {EntryRegs(op.prog)}
                 ELSE IF op.regs = "fault" THEN {regs[k], EntryRegs(op.prog)}
                 ELSE {regs[k]}
    IN
    /\ op.call = "PUT" /\ k \in Procs /\ Parent[k] = p
    /\ k \notin live
    /\ \E r \in loads :
          regs' = [regs EXCEPT ![k] = IF starts THEN Resume(r) ELSE r,
                               ![p] = AfterCall(@, op, trapno)]
    /\ smem' = [smem EXCEPT ![k] = cm]
    /\ snap' = IF trapno = 0 /\ op.snap THEN [snap EXCEPT ![k] = cm] ELSE snap
    /\ live' = IF starts THEN live \cup {k} ELSE live
    /\ leaving' = IF trapno = 0 THEN leaving ELSE leaving \cup {p}

Get_NoWait(p) ==
    LET op == OpOf(regs[p])
        k == op.child
    IN
    /\ op.call = "GET" /\ k \in Procs /\ Parent[k] = p
    /\ regs' = [regs EXCEPT ![p] = AfterCall(@, op, GetTrap(op))]
    /\ \E m \in GotRegs(op, smem[p], regs[k]) :
          smem' = [smem EXCEPT ![p] = GetMemory(op, m, smem[k], snap[k])]
    /\ leaving' = IF GetTrap(op) = 0 THEN leaving ELSE leaving \cup {p}
    /\ UNCHANGED <<live, snap>>
Get(p) ==
    LET op == OpOf(regs[p])
        k == op.child
        trapno == GetTrap(op)
    IN
    /\ op.call = "GET" /\ k \in Procs /\ Parent[k] = p
    /\ k \notin live
    /\ regs' = [regs EXCEPT ![p] = AfterCall(@, op, trapno)]
    /\ \E m \in GotRegs(op, smem[p], regs[k]) :
          smem' = [smem EXCEPT ![p] = GetMemory(op, m, smem[k], snap[k])]
    /\ leaving' = IF trapno = 0 THEN leaving ELSE leaving \cup {p}
    /\ UNCHANGED <<live, snap>>

(* A step of p, and the processes whose registers, memory, snapshot or life
   it may change. *)
Step(p) ==
    \/ p \notin leaving /\ (Local(p) \/ Leave(p) \/ Put(p) \/ Get(p))
    \/ Stop(p)

Touched(p) ==
    {p} \cup {k \in Procs : /\ p \notin leaving /\ OpOf(regs[p]).call = "PUT"
                            /\ k = OpOf(regs[p]).child}

SNext == \E p \in live : Step(p)

SSpec == SInit /\ [][SNext]_svars
=============================================================================
