--------------------------- MODULE ProcRefinement ---------------------------
(***************************************************************************)
(* The concurrent kernel implements the atomic system calls of Spaces.     *)
(*                                                                         *)
(* A PUT or GET takes effect when it leaves its register phase; what its   *)
(* later phases will still do to the child, or to the caller's memory, is  *)
(* already visible in the abstract state.                                  *)
(***************************************************************************)
EXTENDS Proc

(* The instance below is only used for its operators on constants. *)
Ref == INSTANCE Spaces WITH
    live <- {}, leaving <- {}, regs <- sv, smem <- mem, snap <- rmem

InCall(c) == pc[c] \in {"memop", "perm", "start", "enqueue", "nullmap"}

CallTrap(c) ==
    IF OpAt(c).call = "PUT" THEN Ref!PutTrap(OpAt(c)) ELSE Ref!GetTrap(OpAt(c))

(* CPU c is part-way through a PUT to k, and the PUT will start the child or
   take a snapshot of it. *)
Putting(c, k) == InCall(c) /\ OpAt(c).call = "PUT" /\ OpAt(c).child = k
Starts(c, k) == Putting(c, k) /\ CallTrap(c) = 0 /\ OpAt(c).start
Snaps(c, k) ==
    Putting(c, k) /\ pc[c] \in {"memop", "perm"} /\ CallTrap(c) = 0 /\ OpAt(c).snap

AbsLive == {p \in Procs : state[p] # "STOP" \/ \E c \in CPUs : Starts(c, p)}

(* A RET of the root process does not leave: it goes on once its I/O is done. *)
RootRets(c) ==
    pc[c] = "ret" /\ cur[c] = Root /\ ret[c].trap = T_SYSCALL /\ ret[c].entry = 1

Leaves(c) ==
    \/ pc[c] \in {"ret", "stop", "panic"} /\ ~RootRets(c)
    \/ InCall(c) /\ CallTrap(c) # 0

AbsLeaving == {p \in Procs : state[p] = "RUN" /\ Leaves(runcpu[p])}

(* Registers of the process that CPU c executes. *)
LiveRegs(c) ==
    CASE pc[c] \in {"user", "sync", "regs"} \/ RootRets(c) -> tf[c]
      [] InCall(c) -> Ref!AfterCall(tf[c], OpAt(c), CallTrap(c))
      [] OTHER -> Saved(tf[c], ret[c].entry, ret[c].trap)

AbsRegs ==
    [p \in Procs |->
        IF state[p] = "RUN" THEN LiveRegs(runcpu[p])
        ELSE IF p \in AbsLive THEN Resume(sv[p])
        ELSE sv[p]]

(* Memory of the process that CPU c executes, and of the child it puts to.  A
   GET that copies from a child never created stops the CPU half-way. *)
CallerMem(c) ==
    LET op == OpAt(c) IN
    IF pc[c] \in {"memop", "nullmap"} /\ op.call = "GET"
    THEN Ref!GetMemory(op, mem[cur[c]], mem[op.child], rmem[op.child])
    ELSE mem[cur[c]]

ChildMem(c, k) ==
    IF pc[c] = "memop" /\ Putting(c, k) THEN Ref!PutMemory(OpAt(c), mem[cur[c]], mem[k])
    ELSE mem[k]

AbsMem ==
    [p \in Procs |->
        IF state[p] = "RUN" THEN CallerMem(runcpu[p])
        ELSE IF \E c \in CPUs : Putting(c, p)
        THEN ChildMem(CHOOSE c \in CPUs : Putting(c, p), p)
        ELSE mem[p]]

AbsSnap ==
    [p \in Procs |-> IF \E c \in CPUs : Snaps(c, p) THEN AbsMem[p] ELSE rmem[p]]

Abs == INSTANCE Spaces WITH
    live <- AbsLive, leaving <- AbsLeaving, regs <- AbsRegs,
    smem <- AbsMem, snap <- AbsSnap

(* Every behaviour of the kernel, whatever the number of CPUs and however
   their steps interleave, is a behaviour of the hierarchy of spaces in which
   PUT, GET and RET are atomic: the locking, the abort-and-replay of a call
   that must wait, and the unlocked phases of a call cannot be observed. *)
ImplementsSpaces == Abs!SSpec
=============================================================================
