------------------------------- MODULE Machine -------------------------------
(***************************************************************************)
(* What the processes of a Determinator system compute with: registers,    *)
(* memory, and the instructions of user code that reach the kernel.  The   *)
(* concurrent kernel (Proc) and the sequential meaning of its system calls *)
(* (Spaces) are both written over this module.                             *)
(***************************************************************************)
EXTENDS Integers, Sequences

CONSTANTS
    Procs,      \* process names: one for every (parent, child slot) in use
    Root,       \* the root process, the only one without a parent
    Parent,     \* the parent of every process, NoProc for Root
    NoProc,     \* the NULL process pointer
    Progs,      \* program texts that registers may point into
    MaxIp,      \* index of the last instruction of a program, which repeats
    Code,       \* Code[prog][ip]: the instruction at a register state
    RootProgs,  \* the programs the root process may be booted with
    Pages,      \* user pages
    ZeroFrame,  \* all-zero registers, as a new process has them
    NullFrame   \* the trapframe-sized contents of physical address 0

T_BRKPT == 3
T_GPFLT == 13
T_PGFLT == 14
T_ILLOP == 6
T_SYSCALL == 48
Traps == {0, T_BRKPT, T_ILLOP, T_GPFLT, T_PGFLT, T_SYSCALL}

Regs == [prog: Progs, ip: 0 .. MaxIp, trap: Traps]
Words == Seq(Nat)       \* what a page holds
Zero == <<>>            \* a zero-filled page

(***************************************************************************)
(* An instruction of user code that matters to the kernel.                 *)
(*   call    STORE is a user-mode write, BRKPT and ILLOP are traps, the    *)
(*           rest are system calls, UNDEF with an unknown number           *)
(*   child   the child slot named in EDX, as the process in that slot      *)
(*   regs    whether SYS_REGS is given, and how its usercopy goes: "bad"   *)
(*           is refused by checkva, "fault" page-faults during the copy    *)
(*   prog    the program the register image of a PUT points to             *)
(*   page    the page a STORE, or a GET of registers, writes               *)
(*   val     the word a STORE writes, the limit an NCPU sets               *)
(*   mem     the SYS_MEMOP field; "bad" is a region that is not valid      *)
(*   pages   the pages of the region                                       *)
(*   perm    "bad" stands for SYS_PERM with a region that is not valid     *)
(***************************************************************************)
Ops == [call: {"PUT", "GET", "RET", "CPUTS", "NCPU", "STORE", "BRKPT",
               "ILLOP", "UNDEF"},
        child: Procs \cup {NoProc},
        regs: {"none", "copy", "bad", "fault"},
        prog: Progs,
        page: Pages,
        val: Nat,
        mem: {"none", "zero", "copy", "merge", "bad"},
        pages: SUBSET Pages,
        perm: {"none", "bad"},
        snap: BOOLEAN,
        start: BOOLEAN]

ASSUME ConstAssumption ==
    /\ Root \in Procs
    /\ NoProc \notin Procs
    /\ MaxIp \in Nat
    /\ ZeroFrame \in Regs
    /\ NullFrame \in Regs
    /\ RootProgs \subseteq Progs

ASSUME TreeAssumption ==
    /\ Parent \in [Procs -> Procs \cup {NoProc}]
    /\ Parent[Root] = NoProc
    /\ \A p \in Procs \ {Root} : Parent[p] \in Procs /\ Parent[p] # p

ASSUME CodeAssumption == Code \in [Progs -> [0 .. MaxIp -> Ops]]

-----------------------------------------------------------------------------
OpOf(r) == Code[r.prog][r.ip]

(* Registers that a loader or a parent sets up to run a program. *)
EntryRegs(prog) == [prog |-> prog, ip |-> 0, trap |-> 0]

(* The root process is loaded at boot, the others are zero when created. *)
BootRegs(prog) ==
    [p \in Procs |-> IF p = Root THEN EntryRegs(prog) ELSE ZeroFrame]

(* Registers once the current instruction is complete.  The last
   instruction of a program branches to itself. *)
Complete(r) == [r EXCEPT !.ip = IF @ = MaxIp THEN @ ELSE @ + 1]

ZeroMem == [pg \in Pages |-> Zero]

(* proc_save: a completed instruction is left behind, while an aborted
   system call (entry 0) or a trap (entry -1) leaves the registers on the
   instruction, so that it runs again when the process is resumed. *)
Saved_Skip(r, entry, trapno) ==
    [(IF entry >= 0 THEN Complete(r) ELSE r) EXCEPT !.trap = trapno]
Saved(r, entry, trapno) ==
    [(IF entry = 1 THEN Complete(r) ELSE r) EXCEPT !.trap = trapno]

(* trap_return drops the trap number from the frame it restores. *)
Resume(r) == [r EXCEPT !.trap = 0]

(* The register image that a GET with SYS_REGS copies to the parent. *)
RegsWord(r) == <<r.ip, r.trap>>

CopyPages(src, dst, pages) ==
    [pg \in Pages |-> IF pg \in pages THEN src[pg] ELSE dst[pg]]

(* pmap_mergepage, for pages that hold one word: what only the source
   changed since the snapshot is taken over, a page that both sides
   changed is removed from the destination. *)
MergePages(ref, src, dst, pages) ==
    [pg \in Pages |->
        IF pg \notin pages \/ src[pg] = ref[pg] THEN dst[pg]
        ELSE IF dst[pg] = ref[pg] THEN src[pg]
        ELSE Zero]
=============================================================================
