----------------------------- MODULE MCPrograms -----------------------------
(***************************************************************************)
(* The processes and programs of the small instances: a root process r     *)
(* with two children a and b, and a child g of a.                          *)
(***************************************************************************)
EXTENDS Machine, TLC

MCProcs == {"r", "a", "b", "g"}
MCParent == [p \in MCProcs |-> CASE p \in {"a", "b"} -> "r"
                                 [] p = "g" -> "a"
                                 [] OTHER -> NoProc]
MCPages == {"x", "y"}
MCMaxIp == 6

Blank == [call |-> "RET", child |-> NoProc, regs |-> "none", prog |-> "crash",
          page |-> "x", val |-> 0, mem |-> "none", pages |-> {},
          perm |-> "none", snap |-> FALSE, start |-> FALSE]

RET == Blank
Plain(call) == [Blank EXCEPT !.call = call]
STORE(pg, v) == [Blank EXCEPT !.call = "STORE", !.page = pg, !.val = v]
NCPUS(n) == [Blank EXCEPT !.call = "NCPU", !.val = n]

(* fork: load a program, copy and snapshot the memory, start *)
FORK(k, prog) == [Blank EXCEPT !.call = "PUT", !.child = k, !.regs = "copy",
                  !.prog = prog, !.mem = "copy", !.pages = MCPages,
                  !.snap = TRUE, !.start = TRUE]
START(k) == [Blank EXCEPT !.call = "PUT", !.child = k, !.start = TRUE]
JOIN(k) == [Blank EXCEPT !.call = "GET", !.child = k, !.mem = "merge",
            !.pages = MCPages]
STATUS(k, pg) == [Blank EXCEPT !.call = "GET", !.child = k, !.regs = "copy",
                  !.page = pg]
FETCH(k, pages) == [Blank EXCEPT !.call = "GET", !.child = k, !.mem = "copy",
                    !.pages = pages]

(* A program is a sequence of instructions followed by RETs. *)
Program(s) == [i \in 0 .. MCMaxIp |-> IF i < Len(s) THEN s[i + 1] ELSE RET]

Texts == [
    crash |-> <<Plain("ILLOP"), Plain("ILLOP"), Plain("ILLOP"), Plain("ILLOP"),
                Plain("ILLOP"), Plain("ILLOP"), Plain("ILLOP")>>,
    \* children
    setx |-> <<STORE("x", 1)>>,
    sety |-> <<STORE("y", 2)>>,
    twice |-> <<STORE("x", 3), RET, STORE("x", 4)>>,
    breaks |-> <<Plain("BRKPT"), Plain("UNDEF"), STORE("y", 5)>>,
    nests |-> <<FORK("g", "setx"), STORE("y", 6), JOIN("g")>>,
    badva |-> <<[FORK("g", "setx") EXCEPT !.regs = "bad"]>>,
    badget |-> <<[JOIN("g") EXCEPT !.mem = "bad"]>>,
    badmem |-> <<[FORK("g", "setx") EXCEPT !.mem = "merge"]>>,
    badperm |-> <<[FORK("g", "setx") EXCEPT !.perm = "bad"]>>,
    badsnap |-> <<[JOIN("g") EXCEPT !.snap = TRUE]>>,
    badputs |-> <<[Plain("CPUTS") EXCEPT !.regs = "bad"]>>,
    badregs |-> <<[STATUS("g", "x") EXCEPT !.regs = "bad"]>>,
    fltput |-> <<[FORK("g", "setx") EXCEPT !.regs = "fault"]>>,
    fltget |-> <<[STATUS("g", "x") EXCEPT !.regs = "fault"]>>,
    fltputs |-> <<[Plain("CPUTS") EXCEPT !.regs = "fault"]>>,
    \* root programs
    fork2 |-> <<FORK("a", "setx"), FORK("b", "sety"), JOIN("a"), JOIN("b")>>,
    conflict |-> <<FORK("a", "setx"), FORK("b", "twice"), JOIN("b"), JOIN("a")>>,
    resume |-> <<FORK("a", "twice"), FETCH("a", {"x"}), START("a"),
                 FORK("b", "breaks"), STATUS("b", "y"), FETCH("a", {"x"})>>,
    trapped |-> <<FORK("b", "breaks"), START("b"), START("b"), JOIN("b"),
                  STATUS("b", "x")>>,
    nested |-> <<FORK("a", "nests"), FORK("b", "sety"), JOIN("b"), JOIN("a"),
                 STATUS("a", "y")>>,
    limit |-> <<NCPUS(0), NCPUS(1), FORK("a", "nests"), FORK("b", "setx"),
                JOIN("a"), NCPUS(2)>>,
    empty |-> <<STATUS("a", "x"), START("b"), Plain("CPUTS"), STATUS("b", "y"),
                [FORK("a", "setx") EXCEPT !.mem = "zero"],
                [JOIN("a") EXCEPT !.mem = "zero"]>>,
    nullget |-> <<FORK("b", "sety"), [FETCH("a", {"x"}) EXCEPT !.regs = "copy"]>>,
    roottrap |-> <<FORK("a", "sety"), Plain("ILLOP")>>,
    rootundef |-> <<FORK("a", "sety"), Plain("UNDEF")>>]

(* Root programs that start one child with a program that goes wrong, look
   at how it stopped, and start it again with another one. *)
Faulty == [sup_badva |-> "badva", sup_badget |-> "badget",
           sup_badmem |-> "badmem", sup_badperm |-> "badperm",
           sup_badsnap |-> "badsnap", sup_badputs |-> "badputs",
           sup_badregs |-> "badregs"]
UserFaults == [sup_fltput |-> "fltput", sup_fltget |-> "fltget",
               sup_fltputs |-> "fltputs"]
Supervise(f) == <<FORK("a", f), STATUS("a", "x"), FORK("a", "nests"), JOIN("a")>>

AllTexts == Texts @@ [q \in DOMAIN Faulty |-> Supervise(Faulty[q])]
                  @@ [q \in DOMAIN UserFaults |-> Supervise(UserFaults[q])]
MCProgs == DOMAIN AllTexts
MCCode == [q \in MCProgs |-> Program(AllTexts[q])]

(* Programs that run to their end and leave the root process in a loop of
   RETs, programs that meet a fault in usercopy, ones that stop the CPU, and
   ones that work on a child that was never created. *)
Regular == {"fork2", "conflict", "resume", "trapped", "nested", "limit",
              "empty"} \cup DOMAIN Faulty
FaultRoots == DOMAIN UserFaults
Panics == {"roottrap", "rootundef", "nullget"}
NullRoots == {"nullget", "empty"}
AllRoots == Regular \cup DOMAIN UserFaults \cup Panics
(* Programs in which no PUT or GET faults while it copies registers. *)
Settled == AllRoots \ {"sup_fltput", "sup_fltget"}

MCZeroFrame == [prog |-> "crash", ip |-> 0, trap |-> 0]
MCNullFrame == [prog |-> "crash", ip |-> 1, trap |-> 0]
=============================================================================
