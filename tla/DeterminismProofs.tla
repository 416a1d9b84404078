------------------------- MODULE DeterminismProofs --------------------------
(***************************************************************************)
(* Two executions of one program agree wherever they can be compared, for  *)
(* every tree of processes, every program and any number of steps.         *)
(*                                                                         *)
(* The argument is that there is one history that both executions follow.  *)
(* It says what the state of a process is after each number of events in   *)
(* its life, and at which age of the child each PUT and GET finds it.      *)
(* An execution that takes a step either extends the history, if it is     *)
(* ahead, or finds its step already there.                                 *)
(***************************************************************************)
EXTENDS Determinism, TLAPS

(* No PUT or GET faults while it copies registers.  How much of the registers
   such a call has copied is left open by Spaces. *)
NoHalfCopy == \A r \in Regs : OpOf(r).call \in {"PUT", "GET"} => OpOf(r).regs # "fault"

-----------------------------------------------------------------------------
(* The state of one process, and what a step makes of it *)

State(mode, r, m, s) == [mode |-> mode, regs |-> r, mem |-> m, snap |-> s]

Mode(p, alive, out) ==
    IF p \in out THEN "leaving" ELSE IF p \in alive THEN "live" ELSE "stopped"

Loc1 == [p \in Procs |-> State(Mode(p, live1, leaving1), regs1[p], smem1[p], snap1[p])]
Loc2 == [p \in Procs |-> State(Mode(p, live2, leaving2), regs2[p], smem2[p], snap2[p])]

Calls(st, call) == st.mode = "live" /\ OpOf(st.regs).call = call
Puts(st) == Calls(st, "PUT")
Gets(st) == Calls(st, "GET")
Child(st) == OpOf(st.regs).child

(* What a GET makes of the caller, given the child. *)
AfterGet(st, ch) ==
    LET op == OpOf(st.regs) IN
    State(IF One!GetTrap(op) = 0 THEN "live" ELSE "leaving",
          One!AfterCall(st.regs, op, One!GetTrap(op)),
          One!GetMemory(op, One!GetRegsMemory(op, st.mem, ch.regs), ch.mem, ch.snap),
          st.snap)

(* What a PUT makes of the caller. *)
AfterPut(st) ==
    LET op == OpOf(st.regs) IN
    State(IF One!PutTrap(op) = 0 THEN "live" ELSE "leaving",
          One!AfterCall(st.regs, op, One!PutTrap(op)), st.mem, st.snap)

(* What a PUT makes of the child. *)
PutInto(st, ch) ==
    LET op == OpOf(st.regs)
        done == One!PutTrap(op) = 0
        r == IF op.regs = "copy" THEN EntryRegs(op.prog) ELSE ch.regs
        cm == One!PutMemory(op, st.mem, ch.mem)
    IN State(IF done /\ op.start THEN "live" ELSE "stopped",
             IF done /\ op.start THEN Resume(r) ELSE r,
             cm, IF done /\ op.snap THEN cm ELSE ch.snap)

(* The instructions that let a process go on, and what they make of it. *)
GoesOn(p, op) ==
    \/ op.call \in {"STORE", "NCPU"}
    \/ op.call = "CPUTS" /\ op.regs \in {"none", "copy"}
    \/ op.call = "RET" /\ p = Root

AfterLocal(st) ==
    LET op == OpOf(st.regs) IN
    State("live", Complete(st.regs),
          IF op.call = "STORE" THEN [st.mem EXCEPT ![op.page] = <<op.val>>] ELSE st.mem,
          st.snap)

(* The registers that an instruction which stops a process leaves. *)
LeaveRegs(r) ==
    LET op == OpOf(r) IN
    IF op.call = "RET" THEN Saved(r, 1, T_SYSCALL)
    ELSE IF op.call = "BRKPT" THEN Saved(r, 1, T_BRKPT)
    ELSE IF op.call = "ILLOP" THEN Saved(r, -1, T_ILLOP)
    ELSE IF op.call = "UNDEF" THEN Saved(Complete(r), -1, T_SYSCALL)
    ELSE One!AfterCall(r, op, T_PGFLT)

(* What any other step makes of the process that takes it. *)
AfterOwn(p, st) ==
    IF st.mode = "leaving" THEN State("stopped", st.regs, st.mem, st.snap)
    ELSE IF OpOf(st.regs).call = "PUT" THEN AfterPut(st)
    ELSE IF GoesOn(p, OpOf(st.regs)) THEN AfterLocal(st)
    ELSE State("leaving", LeaveRegs(st.regs), st.mem, st.snap)

(* A step of p takes the states L of all processes to N. *)
Moves(L, p, N) ==
    /\ p \in Procs /\ L[p].mode # "stopped"
    /\ Puts(L[p]) \/ Gets(L[p]) =>
          /\ Child(L[p]) \in Procs /\ Parent[Child(L[p])] = p
          /\ L[Child(L[p])].mode = "stopped"
    /\ Gets(L[p]) => N[p] = AfterGet(L[p], L[Child(L[p])])
    /\ ~Gets(L[p]) => N[p] = AfterOwn(p, L[p])
    /\ \A q \in Procs \ {p} :
          N[q] = IF Puts(L[p]) /\ q = Child(L[p]) THEN PutInto(L[p], L[q]) ELSE L[q]

(* The ages b after that step, from the ages a before. *)
Ages(L, p, a, b) ==
    /\ b[p] = a[p] + 1
    /\ Puts(L[p]) => b[Child(L[p])] = a[Child(L[p])] + 1
    /\ \A q \in Procs \ {p} : ~(Puts(L[p]) /\ q = Child(L[p])) => b[q] = a[q]

-----------------------------------------------------------------------------
(***************************************************************************)
(* The history: h[p][i] is the state of p after i events, and S[p][t] the  *)
(* age at which the call that p makes at age t finds its child.            *)
(***************************************************************************)

On(h, p, t, k) == (Puts(h[p][t]) \/ Gets(h[p][t])) /\ Child(h[p][t]) = k

(* An execution with states L and ages a is at its place in the history. *)
Placed(h, L, a) == \A p \in Procs : a[p] \in Nat /\ L[p] = h[p][a[p]]

(* Calls find children of the caller, stopped, in the order of the calls. *)
CallsFind(h, S, a) ==
    \A p \in Procs : \A t \in Nat : \A k : t < a[p] /\ On(h, p, t, k) =>
        /\ k \in Procs /\ Parent[k] = p
        /\ S[p][t] \in Nat /\ S[p][t] <= a[k]
        /\ Puts(h[p][t]) => S[p][t] < a[k]
        /\ h[k][S[p][t]].mode = "stopped"

CallsInOrder(h, S, a) ==
    \A p \in Procs : \A t, u \in Nat : \A k :
        t < u /\ u < a[p] /\ On(h, p, t, k) /\ On(h, p, u, k) =>
            S[p][t] <= S[p][u] /\ (Puts(h[p][t]) => S[p][t] < S[p][u])

(* A stopped process changes only by a PUT of its parent. *)
PutBy(h, S, a, k, i) ==
    \E t \in Nat :
        /\ t < a[Parent[k]] /\ Puts(h[Parent[k]][t]) /\ Child(h[Parent[k]][t]) = k
        /\ S[Parent[k]][t] = i
        /\ h[k][i + 1] = PutInto(h[Parent[k]][t], h[k][i])

StoppedWaits(h, S, a) ==
    \A k \in Procs : \A i \in Nat : i < a[k] /\ h[k][i].mode = "stopped" =>
        Parent[k] \in Procs /\ PutBy(h, S, a, k, i)

(* A process that is not stopped changes by its own steps. *)
NextState(h, S, p, t) ==
    IF Gets(h[p][t]) THEN AfterGet(h[p][t], h[Child(h[p][t])][S[p][t]])
    ELSE AfterOwn(p, h[p][t])

OthersStep(h, S, a) ==
    \A p \in Procs : \A t \in Nat : t < a[p] /\ h[p][t].mode # "stopped" =>
        h[p][t + 1] = NextState(h, S, p, t)

Follows(h, S, L, a) ==
    /\ Placed(h, L, a)
    /\ CallsFind(h, S, a)
    /\ CallsInOrder(h, S, a)
    /\ StoppedWaits(h, S, a)
    /\ OthersStep(h, S, a)

OneHistory == \E h, S : Follows(h, S, Loc1, age1) /\ Follows(h, S, Loc2, age2)
-----------------------------------------------------------------------------
(* What the past of an execution needs of the history is up to its ages. *)
LEMMA Agree ==
    ASSUME NEW h, NEW S, NEW g, NEW R, NEW L, NEW a, Follows(h, S, L, a),
           \A q \in Procs : \A i \in Nat : i <= a[q] => g[q][i] = h[q][i],
           \A q \in Procs : \A i \in Nat : i < a[q] => R[q][i] = S[q][i]
    PROVE  Follows(g, R, L, a)
  <1>1. \A q \in Procs : a[q] \in Nat
    BY DEF Follows, Placed
  <1>2. Placed(g, L, a)
    <2> SUFFICES ASSUME NEW p \in Procs PROVE a[p] \in Nat /\ L[p] = g[p][a[p]]
      BY DEF Placed
    <2>1. a[p] \in Nat /\ a[p] <= a[p] /\ L[p] = h[p][a[p]]
      BY <1>1 DEF Follows, Placed
    <2> QED BY <2>1
  <1>3. ASSUME NEW p \in Procs, NEW t \in Nat, t < a[p]
        PROVE  /\ g[p][t] = h[p][t] /\ g[p][t + 1] = h[p][t + 1] /\ R[p][t] = S[p][t]
               /\ \A k : On(g, p, t, k) <=> On(h, p, t, k)
    <2>1. t <= a[p] /\ t + 1 <= a[p] /\ t + 1 \in Nat
      BY <1>1, <1>3
    <2>2. g[p][t] = h[p][t] /\ g[p][t + 1] = h[p][t + 1] /\ R[p][t] = S[p][t]
      BY <1>3, <2>1
    <2> QED BY <2>2 DEF On
  <1>4. CallsFind(g, R, a)
    <2> SUFFICES ASSUME NEW p \in Procs, NEW t \in Nat, NEW k, t < a[p], On(g, p, t, k)
                 PROVE  /\ k \in Procs /\ Parent[k] = p
                        /\ R[p][t] \in Nat /\ R[p][t] <= a[k]
                        /\ Puts(g[p][t]) => R[p][t] < a[k]
                        /\ g[k][R[p][t]].mode = "stopped"
      BY DEF CallsFind
    <2>1. On(h, p, t, k) /\ R[p][t] = S[p][t] /\ g[p][t] = h[p][t]
      BY <1>3
    <2>2. /\ k \in Procs /\ Parent[k] = p
          /\ S[p][t] \in Nat /\ S[p][t] <= a[k]
          /\ Puts(h[p][t]) => S[p][t] < a[k]
          /\ h[k][S[p][t]].mode = "stopped"
      BY <2>1 DEF Follows, CallsFind
    <2>3. g[k][S[p][t]] = h[k][S[p][t]]
      BY <2>2
    <2> QED BY <2>1, <2>2, <2>3
  <1>5. CallsInOrder(g, R, a)
    <2> SUFFICES ASSUME NEW p \in Procs, NEW t \in Nat, NEW u \in Nat, NEW k,
                        t < u, u < a[p], On(g, p, t, k), On(g, p, u, k)
                 PROVE  R[p][t] <= R[p][u] /\ (Puts(g[p][t]) => R[p][t] < R[p][u])
      BY DEF CallsInOrder
    <2>1. t < a[p]
      BY <1>1
    <2>2. /\ On(h, p, t, k) /\ On(h, p, u, k) /\ g[p][t] = h[p][t]
          /\ R[p][t] = S[p][t] /\ R[p][u] = S[p][u]
      BY <1>3, <2>1
    <2> QED BY <2>2 DEF Follows, CallsInOrder
  <1>6. StoppedWaits(g, R, a)
    <2> SUFFICES ASSUME NEW k \in Procs, NEW i \in Nat, i < a[k], g[k][i].mode = "stopped"
                 PROVE  Parent[k] \in Procs /\ PutBy(g, R, a, k, i)
      BY DEF StoppedWaits
    <2>1. g[k][i] = h[k][i] /\ g[k][i + 1] = h[k][i + 1]
      BY <1>3
    <2>2. Parent[k] \in Procs /\ PutBy(h, S, a, k, i)
      BY <2>1 DEF Follows, StoppedWaits
    <2>3. PICK t \in Nat :
             /\ t < a[Parent[k]] /\ Puts(h[Parent[k]][t]) /\ Child(h[Parent[k]][t]) = k
             /\ S[Parent[k]][t] = i
             /\ h[k][i + 1] = PutInto(h[Parent[k]][t], h[k][i])
      BY <2>2 DEF PutBy
    <2>4. g[Parent[k]][t] = h[Parent[k]][t] /\ R[Parent[k]][t] = S[Parent[k]][t]
      BY <1>3, <2>2, <2>3
    <2> QED BY <2>1, <2>2, <2>3, <2>4 DEF PutBy
  <1>7. OthersStep(g, R, a)
    <2> SUFFICES ASSUME NEW p \in Procs, NEW t \in Nat, t < a[p], g[p][t].mode # "stopped"
                 PROVE  g[p][t + 1] = NextState(g, R, p, t)
      BY DEF OthersStep
    <2>1. g[p][t] = h[p][t] /\ g[p][t + 1] = h[p][t + 1] /\ R[p][t] = S[p][t]
      BY <1>3
    <2>2. h[p][t + 1] = NextState(h, S, p, t)
      BY <2>1 DEF Follows, OthersStep
    <2>3. CASE Gets(h[p][t])
      <3>1. On(h, p, t, Child(h[p][t]))
        BY <2>3 DEF On
      <3>2. /\ Child(h[p][t]) \in Procs
            /\ S[p][t] \in Nat /\ S[p][t] <= a[Child(h[p][t])]
        BY <3>1 DEF Follows, CallsFind
      <3>3. g[Child(h[p][t])][S[p][t]] = h[Child(h[p][t])][S[p][t]]
        BY <3>2
      <3> QED BY <2>1, <2>2, <2>3, <3>3 DEF NextState
    <2>4. CASE ~Gets(h[p][t])
      BY <2>1, <2>2, <2>4 DEF NextState
    <2> QED BY <2>3, <2>4
  <1> QED BY <1>2, <1>4, <1>5, <1>6, <1>7 DEF Follows

(* No process is its own child. *)
LEMMA NotOwnChild == ASSUME NEW k \in Procs, Parent[k] \in Procs PROVE Parent[k] # k
  BY ConstAssumption, TreeAssumption

(* A step that the history has takes the execution to its next place. *)
LEMMA Advance ==
    ASSUME NEW h, NEW S, NEW L, NEW a, NEW p, NEW N, NEW b,
           Follows(h, S, L, a), Moves(L, p, N), Ages(L, p, a, b),
           Puts(L[p]) \/ Gets(L[p]) => S[p][a[p]] = a[Child(L[p])],
           h[p][a[p] + 1] = N[p],
           Puts(L[p]) => h[Child(L[p])][a[Child(L[p])] + 1] = N[Child(L[p])]
    PROVE  Follows(h, S, N, b)
  <1>1. /\ p \in Procs /\ a[p] \in Nat /\ L[p] = h[p][a[p]]
        /\ \A q \in Procs : a[q] \in Nat /\ L[q] = h[q][a[q]]
    BY DEF Follows, Placed, Moves
  <1>2. PICK t0, k0 : t0 = a[p] /\ k0 = Child(L[p])
    OBVIOUS
  <1>3. Puts(L[p]) \/ Gets(L[p]) =>
           /\ k0 \in Procs /\ Parent[k0] = p /\ k0 # p
           /\ L[k0].mode = "stopped" /\ S[p][t0] = a[k0]
    BY <1>1, <1>2, NotOwnChild DEF Moves
  <1>4. /\ b[p] = t0 + 1
        /\ Puts(L[p]) => b[k0] = a[k0] + 1
        /\ \A q \in Procs : q # p /\ ~(Puts(L[p]) /\ q = k0) => b[q] = a[q]
    BY <1>2 DEF Ages
  <1>5. \A q \in Procs : b[q] \in Nat /\ a[q] <= b[q] /\ b[q] <= a[q] + 1
    <2> SUFFICES ASSUME NEW q \in Procs
                 PROVE  b[q] \in Nat /\ a[q] <= b[q] /\ b[q] <= a[q] + 1
      OBVIOUS
    <2>1. b[q] = a[q] \/ b[q] = a[q] + 1
      BY <1>1, <1>2, <1>3, <1>4
    <2> QED BY <1>1, <2>1
  <1>6. ASSUME NEW q \in Procs, NEW t \in Nat, t < b[q]
        PROVE  \/ t < a[q]
               \/ q = p /\ t = t0 /\ h[q][t] = L[p]
               \/ Puts(L[p]) /\ q = k0 /\ t = a[k0] /\ h[q][t] = L[k0]
    <2>1. CASE q = p
      <3>1. t < a[q] \/ t = t0
        BY <1>1, <1>2, <1>4, <1>6, <2>1
      <3> QED BY <1>1, <1>2, <2>1, <3>1
    <2>2. CASE Puts(L[p]) /\ q = k0
      <3>1. t < a[q] \/ t = a[k0]
        BY <1>1, <1>3, <1>4, <1>6, <2>2
      <3> QED BY <1>1, <1>3, <2>2, <3>1
    <2>3. CASE q # p /\ ~(Puts(L[p]) /\ q = k0)
      BY <1>4, <1>6, <2>3
    <2> QED BY <2>1, <2>2, <2>3
  <1>7. Placed(h, N, b)
    <2> SUFFICES ASSUME NEW q \in Procs PROVE N[q] = h[q][b[q]]
      BY <1>5 DEF Placed
    <2>1. CASE q = p
      BY <1>2, <1>4, <2>1
    <2>2. CASE q # p /\ Puts(L[p]) /\ q = k0
      BY <1>2, <1>4, <2>2
    <2>3. CASE q # p /\ ~(Puts(L[p]) /\ q = k0)
      <3>1. N[q] = L[q]
        BY <1>2, <2>3 DEF Moves
      <3> QED BY <1>1, <1>4, <2>3, <3>1
    <2> QED BY <2>1, <2>2, <2>3
  (* A call below the new ages is an old one or the one of this step. *)
  <1>8. ASSUME NEW q \in Procs, NEW t \in Nat, NEW k, t < b[q], On(h, q, t, k)
        PROVE  \/ t < a[q]
               \/ /\ q = p /\ t = t0 /\ k = k0 /\ h[q][t] = L[p]
                  /\ Puts(L[p]) \/ Gets(L[p])
    <2>1. CASE q = p /\ t = t0 /\ h[q][t] = L[p]
      BY <1>2, <1>8, <2>1 DEF On
    <2>2. CASE Puts(L[p]) /\ h[q][t] = L[k0]
      <3>1. L[k0].mode = "stopped"
        BY <1>3, <2>2
      <3>2. ~Puts(h[q][t]) /\ ~Gets(h[q][t])
        BY <2>2, <3>1 DEF Puts, Gets, Calls
      <3> QED BY <1>8, <3>2 DEF On
    <2> QED BY <1>6, <1>8, <2>1, <2>2
  <1>9. ASSUME NEW q \in Procs, NEW t \in Nat, NEW k, t < a[q], On(h, q, t, k)
        PROVE  /\ k \in Procs /\ Parent[k] = q
               /\ S[q][t] \in Nat /\ S[q][t] <= a[k]
               /\ Puts(h[q][t]) => S[q][t] < a[k]
               /\ h[k][S[q][t]].mode = "stopped"
    BY <1>9 DEF Follows, CallsFind
  <1>10. CallsFind(h, S, b)
    <2> SUFFICES ASSUME NEW q \in Procs, NEW t \in Nat, NEW k, t < b[q], On(h, q, t, k)
                 PROVE  /\ k \in Procs /\ Parent[k] = q
                        /\ S[q][t] \in Nat /\ S[q][t] <= b[k]
                        /\ Puts(h[q][t]) => S[q][t] < b[k]
                        /\ h[k][S[q][t]].mode = "stopped"
      BY DEF CallsFind
    <2>1. CASE t < a[q]
      <3>1. /\ k \in Procs /\ Parent[k] = q
            /\ S[q][t] \in Nat /\ S[q][t] <= a[k]
            /\ Puts(h[q][t]) => S[q][t] < a[k]
            /\ h[k][S[q][t]].mode = "stopped"
        BY <1>9, <2>1
      <3>2. a[k] \in Nat /\ b[k] \in Nat /\ a[k] <= b[k]
        BY <1>1, <1>5, <3>1
      <3> QED BY <3>1, <3>2
    <2>2. CASE /\ q = p /\ t = t0 /\ k = k0 /\ h[q][t] = L[p]
               /\ Puts(L[p]) \/ Gets(L[p])
      <3>1. /\ k \in Procs /\ Parent[k] = q /\ S[q][t] = a[k]
            /\ L[k].mode = "stopped"
        BY <1>3, <2>2
      <3>2. a[k] \in Nat /\ b[k] \in Nat /\ a[k] <= b[k] /\ L[k] = h[k][a[k]]
        BY <1>1, <1>5, <3>1
      <3>3. Puts(h[q][t]) => a[k] < b[k]
        BY <1>4, <2>2, <3>2
      <3> QED BY <3>1, <3>2, <3>3
    <2> QED BY <1>8, <2>1, <2>2
  <1>11. CallsInOrder(h, S, b)
    <2> SUFFICES ASSUME NEW q \in Procs, NEW t \in Nat, NEW u \in Nat, NEW k,
                        t < u, u < b[q], On(h, q, t, k), On(h, q, u, k)
                 PROVE  S[q][t] <= S[q][u] /\ (Puts(h[q][t]) => S[q][t] < S[q][u])
      BY DEF CallsInOrder
    <2>1. t < a[q]
      BY <1>1, <1>5
    <2>2. CASE u < a[q]
      BY <2>2 DEF Follows, CallsInOrder
    <2>3. CASE q = p /\ u = t0 /\ k = k0 /\ (Puts(L[p]) \/ Gets(L[p]))
      <3>1. S[q][u] = a[k]
        BY <1>3, <2>3
      <3> QED BY <1>9, <2>1, <3>1
    <2> QED BY <1>8, <2>2, <2>3
  <1>12. StoppedWaits(h, S, b)
    <2> SUFFICES ASSUME NEW k \in Procs, NEW i \in Nat, i < b[k], h[k][i].mode = "stopped"
                 PROVE  Parent[k] \in Procs /\ PutBy(h, S, b, k, i)
      BY DEF StoppedWaits
    <2>1. CASE i < a[k]
      <3>1. Parent[k] \in Procs /\ PutBy(h, S, a, k, i)
        BY <2>1 DEF Follows, StoppedWaits
      <3>2. PICK t \in Nat :
               /\ t < a[Parent[k]] /\ Puts(h[Parent[k]][t]) /\ Child(h[Parent[k]][t]) = k
               /\ S[Parent[k]][t] = i
               /\ h[k][i + 1] = PutInto(h[Parent[k]][t], h[k][i])
        BY <3>1 DEF PutBy
      <3>3. t < b[Parent[k]]
        BY <1>1, <1>5, <3>1, <3>2
      <3> QED BY <3>1, <3>2, <3>3 DEF PutBy
    <2>2. CASE k = p /\ h[k][i] = L[p]
      BY <2>2 DEF Moves
    <2>3. CASE Puts(L[p]) /\ k = k0 /\ i = a[k0] /\ h[k][i] = L[k0]
      <3>1. Parent[k] = p /\ p \in Procs /\ k # p
        BY <1>1, <1>3, <2>3
      <3>2. N[k] = PutInto(L[p], L[k])
        BY <1>2, <2>3, <3>1 DEF Moves
      <3>3. h[k][i + 1] = PutInto(h[p][t0], h[k][i])
        BY <1>1, <1>2, <2>3, <3>2
      <3>4. t0 \in Nat /\ t0 < b[p] /\ Puts(h[p][t0]) /\ Child(h[p][t0]) = k /\ S[p][t0] = i
        BY <1>1, <1>2, <1>3, <1>4, <2>3
      <3> QED BY <3>1, <3>3, <3>4 DEF PutBy
    <2> QED BY <1>6, <2>1, <2>2, <2>3
  <1>13. OthersStep(h, S, b)
    <2> SUFFICES ASSUME NEW q \in Procs, NEW t \in Nat, t < b[q], h[q][t].mode # "stopped"
                 PROVE  h[q][t + 1] = NextState(h, S, q, t)
      BY DEF OthersStep
    <2>1. CASE t < a[q]
      BY <2>1 DEF Follows, OthersStep
    <2>2. CASE q = p /\ t = t0 /\ h[q][t] = L[p]
      <3>1. CASE Gets(L[p])
        <4>1. L[k0] = h[k0][a[k0]] /\ S[p][t0] = a[k0]
          BY <1>1, <1>3, <3>1
        <4>2. N[p] = AfterGet(L[p], L[k0])
          BY <1>2, <3>1 DEF Moves
        <4> QED BY <1>2, <2>2, <3>1, <4>1, <4>2 DEF NextState
      <3>2. CASE ~Gets(L[p])
        <4>1. N[p] = AfterOwn(p, L[p])
          BY <3>2 DEF Moves
        <4> QED BY <1>2, <2>2, <3>2, <4>1 DEF NextState
      <3> QED BY <3>1, <3>2
    <2>3. CASE Puts(L[p]) /\ q = k0 /\ h[q][t] = L[k0]
      BY <1>3, <2>3
    <2> QED BY <1>6, <2>1, <2>2, <2>3
  <1> QED BY <1>7, <1>10, <1>11, <1>12, <1>13 DEF Follows

(* A PUT that an execution has made lies before the age of the child, and
   a stopped state that it has left behind was ended by such a PUT. *)
LEMMA PutBefore ==
    ASSUME NEW h, NEW S, NEW L, NEW a, Follows(h, S, L, a),
           NEW p \in Procs, NEW k \in Procs, Parent[k] = p
    PROVE  /\ \A t \in Nat : t < a[p] /\ Puts(h[p][t]) /\ Child(h[p][t]) = k => S[p][t] < a[k]
           /\ \A i \in Nat : i < a[k] /\ h[k][i].mode = "stopped" =>
                 \E t \in Nat : /\ t < a[p] /\ Puts(h[p][t]) /\ Child(h[p][t]) = k
                                /\ S[p][t] = i /\ h[k][i + 1] = PutInto(h[p][t], h[k][i])
  <1>1. ASSUME NEW t \in Nat, t < a[p], Puts(h[p][t]), Child(h[p][t]) = k
        PROVE  S[p][t] < a[k]
    <2>1. On(h, p, t, k)
      BY <1>1 DEF On
    <2> QED BY <1>1, <2>1 DEF Follows, CallsFind
  <1>2. ASSUME NEW i \in Nat, i < a[k], h[k][i].mode = "stopped"
        PROVE  \E t \in Nat : /\ t < a[p] /\ Puts(h[p][t]) /\ Child(h[p][t]) = k
                              /\ S[p][t] = i /\ h[k][i + 1] = PutInto(h[p][t], h[k][i])
    BY <1>2 DEF Follows, StoppedWaits, PutBy
  <1> QED BY <1>1, <1>2

(* The execution in which a parent has come further finds a stopped child at
   least as old as the other one does. *)
LEMMA NotPast ==
    ASSUME NEW h, NEW S, NEW L, NEW a, NEW M, NEW b,
           Follows(h, S, L, a), Follows(h, S, M, b),
           NEW p \in Procs, NEW k \in Procs, Parent[k] = p,
           b[p] <= a[p], L[k].mode = "stopped"
    PROVE  b[k] <= a[k]
  <1>1. /\ a[p] \in Nat /\ b[p] \in Nat /\ a[k] \in Nat /\ b[k] \in Nat
        /\ L[k] = h[k][a[k]]
    BY DEF Follows, Placed
  <1>2. ASSUME a[k] < b[k] PROVE FALSE
    <2>1. PICK t \in Nat : t < b[p] /\ Puts(h[p][t]) /\ Child(h[p][t]) = k /\ S[p][t] = a[k]
      BY <1>1, <1>2, PutBefore
    <2>2. t < a[p]
      BY <1>1, <2>1
    <2>3. S[p][t] < a[k]
      BY <2>1, <2>2, PutBefore
    <2> QED BY <1>1, <2>1, <2>3
  <1> QED BY <1>1, <1>2

(* The execution that comes second to a call finds the child at the age at
   which the first one has found it. *)
LEMMA SameMeeting ==
    ASSUME NEW h, NEW S, NEW L, NEW a, NEW M, NEW b,
           Follows(h, S, L, a), Follows(h, S, M, b),
           NEW p \in Procs, NEW k \in Procs, Parent[k] = p,
           a[p] < b[p], On(h, p, a[p], k), L[k].mode = "stopped"
    PROVE  S[p][a[p]] = a[k]
  <1>1. /\ a[p] \in Nat /\ b[p] \in Nat /\ a[k] \in Nat /\ b[k] \in Nat
        /\ L[k] = h[k][a[k]]
    BY DEF Follows, Placed
  <1>2. PICK j : j = S[p][a[p]]
    OBVIOUS
  <1>3. j \in Nat /\ j <= b[k] /\ h[k][j].mode = "stopped"
    BY <1>1, <1>2 DEF Follows, CallsFind
  <1>4. ASSUME a[k] < j PROVE FALSE
    <2>1. PICK t \in Nat : t < b[p] /\ Puts(h[p][t]) /\ Child(h[p][t]) = k /\ S[p][t] = a[k]
      BY <1>1, <1>3, <1>4, PutBefore
    <2>2. On(h, p, t, k)
      BY <2>1 DEF On
    <2>3. ~(a[p] < t)
      <3>1. a[p] < t => j <= S[p][t]
        BY <1>1, <1>2, <2>1, <2>2 DEF Follows, CallsInOrder
      <3> QED BY <1>1, <1>3, <1>4, <2>1, <3>1
    <2>4. t # a[p]
      BY <1>1, <1>2, <1>3, <1>4, <2>1
    <2>5. t < a[p]
      BY <1>1, <2>3, <2>4
    <2>6. S[p][t] < a[k]
      BY <2>1, <2>5, PutBefore
    <2> QED BY <1>1, <2>1, <2>6
  <1>5. ASSUME j < a[k] PROVE FALSE
    <2>1. PICK t \in Nat : t < a[p] /\ Puts(h[p][t]) /\ Child(h[p][t]) = k /\ S[p][t] = j
      BY <1>3, <1>5, PutBefore
    <2>2. On(h, p, t, k)
      BY <2>1 DEF On
    <2>3. S[p][t] < S[p][a[p]]
      BY <1>1, <2>1, <2>2 DEF Follows, CallsInOrder
    <2> QED BY <1>2, <1>3, <2>1, <2>3
  <1> QED BY <1>1, <1>2, <1>3, <1>4, <1>5

(* A step of the execution that is behind is already in the history. *)
LEMMA Behind ==
    ASSUME NEW h, NEW S, NEW L, NEW a, NEW M, NEW b, NEW p, NEW N, NEW c,
           Follows(h, S, L, a), Follows(h, S, M, b),
           Moves(L, p, N), Ages(L, p, a, c), a[p] < b[p]
    PROVE  Follows(h, S, N, c)
  <1>1. /\ p \in Procs /\ a[p] \in Nat /\ b[p] \in Nat /\ L[p] = h[p][a[p]]
        /\ L[p].mode # "stopped"
    BY DEF Follows, Placed, Moves
  <1>2. PICK k : k = Child(L[p])
    OBVIOUS
  <1>3. ASSUME Puts(L[p]) \/ Gets(L[p])
        PROVE  /\ k \in Procs /\ Parent[k] = p /\ k # p /\ L[k].mode = "stopped"
               /\ On(h, p, a[p], k) /\ S[p][a[p]] = a[k]
               /\ a[k] \in Nat /\ L[k] = h[k][a[k]]
    <2>1. k \in Procs /\ Parent[k] = p /\ k # p /\ L[k].mode = "stopped"
      BY <1>1, <1>2, <1>3, NotOwnChild DEF Moves
    <2>2. On(h, p, a[p], k)
      BY <1>1, <1>2, <1>3 DEF On
    <2>3. S[p][a[p]] = a[k]
      BY <1>1, <2>1, <2>2, SameMeeting
    <2> QED BY <2>1, <2>2, <2>3 DEF Follows, Placed
  <1>4. h[p][a[p] + 1] = N[p]
    <2>1. h[p][a[p] + 1] = NextState(h, S, p, a[p])
      BY <1>1 DEF Follows, OthersStep
    <2>2. CASE Gets(L[p])
      <3>1. N[p] = AfterGet(L[p], L[k])
        BY <1>2, <2>2 DEF Moves
      <3> QED BY <1>1, <1>2, <1>3, <2>1, <2>2, <3>1 DEF NextState
    <2>3. CASE ~Gets(L[p])
      <3>1. N[p] = AfterOwn(p, L[p])
        BY <2>3 DEF Moves
      <3> QED BY <1>1, <2>1, <2>3, <3>1 DEF NextState
    <2> QED BY <2>2, <2>3
  <1>5. ASSUME Puts(L[p]) PROVE h[k][a[k] + 1] = N[k]
    <2>1. /\ k \in Procs /\ Parent[k] = p /\ k # p /\ L[k].mode = "stopped"
          /\ On(h, p, a[p], k) /\ S[p][a[p]] = a[k]
          /\ a[k] \in Nat /\ L[k] = h[k][a[k]] /\ b[k] \in Nat
      BY <1>3, <1>5 DEF Follows, Placed
    <2>2. a[k] < b[k]
      BY <1>1, <1>2, <1>5, <2>1, PutBefore
    <2>3. PICK t \in Nat : /\ t < b[p] /\ Puts(h[p][t]) /\ Child(h[p][t]) = k
                           /\ S[p][t] = a[k]
                           /\ h[k][a[k] + 1] = PutInto(h[p][t], h[k][a[k]])
      <3>1. PICK i \in Nat : i = a[k]
        BY <2>1
      <3>2. i < b[k] /\ h[k][i].mode = "stopped"
        BY <2>1, <2>2, <3>1
      <3>3. \E t \in Nat : /\ t < b[p] /\ Puts(h[p][t]) /\ Child(h[p][t]) = k
                            /\ S[p][t] = i /\ h[k][i + 1] = PutInto(h[p][t], h[k][i])
        BY <1>1, <2>1, <3>2, PutBefore
      <3> QED BY <3>1, <3>3
    <2>4. On(h, p, t, k)
      BY <2>3 DEF On
    <2>5. ~(t < a[p])
      <3>1. t < a[p] => S[p][t] < S[p][a[p]]
        BY <1>1, <2>1, <2>3, <2>4 DEF Follows, CallsInOrder
      <3> QED BY <2>1, <2>3, <3>1
    <2>6. ~(a[p] < t)
      <3>1. a[p] < t => S[p][a[p]] < S[p][t]
        BY <1>1, <1>5, <2>1, <2>3, <2>4 DEF Follows, CallsInOrder
      <3> QED BY <2>1, <2>3, <3>1
    <2>7. t = a[p]
      BY <1>1, <2>5, <2>6
    <2>8. N[k] = PutInto(L[p], L[k])
      BY <1>2, <1>5, <2>1 DEF Moves
    <2> QED BY <1>1, <2>1, <2>3, <2>7, <2>8
  <1> QED BY <1>2, <1>3, <1>4, <1>5, Advance

(* A step of the execution that is ahead extends the history. *)
LEMMA Ahead ==
    ASSUME NEW h, NEW S, NEW L, NEW a, NEW M, NEW b, NEW p, NEW N, NEW c,
           Follows(h, S, L, a), Follows(h, S, M, b),
           Moves(L, p, N), Ages(L, p, a, c), b[p] <= a[p]
    PROVE  \E g, R : Follows(g, R, N, c) /\ Follows(g, R, M, b)
  <1>1. /\ p \in Procs /\ a[p] \in Nat
        /\ \A q \in Procs : a[q] \in Nat /\ b[q] \in Nat
    BY DEF Follows, Placed, Moves
  <1>2. PICK k : k = Child(L[p])
    OBVIOUS
  <1>3. ASSUME Puts(L[p])
        PROVE  k \in Procs /\ k # p /\ a[k] \in Nat /\ b[k] \in Nat /\ b[k] <= a[k]
    <2>1. k \in Procs /\ Parent[k] = p /\ k # p /\ L[k].mode = "stopped"
      BY <1>1, <1>2, <1>3, NotOwnChild DEF Moves
    <2>2. b[k] <= a[k]
      BY <1>1, <2>1, NotPast
    <2> QED BY <1>1, <2>1, <2>2
  <1>4. PICK g : g = [q \in Procs |-> [i \in Nat |->
                        IF q = p /\ i = a[p] + 1 THEN N[p]
                        ELSE IF Puts(L[p]) /\ q = k /\ i = a[k] + 1 THEN N[k]
                        ELSE h[q][i]]]
    OBVIOUS
  <1>5. PICK R : R = [q \in Procs |-> [i \in Nat |->
                        IF q = p /\ i = a[p] THEN a[k] ELSE S[q][i]]]
    OBVIOUS
  <1>6. \A q \in Procs : \A i \in Nat : i <= a[q] \/ i <= b[q] => g[q][i] = h[q][i]
    <2> SUFFICES ASSUME NEW q \in Procs, NEW i \in Nat, i <= a[q] \/ i <= b[q]
                 PROVE  g[q][i] = h[q][i]
      OBVIOUS
    <2>1. ~(q = p /\ i = a[p] + 1)
      BY <1>1
    <2>2. ~(Puts(L[p]) /\ q = k /\ i = a[k] + 1)
      BY <1>1, <1>3
    <2> QED BY <1>4, <2>1, <2>2
  <1>7. \A q \in Procs : \A i \in Nat : i < a[q] \/ i < b[q] => R[q][i] = S[q][i]
    <2> SUFFICES ASSUME NEW q \in Procs, NEW i \in Nat, i < a[q] \/ i < b[q]
                 PROVE  R[q][i] = S[q][i]
      OBVIOUS
    <2>1. ~(q = p /\ i = a[p])
      BY <1>1
    <2> QED BY <1>5, <2>1
  <1>8. Follows(g, R, M, b)
    BY <1>6, <1>7, Agree
  <1>9. Follows(g, R, L, a)
    BY <1>6, <1>7, Agree
  <1>10. R[p][a[p]] = a[k]
    BY <1>1, <1>5
  <1>11. a[p] + 1 \in Nat /\ g[p][a[p] + 1] = N[p]
    BY <1>1, <1>4
  <1>12. Puts(L[p]) => g[k][a[k] + 1] = N[k]
    <2> HAVE Puts(L[p])
    <2>1. k \in Procs /\ k # p /\ a[k] + 1 \in Nat
      BY <1>3
    <2> QED BY <1>4, <2>1
  <1>13. Follows(g, R, N, c)
    BY <1>2, <1>9, <1>10, <1>11, <1>12, Advance
  <1> QED BY <1>8, <1>13

(* Either way there is still one history for both. *)
LEMMA StepKeeps ==
    ASSUME NEW h, NEW S, NEW L, NEW a, NEW M, NEW b, NEW p, NEW N, NEW c,
           Follows(h, S, L, a), Follows(h, S, M, b),
           Moves(L, p, N), Ages(L, p, a, c)
    PROVE  \E g, R : Follows(g, R, N, c) /\ Follows(g, R, M, b)
  <1>1. a[p] \in Nat /\ b[p] \in Nat
    BY DEF Follows, Placed, Moves
  <1>2. CASE a[p] < b[p]
    BY <1>2, Behind
  <1>3. CASE b[p] <= a[p]
    BY <1>3, Ahead
  <1> QED BY <1>1, <1>2, <1>3
-----------------------------------------------------------------------------
(* Steps of Spaces, one process at a time *)

Shape(alive, out, r, m, s) ==
    /\ alive \subseteq Procs /\ out \subseteq alive
    /\ r \in [Procs -> Regs]
    /\ m = [p \in Procs |-> m[p]] /\ s = [p \in Procs |-> s[p]]

Shape1 == Shape(live1, leaving1, regs1, smem1, snap1)
Shape2 == Shape(live2, leaving2, regs2, smem2, snap2)

LEMMA RegsClosed ==
    ASSUME NEW r \in Regs
    PROVE  /\ Complete(r) \in Regs /\ Resume(r) \in Regs
           /\ \A e, t : t \in Traps => Saved(r, e, t) \in Regs
  <1>1. Complete(r) \in Regs
    BY ConstAssumption DEF Complete, Regs
  <1>2. Resume(r) \in Regs
    BY DEF Resume, Regs, Traps
  <1>3. ASSUME NEW e, NEW t \in Traps PROVE Saved(r, e, t) \in Regs
    BY <1>1 DEF Saved, Regs
  <1> QED BY <1>1, <1>2, <1>3

LEMMA OpTyped ==
    ASSUME NEW r \in Regs
    PROVE  /\ OpOf(r) \in Ops /\ EntryRegs(OpOf(r).prog) \in Regs
           /\ OpOf(r).regs \in {"none", "copy", "bad", "fault"}
  <1>1. OpOf(r) \in Ops
    BY CodeAssumption, ConstAssumption DEF OpOf, Regs
  <1>2. OpOf(r).prog \in Progs /\ OpOf(r).regs \in {"none", "copy", "bad", "fault"}
    BY <1>1 DEF Ops
  <1>3. EntryRegs(OpOf(r).prog) \in Regs
    BY <1>2, ConstAssumption DEF EntryRegs, Regs, Traps
  <1> QED BY <1>1, <1>2, <1>3

(* The operators of both instances of Spaces are the same. *)
LEMMA SameMachine ==
    /\ \A r : One!OpOf(r) = OpOf(r) /\ One!Complete(r) = Complete(r) /\ One!Resume(r) = Resume(r)
    /\ \A r : Two!OpOf(r) = OpOf(r) /\ Two!Complete(r) = Complete(r) /\ Two!Resume(r) = Resume(r)
    /\ \A r, e, t : One!Saved(r, e, t) = Saved(r, e, t) /\ Two!Saved(r, e, t) = Saved(r, e, t)
    /\ \A g : One!EntryRegs(g) = EntryRegs(g) /\ Two!EntryRegs(g) = EntryRegs(g)
    /\ \A g : One!BootRegs(g) = BootRegs(g) /\ Two!BootRegs(g) = BootRegs(g)
  <1>1. \A r : One!OpOf(r) = OpOf(r) /\ One!Complete(r) = Complete(r) /\ One!Resume(r) = Resume(r)
    BY DEF One!OpOf, OpOf, One!Complete, Complete, One!Resume, Resume
  <1>2. \A r : Two!OpOf(r) = OpOf(r) /\ Two!Complete(r) = Complete(r) /\ Two!Resume(r) = Resume(r)
    BY DEF Two!OpOf, OpOf, Two!Complete, Complete, Two!Resume, Resume
  <1>3. \A r, e, t : One!Saved(r, e, t) = Saved(r, e, t) /\ Two!Saved(r, e, t) = Saved(r, e, t)
    BY DEF One!Saved, Two!Saved, Saved, One!Complete, Two!Complete, Complete
  <1>4. \A g : One!EntryRegs(g) = EntryRegs(g) /\ Two!EntryRegs(g) = EntryRegs(g)
    BY DEF One!EntryRegs, Two!EntryRegs, EntryRegs
  <1>5. \A g : One!BootRegs(g) = BootRegs(g) /\ Two!BootRegs(g) = BootRegs(g)
    BY <1>4 DEF One!BootRegs, Two!BootRegs, BootRegs
  <1> QED BY <1>1, <1>2, <1>3, <1>4, <1>5

LEMMA SameCalls ==
    /\ \A op : Two!PutTrap(op) = One!PutTrap(op) /\ Two!GetTrap(op) = One!GetTrap(op)
    /\ \A r, op, t : Two!AfterCall(r, op, t) = One!AfterCall(r, op, t)
    /\ \A op, m, n : Two!PutMemory(op, m, n) = One!PutMemory(op, m, n)
    /\ \A op, m, r : Two!GetRegsMemory(op, m, r) = One!GetRegsMemory(op, m, r)
    /\ \A op, m, n, f : Two!GetMemory(op, m, n, f) = One!GetMemory(op, m, n, f)
  <1>1. \A op : Two!PutTrap(op) = One!PutTrap(op) /\ Two!GetTrap(op) = One!GetTrap(op)
    BY DEF One!PutTrap, Two!PutTrap, One!GetTrap, Two!GetTrap, One!T_PGFLT, Two!T_PGFLT,
       One!T_GPFLT, Two!T_GPFLT
  <1>2. \A r, op, t : Two!AfterCall(r, op, t) = One!AfterCall(r, op, t)
    BY DEF One!AfterCall, Two!AfterCall, One!Saved, Two!Saved, One!Complete, Two!Complete
  <1>3. \A op, m, n : Two!PutMemory(op, m, n) = One!PutMemory(op, m, n)
    BY DEF One!PutMemory, Two!PutMemory, One!CopyPages, Two!CopyPages, One!ZeroMem, Two!ZeroMem,
       One!Zero, Two!Zero
  <1>4. \A op, m, r : Two!GetRegsMemory(op, m, r) = One!GetRegsMemory(op, m, r)
    BY DEF One!GetRegsMemory, Two!GetRegsMemory, One!RegsWord, Two!RegsWord
  <1>5. \A op, m, n, f : Two!GetMemory(op, m, n, f) = One!GetMemory(op, m, n, f)
    BY DEF One!GetMemory, Two!GetMemory, One!CopyPages, Two!CopyPages, One!ZeroMem, Two!ZeroMem,
       One!Zero, Two!Zero, One!MergePages, Two!MergePages
  <1> QED BY <1>1, <1>2, <1>3, <1>4, <1>5

(* What the calls leave in registers are registers. *)
LEMMA CallRegs ==
    ASSUME NEW r \in Regs, NEW op
    PROVE  /\ One!AfterCall(r, op, One!PutTrap(op)) \in Regs
           /\ One!AfterCall(r, op, One!GetTrap(op)) \in Regs
           /\ One!AfterCall(r, op, T_PGFLT) \in Regs
  <1>1. One!T_PGFLT = T_PGFLT /\ One!T_GPFLT = T_GPFLT
    BY DEF One!T_PGFLT, T_PGFLT, One!T_GPFLT, T_GPFLT
  <1>2. /\ 0 \in Traps /\ T_PGFLT \in Traps
        /\ One!PutTrap(op) \in Traps /\ One!GetTrap(op) \in Traps
    <2>1. One!PutTrap(op) \in {0, T_GPFLT, T_PGFLT} /\ One!GetTrap(op) \in {0, T_GPFLT, T_PGFLT}
      BY <1>1 DEF One!PutTrap, One!GetTrap
    <2> QED BY <2>1 DEF Traps
  <1>3. ASSUME NEW t \in Traps PROVE One!AfterCall(r, op, t) \in Regs
    <2>1. Saved(r, 0, t) \in Regs /\ Saved(NullFrame, 0, t) \in Regs /\ Complete(r) \in Regs
      BY RegsClosed, ConstAssumption
    <2> QED BY <2>1, SameMachine DEF One!AfterCall
  <1> QED BY <1>2, <1>3

(* The first execution: each step is a step of one process. *)
LEMMA LocalMoves1 ==
    ASSUME Shape1, NEW p \in live1, p \notin leaving1, One!Local(p)
    PROVE  Shape1' /\ Moves(Loc1, p, Loc1')
  <1>1. PICK op : op = OpOf(regs1[p])
    OBVIOUS
  <1>2. /\ p \in Procs /\ regs1[p] \in Regs /\ regs1 \in [Procs -> Regs]
        /\ smem1 = [q \in Procs |-> smem1[q]] /\ snap1 = [q \in Procs |-> snap1[q]]
    BY DEF Shape1, Shape
  <1>3. /\ GoesOn(p, op) /\ op.call \notin {"PUT", "GET"}
        /\ regs1' = [regs1 EXCEPT ![p] = Complete(regs1[p])]
        /\ smem1' = IF op.call = "STORE"
                    THEN [smem1 EXCEPT ![p] = [smem1[p] EXCEPT ![op.page] = <<op.val>>]]
                    ELSE smem1
        /\ live1' = live1 /\ leaving1' = leaving1 /\ snap1' = snap1
    BY <1>1, SameMachine DEF One!Local, GoesOn
  <1>4. Complete(regs1[p]) \in Regs
    BY <1>2, RegsClosed
  <1>5. smem1' = [q \in Procs |-> smem1'[q]]
    <2>1. CASE op.call = "STORE"
      BY <1>2, <1>3, <2>1
    <2>2. CASE op.call # "STORE"
      BY <1>2, <1>3, <2>2
    <2> QED BY <2>1, <2>2
  <1>6. Shape1'
    <2>1. regs1' \in [Procs -> Regs]
      BY <1>2, <1>3, <1>4
    <2> QED BY <1>2, <1>3, <1>5, <2>1 DEF Shape1, Shape
  <1>7. \A q \in Procs :
           /\ Loc1[q] = State(Mode(q, live1, leaving1), regs1[q], smem1[q], snap1[q])
           /\ Loc1'[q] = State(Mode(q, live1, leaving1), regs1'[q], smem1'[q], snap1[q])
    BY <1>3 DEF Loc1
  <1>8. Loc1[p] = State("live", regs1[p], smem1[p], snap1[p])
    BY <1>2, <1>7 DEF Mode
  <1>9. /\ Loc1[p].mode = "live" /\ Loc1[p].regs = regs1[p] /\ Loc1[p].mem = smem1[p]
        /\ Loc1[p].snap = snap1[p]
    BY <1>8 DEF State
  <1>10. ~Puts(Loc1[p]) /\ ~Gets(Loc1[p])
    BY <1>1, <1>3, <1>9 DEF Puts, Gets, Calls
  <1>11. Loc1'[p] = AfterOwn(p, Loc1[p])
    <2>1. AfterOwn(p, Loc1[p]) = AfterLocal(Loc1[p])
      BY <1>1, <1>3, <1>9 DEF AfterOwn
    <2>2. smem1'[p] = IF op.call = "STORE" THEN [smem1[p] EXCEPT ![op.page] = <<op.val>>]
                      ELSE smem1[p]
      BY <1>2, <1>3
    <2>3. Mode(p, live1, leaving1) = "live"
      BY DEF Mode
    <2>4. Loc1'[p] = State("live", Complete(regs1[p]), smem1'[p], snap1[p])
      BY <1>2, <1>3, <1>7, <2>3
    <2> QED BY <1>1, <1>9, <2>1, <2>2, <2>4 DEF AfterLocal
  <1>12. ASSUME NEW q \in Procs \ {p} PROVE Loc1'[q] = Loc1[q]
    <2>1. regs1'[q] = regs1[q] /\ smem1'[q] = smem1[q]
      BY <1>2, <1>3
    <2> QED BY <1>7, <2>1
  <1> QED BY <1>2, <1>6, <1>9, <1>10, <1>11, <1>12 DEF Moves

LEMMA LeaveMoves1 ==
    ASSUME Shape1, NEW p \in live1, p \notin leaving1, One!Leave(p)
    PROVE  Shape1' /\ Moves(Loc1, p, Loc1')
  <1>1. PICK op, r : op = OpOf(regs1[p]) /\ r = LeaveRegs(regs1[p])
    OBVIOUS
  <1>2. /\ p \in Procs /\ regs1[p] \in Regs /\ regs1 \in [Procs -> Regs]
        /\ smem1 = [q \in Procs |-> smem1[q]] /\ snap1 = [q \in Procs |-> snap1[q]]
        /\ live1 \subseteq Procs /\ leaving1 \subseteq live1
    BY DEF Shape1, Shape
  <1>3. /\ ~GoesOn(p, op) /\ op.call \notin {"PUT", "GET"}
        /\ regs1' = [regs1 EXCEPT ![p] = r]
    <2>1. One!T_SYSCALL = T_SYSCALL /\ One!T_BRKPT = T_BRKPT /\ One!T_ILLOP = T_ILLOP
          /\ One!T_PGFLT = T_PGFLT
      BY DEF One!T_SYSCALL, One!T_BRKPT, One!T_ILLOP, One!T_PGFLT,
             T_SYSCALL, T_BRKPT, T_ILLOP, T_PGFLT
    <2>2. CASE op.call = "RET" /\ p # Root
               /\ regs1' = [regs1 EXCEPT ![p] = Saved(regs1[p], 1, T_SYSCALL)]
      BY <1>1, <2>2 DEF GoesOn, LeaveRegs
    <2>3. CASE op.call = "BRKPT" /\ regs1' = [regs1 EXCEPT ![p] = Saved(regs1[p], 1, T_BRKPT)]
      BY <1>1, <2>3 DEF GoesOn, LeaveRegs
    <2>4. CASE op.call = "ILLOP" /\ regs1' = [regs1 EXCEPT ![p] = Saved(regs1[p], -1, T_ILLOP)]
      BY <1>1, <2>4 DEF GoesOn, LeaveRegs
    <2>5. CASE op.call = "UNDEF"
               /\ regs1' = [regs1 EXCEPT ![p] = Saved(Complete(regs1[p]), -1, T_SYSCALL)]
      BY <1>1, <2>5 DEF GoesOn, LeaveRegs
    <2>6. CASE op.call = "CPUTS" /\ op.regs \in {"bad", "fault"}
               /\ regs1' = [regs1 EXCEPT ![p] = One!AfterCall(regs1[p], op, T_PGFLT)]
      BY <1>1, <2>6 DEF GoesOn, LeaveRegs
    <2> QED BY <1>1, <2>1, <2>2, <2>3, <2>4, <2>5, <2>6, SameMachine DEF One!Leave
  <1>4. /\ live1' = live1 /\ leaving1' = leaving1 \cup {p}
        /\ smem1' = smem1 /\ snap1' = snap1
    BY DEF One!Leave
  <1>5. r \in Regs
    <2>1. Complete(regs1[p]) \in Regs /\ One!AfterCall(regs1[p], op, T_PGFLT) \in Regs
      BY <1>2, RegsClosed, CallRegs
    <2>2. T_SYSCALL \in Traps /\ T_BRKPT \in Traps /\ T_ILLOP \in Traps
      BY DEF Traps
    <2>3. /\ Saved(regs1[p], 1, T_SYSCALL) \in Regs /\ Saved(regs1[p], 1, T_BRKPT) \in Regs
          /\ Saved(regs1[p], -1, T_ILLOP) \in Regs
          /\ Saved(Complete(regs1[p]), -1, T_SYSCALL) \in Regs
      BY <1>2, <2>1, <2>2, RegsClosed
    <2> QED BY <1>1, <2>1, <2>3 DEF LeaveRegs
  <1>6. Shape1'
    <2>1. regs1' \in [Procs -> Regs]
      BY <1>2, <1>3, <1>5
    <2> QED BY <1>2, <1>4, <2>1 DEF Shape1, Shape
  <1>7. \A q \in Procs :
           /\ Loc1[q] = State(Mode(q, live1, leaving1), regs1[q], smem1[q], snap1[q])
           /\ Loc1'[q] = State(Mode(q, live1, leaving1 \cup {p}), regs1'[q], smem1[q], snap1[q])
    BY <1>4 DEF Loc1
  <1>8. Loc1[p] = State("live", regs1[p], smem1[p], snap1[p])
    BY <1>2, <1>7 DEF Mode
  <1>9. /\ Loc1[p].mode = "live" /\ Loc1[p].regs = regs1[p] /\ Loc1[p].mem = smem1[p]
        /\ Loc1[p].snap = snap1[p]
    BY <1>8 DEF State
  <1>10. ~Puts(Loc1[p]) /\ ~Gets(Loc1[p])
    BY <1>1, <1>3, <1>9 DEF Puts, Gets, Calls
  <1>11. Loc1'[p] = AfterOwn(p, Loc1[p])
    <2>1. Mode(p, live1, leaving1 \cup {p}) = "leaving"
      BY DEF Mode
    <2>2. Loc1'[p] = State("leaving", r, smem1[p], snap1[p])
      BY <1>2, <1>3, <1>7, <2>1
    <2> QED BY <1>1, <1>3, <1>9, <2>2 DEF AfterOwn
  <1>12. ASSUME NEW q \in Procs \ {p} PROVE Loc1'[q] = Loc1[q]
    <2>1. regs1'[q] = regs1[q] /\ Mode(q, live1, leaving1 \cup {p}) = Mode(q, live1, leaving1)
      BY <1>2, <1>3 DEF Mode
    <2> QED BY <1>7, <2>1
  <1> QED BY <1>2, <1>6, <1>9, <1>10, <1>11, <1>12 DEF Moves

LEMMA StopMoves1 ==
    ASSUME Shape1, NEW p \in live1, One!Stop(p)
    PROVE  Shape1' /\ Moves(Loc1, p, Loc1') /\ p \in leaving1
  <1>1. /\ p \in Procs /\ live1 \subseteq Procs /\ leaving1 \subseteq live1
        /\ p \in leaving1
        /\ live1' = live1 \ {p} /\ leaving1' = leaving1 \ {p}
        /\ regs1' = regs1 /\ smem1' = smem1 /\ snap1' = snap1
    BY DEF Shape1, Shape, One!Stop
  <1>2. Shape1'
    BY <1>1 DEF Shape1, Shape
  <1>3. \A q \in Procs :
           /\ Loc1[q] = State(Mode(q, live1, leaving1), regs1[q], smem1[q], snap1[q])
           /\ Loc1'[q] = State(Mode(q, live1 \ {p}, leaving1 \ {p}), regs1[q], smem1[q], snap1[q])
    BY <1>1 DEF Loc1
  <1>4. Loc1[p] = State("leaving", regs1[p], smem1[p], snap1[p])
    BY <1>1, <1>3 DEF Mode
  <1>5. /\ Loc1[p].mode = "leaving" /\ Loc1[p].regs = regs1[p] /\ Loc1[p].mem = smem1[p]
        /\ Loc1[p].snap = snap1[p]
    BY <1>4 DEF State
  <1>6. ~Puts(Loc1[p]) /\ ~Gets(Loc1[p])
    BY <1>5 DEF Puts, Gets, Calls
  <1>7. Loc1'[p] = AfterOwn(p, Loc1[p])
    <2>1. Mode(p, live1 \ {p}, leaving1 \ {p}) = "stopped"
      BY DEF Mode
    <2> QED BY <1>1, <1>3, <1>5, <2>1 DEF AfterOwn
  <1>8. ASSUME NEW q \in Procs \ {p} PROVE Loc1'[q] = Loc1[q]
    <2>1. Mode(q, live1 \ {p}, leaving1 \ {p}) = Mode(q, live1, leaving1)
      BY DEF Mode
    <2> QED BY <1>3, <2>1
  <1> QED BY <1>1, <1>2, <1>5, <1>6, <1>7, <1>8 DEF Moves

LEMMA GetMoves1 ==
    ASSUME NoHalfCopy, Shape1, NEW p \in live1, p \notin leaving1, One!Get(p)
    PROVE  Shape1' /\ Moves(Loc1, p, Loc1')
  <1>1. PICK op, k, trapno, r, m :
           /\ op = OpOf(regs1[p]) /\ k = op.child /\ trapno = One!GetTrap(op)
           /\ r = One!AfterCall(regs1[p], op, trapno)
           /\ m = One!GetMemory(op, One!GetRegsMemory(op, smem1[p], regs1[k]), smem1[k], snap1[k])
    OBVIOUS
  <1>2. /\ p \in Procs /\ regs1[p] \in Regs /\ regs1 \in [Procs -> Regs]
        /\ smem1 = [q \in Procs |-> smem1[q]] /\ snap1 = [q \in Procs |-> snap1[q]]
        /\ live1 \subseteq Procs /\ leaving1 \subseteq live1
    BY DEF Shape1, Shape
  <1>3. /\ op.call = "GET" /\ k \in Procs /\ Parent[k] = p /\ k \notin live1
        /\ regs1' = [regs1 EXCEPT ![p] = r]
        /\ smem1' = [smem1 EXCEPT ![p] = m]
        /\ leaving1' = IF trapno = 0 THEN leaving1 ELSE leaving1 \cup {p}
        /\ live1' = live1 /\ snap1' = snap1
    <2>1. op.call = "GET" /\ op.regs # "fault"
      BY <1>1, <1>2, SameMachine DEF One!Get, NoHalfCopy
    <2>2. One!GotRegs(op, smem1[p], regs1[k]) = {One!GetRegsMemory(op, smem1[p], regs1[k])}
      BY <2>1 DEF One!GotRegs
    <2>3. \E n \in One!GotRegs(op, smem1[p], regs1[k]) :
             smem1' = [smem1 EXCEPT ![p] = One!GetMemory(op, n, smem1[k], snap1[k])]
      BY <1>1, SameMachine DEF One!Get
    <2>4. smem1' = [smem1 EXCEPT ![p] = m]
      BY <1>1, <2>2, <2>3
    <2> QED BY <1>1, <2>4, SameMachine DEF One!Get
  <1>4. r \in Regs
    BY <1>1, <1>2, CallRegs
  <1>5. Shape1'
    <2>1. regs1' \in [Procs -> Regs] /\ smem1' = [q \in Procs |-> smem1'[q]]
      BY <1>2, <1>3, <1>4
    <2> QED BY <1>2, <1>3, <2>1 DEF Shape1, Shape
  <1>6. \A q \in Procs :
           /\ Loc1[q] = State(Mode(q, live1, leaving1), regs1[q], smem1[q], snap1[q])
           /\ Loc1'[q] = State(Mode(q, live1, leaving1'), regs1'[q], smem1'[q], snap1[q])
    BY <1>3 DEF Loc1
  <1>7. /\ Loc1[p] = State("live", regs1[p], smem1[p], snap1[p])
        /\ Loc1[k] = State("stopped", regs1[k], smem1[k], snap1[k])
    BY <1>2, <1>3, <1>6 DEF Mode
  <1>8. /\ Loc1[p].mode = "live" /\ Loc1[p].regs = regs1[p] /\ Loc1[p].mem = smem1[p]
        /\ Loc1[p].snap = snap1[p]
        /\ Loc1[k].mode = "stopped" /\ Loc1[k].regs = regs1[k] /\ Loc1[k].mem = smem1[k]
        /\ Loc1[k].snap = snap1[k]
    BY <1>7 DEF State
  <1>9. ~Puts(Loc1[p]) /\ Gets(Loc1[p]) /\ Child(Loc1[p]) = k
    BY <1>1, <1>3, <1>8 DEF Puts, Gets, Calls, Child
  <1>10. Loc1'[p] = AfterGet(Loc1[p], Loc1[k])
    <2>1. Mode(p, live1, leaving1') = IF trapno = 0 THEN "live" ELSE "leaving"
      BY <1>3 DEF Mode
    <2>2. Loc1'[p] = State(IF trapno = 0 THEN "live" ELSE "leaving", r, m, snap1[p])
      BY <1>2, <1>3, <1>6, <2>1
    <2> QED BY <1>1, <1>8, <2>2 DEF AfterGet
  <1>11. ASSUME NEW q \in Procs \ {p} PROVE Loc1'[q] = Loc1[q]
    <2>1. /\ regs1'[q] = regs1[q] /\ smem1'[q] = smem1[q]
          /\ Mode(q, live1, leaving1') = Mode(q, live1, leaving1)
      BY <1>2, <1>3 DEF Mode
    <2> QED BY <1>6, <2>1
  <1> QED BY <1>2, <1>3, <1>5, <1>8, <1>9, <1>10, <1>11 DEF Moves

LEMMA PutMoves1 ==
    ASSUME NoHalfCopy, Shape1, NEW p \in live1, p \notin leaving1, One!Put(p)
    PROVE  Shape1' /\ Moves(Loc1, p, Loc1')
  <1>1. PICK op, k, trapno, r, cm, l :
           /\ op = OpOf(regs1[p]) /\ k = op.child /\ trapno = One!PutTrap(op)
           /\ r = One!AfterCall(regs1[p], op, trapno)
           /\ cm = One!PutMemory(op, smem1[p], smem1[k])
           /\ l = IF op.regs = "copy" THEN EntryRegs(op.prog) ELSE regs1[k]
    OBVIOUS
  <1>2. /\ p \in Procs /\ regs1[p] \in Regs /\ regs1 \in [Procs -> Regs]
        /\ smem1 = [q \in Procs |-> smem1[q]] /\ snap1 = [q \in Procs |-> snap1[q]]
        /\ live1 \subseteq Procs /\ leaving1 \subseteq live1
    BY DEF Shape1, Shape
  <1>3. /\ op.call = "PUT" /\ k \in Procs /\ Parent[k] = p /\ k \notin live1
        /\ smem1' = [smem1 EXCEPT ![k] = cm]
        /\ snap1' = IF trapno = 0 /\ op.snap THEN [snap1 EXCEPT ![k] = cm] ELSE snap1
        /\ live1' = IF trapno = 0 /\ op.start THEN live1 \cup {k} ELSE live1
        /\ leaving1' = IF trapno = 0 THEN leaving1 ELSE leaving1 \cup {p}
    BY <1>1, SameMachine DEF One!Put
  <1>4. k # p
    BY <1>2, <1>3, NotOwnChild
  <1>5. op.regs # "fault"
    BY <1>1, <1>2, <1>3 DEF NoHalfCopy
  <1>6. regs1' = [regs1 EXCEPT ![k] = IF trapno = 0 /\ op.start THEN Resume(l) ELSE l,
                               ![p] = r]
    BY <1>1, <1>4, <1>5, SameMachine DEF One!Put
  <1>7. r \in Regs /\ l \in Regs /\ Resume(l) \in Regs
    <2>1. r \in Regs /\ l \in Regs
      BY <1>1, <1>2, <1>3, CallRegs, OpTyped
    <2> QED BY <2>1, RegsClosed
  <1>8. Shape1'
    <2>1. regs1' \in [Procs -> Regs] /\ smem1' = [q \in Procs |-> smem1'[q]]
      BY <1>2, <1>3, <1>6, <1>7
    <2>2. snap1' = [q \in Procs |-> snap1'[q]]
      <3>1. CASE trapno = 0 /\ op.snap
        BY <1>2, <1>3, <3>1
      <3>2. CASE ~(trapno = 0 /\ op.snap)
        BY <1>2, <1>3, <3>2
      <3> QED BY <3>1, <3>2
    <2> QED BY <1>2, <1>3, <2>1, <2>2 DEF Shape1, Shape
  <1>9. \A q \in Procs :
           /\ Loc1[q] = State(Mode(q, live1, leaving1), regs1[q], smem1[q], snap1[q])
           /\ Loc1'[q] = State(Mode(q, live1', leaving1'), regs1'[q], smem1'[q], snap1'[q])
    BY DEF Loc1
  <1>10. /\ Loc1[p] = State("live", regs1[p], smem1[p], snap1[p])
         /\ Loc1[k] = State("stopped", regs1[k], smem1[k], snap1[k])
    BY <1>2, <1>3, <1>9 DEF Mode
  <1>11. /\ Loc1[p].mode = "live" /\ Loc1[p].regs = regs1[p] /\ Loc1[p].mem = smem1[p]
         /\ Loc1[p].snap = snap1[p]
         /\ Loc1[k].mode = "stopped" /\ Loc1[k].regs = regs1[k] /\ Loc1[k].mem = smem1[k]
         /\ Loc1[k].snap = snap1[k]
    BY <1>10 DEF State
  <1>12. Puts(Loc1[p]) /\ ~Gets(Loc1[p]) /\ Child(Loc1[p]) = k
    BY <1>1, <1>3, <1>11 DEF Puts, Gets, Calls, Child
  <1>13. Loc1'[p] = AfterOwn(p, Loc1[p])
    <2>1. Mode(p, live1', leaving1') = IF trapno = 0 THEN "live" ELSE "leaving"
      BY <1>3 DEF Mode
    <2>2. regs1'[p] = r /\ smem1'[p] = smem1[p] /\ snap1'[p] = snap1[p]
      BY <1>2, <1>3, <1>4, <1>6
    <2>3. Loc1'[p] = State(IF trapno = 0 THEN "live" ELSE "leaving", r, smem1[p], snap1[p])
      BY <1>2, <1>9, <2>1, <2>2
    <2>4. AfterOwn(p, Loc1[p]) = AfterPut(Loc1[p])
      BY <1>1, <1>3, <1>11 DEF AfterOwn
    <2> QED BY <1>1, <1>11, <2>3, <2>4 DEF AfterPut
  <1>14. Loc1'[k] = PutInto(Loc1[p], Loc1[k])
    <2>1. Mode(k, live1', leaving1') = IF trapno = 0 /\ op.start THEN "live" ELSE "stopped"
      BY <1>2, <1>3, <1>4 DEF Mode
    <2>2. /\ regs1'[k] = IF trapno = 0 /\ op.start THEN Resume(l) ELSE l
          /\ smem1'[k] = cm
          /\ snap1'[k] = IF trapno = 0 /\ op.snap THEN cm ELSE snap1[k]
      BY <1>2, <1>3, <1>4, <1>6
    <2>3. Loc1'[k] = State(IF trapno = 0 /\ op.start THEN "live" ELSE "stopped",
                           IF trapno = 0 /\ op.start THEN Resume(l) ELSE l, cm,
                           IF trapno = 0 /\ op.snap THEN cm ELSE snap1[k])
      BY <1>3, <1>9, <2>1, <2>2
    <2> QED BY <1>1, <1>11, <2>3 DEF PutInto
  <1>15. ASSUME NEW q \in Procs \ {p}, q # k PROVE Loc1'[q] = Loc1[q]
    <2>1. /\ regs1'[q] = regs1[q] /\ smem1'[q] = smem1[q] /\ snap1'[q] = snap1[q]
          /\ Mode(q, live1', leaving1') = Mode(q, live1, leaving1)
      BY <1>2, <1>3, <1>6, <1>15 DEF Mode
    <2> QED BY <1>9, <2>1
  <1> QED BY <1>2, <1>3, <1>4, <1>8, <1>11, <1>12, <1>13, <1>14, <1>15 DEF Moves

LEMMA StepMoves1 ==
    ASSUME NoHalfCopy, Shape1, NEW p \in live1, Step1(p), age1 \in [Procs -> Nat]
    PROVE  Shape1' /\ Moves(Loc1, p, Loc1') /\ Ages(Loc1, p, age1, age1')
  <1>1. Shape1' /\ Moves(Loc1, p, Loc1')
    BY LocalMoves1, LeaveMoves1, StopMoves1, GetMoves1, PutMoves1 DEF Step1, One!Step
  <1>2. /\ p \in Procs /\ live1 \subseteq Procs /\ leaving1 \subseteq live1
        /\ Loc1[p].mode = (IF p \in leaving1 THEN "leaving" ELSE "live")
        /\ Loc1[p].regs = regs1[p]
    BY DEF Shape1, Shape, Loc1, State, Mode
  <1>3. PICK k : k = OpOf(regs1[p]).child
    OBVIOUS
  <1>4. /\ Puts(Loc1[p]) <=> p \notin leaving1 /\ OpOf(regs1[p]).call = "PUT"
        /\ Child(Loc1[p]) = k
    BY <1>2, <1>3 DEF Puts, Calls, Child
  <1>5. \A q \in Procs : age1'[q] = IF q \in One!Touched(p) THEN age1[q] + 1 ELSE age1[q]
    BY DEF Step1
  <1>6. \A q \in Procs : q \in One!Touched(p) <=> q = p \/ (Puts(Loc1[p]) /\ q = k)
    BY <1>2, <1>3, <1>4, SameMachine DEF One!Touched
  <1>7. Puts(Loc1[p]) => k \in Procs
    BY <1>1, <1>4 DEF Moves
  <1> QED BY <1>1, <1>2, <1>4, <1>5, <1>6, <1>7 DEF Ages

(* The first execution: each step is a step of one process. *)
LEMMA LocalMoves2 ==
    ASSUME Shape2, NEW p \in live2, p \notin leaving2, Two!Local(p)
    PROVE  Shape2' /\ Moves(Loc2, p, Loc2')
  <1>1. PICK op : op = OpOf(regs2[p])
    OBVIOUS
  <1>2. /\ p \in Procs /\ regs2[p] \in Regs /\ regs2 \in [Procs -> Regs]
        /\ smem2 = [q \in Procs |-> smem2[q]] /\ snap2 = [q \in Procs |-> snap2[q]]
    BY DEF Shape2, Shape
  <1>3. /\ GoesOn(p, op) /\ op.call \notin {"PUT", "GET"}
        /\ regs2' = [regs2 EXCEPT ![p] = Complete(regs2[p])]
        /\ smem2' = IF op.call = "STORE"
                    THEN [smem2 EXCEPT ![p] = [smem2[p] EXCEPT ![op.page] = <<op.val>>]]
                    ELSE smem2
        /\ live2' = live2 /\ leaving2' = leaving2 /\ snap2' = snap2
    BY <1>1, SameMachine DEF Two!Local, GoesOn
  <1>4. Complete(regs2[p]) \in Regs
    BY <1>2, RegsClosed
  <1>5. smem2' = [q \in Procs |-> smem2'[q]]
    <2>1. CASE op.call = "STORE"
      BY <1>2, <1>3, <2>1
    <2>2. CASE op.call # "STORE"
      BY <1>2, <1>3, <2>2
    <2> QED BY <2>1, <2>2
  <1>6. Shape2'
    <2>1. regs2' \in [Procs -> Regs]
      BY <1>2, <1>3, <1>4
    <2> QED BY <1>2, <1>3, <1>5, <2>1 DEF Shape2, Shape
  <1>7. \A q \in Procs :
           /\ Loc2[q] = State(Mode(q, live2, leaving2), regs2[q], smem2[q], snap2[q])
           /\ Loc2'[q] = State(Mode(q, live2, leaving2), regs2'[q], smem2'[q], snap2[q])
    BY <1>3 DEF Loc2
  <1>8. Loc2[p] = State("live", regs2[p], smem2[p], snap2[p])
    BY <1>2, <1>7 DEF Mode
  <1>9. /\ Loc2[p].mode = "live" /\ Loc2[p].regs = regs2[p] /\ Loc2[p].mem = smem2[p]
        /\ Loc2[p].snap = snap2[p]
    BY <1>8 DEF State
  <1>10. ~Puts(Loc2[p]) /\ ~Gets(Loc2[p])
    BY <1>1, <1>3, <1>9 DEF Puts, Gets, Calls
  <1>11. Loc2'[p] = AfterOwn(p, Loc2[p])
    <2>1. AfterOwn(p, Loc2[p]) = AfterLocal(Loc2[p])
      BY <1>1, <1>3, <1>9 DEF AfterOwn
    <2>2. smem2'[p] = IF op.call = "STORE" THEN [smem2[p] EXCEPT ![op.page] = <<op.val>>]
                      ELSE smem2[p]
      BY <1>2, <1>3
    <2>3. Mode(p, live2, leaving2) = "live"
      BY DEF Mode
    <2>4. Loc2'[p] = State("live", Complete(regs2[p]), smem2'[p], snap2[p])
      BY <1>2, <1>3, <1>7, <2>3
    <2> QED BY <1>1, <1>9, <2>1, <2>2, <2>4 DEF AfterLocal
  <1>12. ASSUME NEW q \in Procs \ {p} PROVE Loc2'[q] = Loc2[q]
    <2>1. regs2'[q] = regs2[q] /\ smem2'[q] = smem2[q]
      BY <1>2, <1>3
    <2> QED BY <1>7, <2>1
  <1> QED BY <1>2, <1>6, <1>9, <1>10, <1>11, <1>12 DEF Moves

LEMMA LeaveMoves2 ==
    ASSUME Shape2, NEW p \in live2, p \notin leaving2, Two!Leave(p)
    PROVE  Shape2' /\ Moves(Loc2, p, Loc2')
  <1>1. PICK op, r : op = OpOf(regs2[p]) /\ r = LeaveRegs(regs2[p])
    OBVIOUS
  <1>2. /\ p \in Procs /\ regs2[p] \in Regs /\ regs2 \in [Procs -> Regs]
        /\ smem2 = [q \in Procs |-> smem2[q]] /\ snap2 = [q \in Procs |-> snap2[q]]
        /\ live2 \subseteq Procs /\ leaving2 \subseteq live2
    BY DEF Shape2, Shape
  <1>3. /\ ~GoesOn(p, op) /\ op.call \notin {"PUT", "GET"}
        /\ regs2' = [regs2 EXCEPT ![p] = r]
    <2>1. Two!T_SYSCALL = T_SYSCALL /\ Two!T_BRKPT = T_BRKPT /\ Two!T_ILLOP = T_ILLOP
          /\ Two!T_PGFLT = T_PGFLT
      BY DEF Two!T_SYSCALL, Two!T_BRKPT, Two!T_ILLOP, Two!T_PGFLT,
             T_SYSCALL, T_BRKPT, T_ILLOP, T_PGFLT
    <2>2. CASE op.call = "RET" /\ p # Root
               /\ regs2' = [regs2 EXCEPT ![p] = Saved(regs2[p], 1, T_SYSCALL)]
      BY <1>1, <2>2 DEF GoesOn, LeaveRegs
    <2>3. CASE op.call = "BRKPT" /\ regs2' = [regs2 EXCEPT ![p] = Saved(regs2[p], 1, T_BRKPT)]
      BY <1>1, <2>3 DEF GoesOn, LeaveRegs
    <2>4. CASE op.call = "ILLOP" /\ regs2' = [regs2 EXCEPT ![p] = Saved(regs2[p], -1, T_ILLOP)]
      BY <1>1, <2>4 DEF GoesOn, LeaveRegs
    <2>5. CASE op.call = "UNDEF"
               /\ regs2' = [regs2 EXCEPT ![p] = Saved(Complete(regs2[p]), -1, T_SYSCALL)]
      BY <1>1, <2>5 DEF GoesOn, LeaveRegs
    <2>6. CASE op.call = "CPUTS" /\ op.regs \in {"bad", "fault"}
               /\ regs2' = [regs2 EXCEPT ![p] = One!AfterCall(regs2[p], op, T_PGFLT)]
      BY <1>1, <2>6 DEF GoesOn, LeaveRegs
    <2> QED BY <1>1, <2>1, <2>2, <2>3, <2>4, <2>5, <2>6, SameMachine, SameCalls DEF Two!Leave
  <1>4. /\ live2' = live2 /\ leaving2' = leaving2 \cup {p}
        /\ smem2' = smem2 /\ snap2' = snap2
    BY DEF Two!Leave
  <1>5. r \in Regs
    <2>1. Complete(regs2[p]) \in Regs /\ One!AfterCall(regs2[p], op, T_PGFLT) \in Regs
      BY <1>2, RegsClosed, CallRegs
    <2>2. T_SYSCALL \in Traps /\ T_BRKPT \in Traps /\ T_ILLOP \in Traps
      BY DEF Traps
    <2>3. /\ Saved(regs2[p], 1, T_SYSCALL) \in Regs /\ Saved(regs2[p], 1, T_BRKPT) \in Regs
          /\ Saved(regs2[p], -1, T_ILLOP) \in Regs
          /\ Saved(Complete(regs2[p]), -1, T_SYSCALL) \in Regs
      BY <1>2, <2>1, <2>2, RegsClosed
    <2> QED BY <1>1, <2>1, <2>3 DEF LeaveRegs
  <1>6. Shape2'
    <2>1. regs2' \in [Procs -> Regs]
      BY <1>2, <1>3, <1>5
    <2> QED BY <1>2, <1>4, <2>1 DEF Shape2, Shape
  <1>7. \A q \in Procs :
           /\ Loc2[q] = State(Mode(q, live2, leaving2), regs2[q], smem2[q], snap2[q])
           /\ Loc2'[q] = State(Mode(q, live2, leaving2 \cup {p}), regs2'[q], smem2[q], snap2[q])
    BY <1>4 DEF Loc2
  <1>8. Loc2[p] = State("live", regs2[p], smem2[p], snap2[p])
    BY <1>2, <1>7 DEF Mode
  <1>9. /\ Loc2[p].mode = "live" /\ Loc2[p].regs = regs2[p] /\ Loc2[p].mem = smem2[p]
        /\ Loc2[p].snap = snap2[p]
    BY <1>8 DEF State
  <1>10. ~Puts(Loc2[p]) /\ ~Gets(Loc2[p])
    BY <1>1, <1>3, <1>9 DEF Puts, Gets, Calls
  <1>11. Loc2'[p] = AfterOwn(p, Loc2[p])
    <2>1. Mode(p, live2, leaving2 \cup {p}) = "leaving"
      BY DEF Mode
    <2>2. Loc2'[p] = State("leaving", r, smem2[p], snap2[p])
      BY <1>2, <1>3, <1>7, <2>1
    <2> QED BY <1>1, <1>3, <1>9, <2>2 DEF AfterOwn
  <1>12. ASSUME NEW q \in Procs \ {p} PROVE Loc2'[q] = Loc2[q]
    <2>1. regs2'[q] = regs2[q] /\ Mode(q, live2, leaving2 \cup {p}) = Mode(q, live2, leaving2)
      BY <1>2, <1>3 DEF Mode
    <2> QED BY <1>7, <2>1
  <1> QED BY <1>2, <1>6, <1>9, <1>10, <1>11, <1>12 DEF Moves

LEMMA StopMoves2 ==
    ASSUME Shape2, NEW p \in live2, Two!Stop(p)
    PROVE  Shape2' /\ Moves(Loc2, p, Loc2') /\ p \in leaving2
  <1>1. /\ p \in Procs /\ live2 \subseteq Procs /\ leaving2 \subseteq live2
        /\ p \in leaving2
        /\ live2' = live2 \ {p} /\ leaving2' = leaving2 \ {p}
        /\ regs2' = regs2 /\ smem2' = smem2 /\ snap2' = snap2
    BY DEF Shape2, Shape, Two!Stop
  <1>2. Shape2'
    BY <1>1 DEF Shape2, Shape
  <1>3. \A q \in Procs :
           /\ Loc2[q] = State(Mode(q, live2, leaving2), regs2[q], smem2[q], snap2[q])
           /\ Loc2'[q] = State(Mode(q, live2 \ {p}, leaving2 \ {p}), regs2[q], smem2[q], snap2[q])
    BY <1>1 DEF Loc2
  <1>4. Loc2[p] = State("leaving", regs2[p], smem2[p], snap2[p])
    BY <1>1, <1>3 DEF Mode
  <1>5. /\ Loc2[p].mode = "leaving" /\ Loc2[p].regs = regs2[p] /\ Loc2[p].mem = smem2[p]
        /\ Loc2[p].snap = snap2[p]
    BY <1>4 DEF State
  <1>6. ~Puts(Loc2[p]) /\ ~Gets(Loc2[p])
    BY <1>5 DEF Puts, Gets, Calls
  <1>7. Loc2'[p] = AfterOwn(p, Loc2[p])
    <2>1. Mode(p, live2 \ {p}, leaving2 \ {p}) = "stopped"
      BY DEF Mode
    <2> QED BY <1>1, <1>3, <1>5, <2>1 DEF AfterOwn
  <1>8. ASSUME NEW q \in Procs \ {p} PROVE Loc2'[q] = Loc2[q]
    <2>1. Mode(q, live2 \ {p}, leaving2 \ {p}) = Mode(q, live2, leaving2)
      BY DEF Mode
    <2> QED BY <1>3, <2>1
  <1> QED BY <1>1, <1>2, <1>5, <1>6, <1>7, <1>8 DEF Moves

LEMMA GetMoves2 ==
    ASSUME NoHalfCopy, Shape2, NEW p \in live2, p \notin leaving2, Two!Get(p)
    PROVE  Shape2' /\ Moves(Loc2, p, Loc2')
  <1>1. PICK op, k, trapno, r, m :
           /\ op = OpOf(regs2[p]) /\ k = op.child /\ trapno = One!GetTrap(op)
           /\ r = One!AfterCall(regs2[p], op, trapno)
           /\ m = One!GetMemory(op, One!GetRegsMemory(op, smem2[p], regs2[k]), smem2[k], snap2[k])
    OBVIOUS
  <1>2. /\ p \in Procs /\ regs2[p] \in Regs /\ regs2 \in [Procs -> Regs]
        /\ smem2 = [q \in Procs |-> smem2[q]] /\ snap2 = [q \in Procs |-> snap2[q]]
        /\ live2 \subseteq Procs /\ leaving2 \subseteq live2
    BY DEF Shape2, Shape
  <1>3. /\ op.call = "GET" /\ k \in Procs /\ Parent[k] = p /\ k \notin live2
        /\ regs2' = [regs2 EXCEPT ![p] = r]
        /\ smem2' = [smem2 EXCEPT ![p] = m]
        /\ leaving2' = IF trapno = 0 THEN leaving2 ELSE leaving2 \cup {p}
        /\ live2' = live2 /\ snap2' = snap2
    <2>1. op.call = "GET" /\ op.regs # "fault"
      BY <1>1, <1>2, SameMachine DEF Two!Get, NoHalfCopy
    <2>2. Two!GotRegs(op, smem2[p], regs2[k]) = {One!GetRegsMemory(op, smem2[p], regs2[k])}
      BY <2>1, SameCalls DEF Two!GotRegs
    <2>3. \E n \in Two!GotRegs(op, smem2[p], regs2[k]) :
             smem2' = [smem2 EXCEPT ![p] = Two!GetMemory(op, n, smem2[k], snap2[k])]
      BY <1>1, SameMachine DEF Two!Get
    <2>4. smem2' = [smem2 EXCEPT ![p] = m]
      BY <1>1, <2>2, <2>3, SameCalls
    <2> QED BY <1>1, <2>4, SameMachine, SameCalls DEF Two!Get
  <1>4. r \in Regs
    BY <1>1, <1>2, CallRegs
  <1>5. Shape2'
    <2>1. regs2' \in [Procs -> Regs] /\ smem2' = [q \in Procs |-> smem2'[q]]
      BY <1>2, <1>3, <1>4
    <2> QED BY <1>2, <1>3, <2>1 DEF Shape2, Shape
  <1>6. \A q \in Procs :
           /\ Loc2[q] = State(Mode(q, live2, leaving2), regs2[q], smem2[q], snap2[q])
           /\ Loc2'[q] = State(Mode(q, live2, leaving2'), regs2'[q], smem2'[q], snap2[q])
    BY <1>3 DEF Loc2
  <1>7. /\ Loc2[p] = State("live", regs2[p], smem2[p], snap2[p])
        /\ Loc2[k] = State("stopped", regs2[k], smem2[k], snap2[k])
    BY <1>2, <1>3, <1>6 DEF Mode
  <1>8. /\ Loc2[p].mode = "live" /\ Loc2[p].regs = regs2[p] /\ Loc2[p].mem = smem2[p]
        /\ Loc2[p].snap = snap2[p]
        /\ Loc2[k].mode = "stopped" /\ Loc2[k].regs = regs2[k] /\ Loc2[k].mem = smem2[k]
        /\ Loc2[k].snap = snap2[k]
    BY <1>7 DEF State
  <1>9. ~Puts(Loc2[p]) /\ Gets(Loc2[p]) /\ Child(Loc2[p]) = k
    BY <1>1, <1>3, <1>8 DEF Puts, Gets, Calls, Child
  <1>10. Loc2'[p] = AfterGet(Loc2[p], Loc2[k])
    <2>1. Mode(p, live2, leaving2') = IF trapno = 0 THEN "live" ELSE "leaving"
      BY <1>3 DEF Mode
    <2>2. Loc2'[p] = State(IF trapno = 0 THEN "live" ELSE "leaving", r, m, snap2[p])
      BY <1>2, <1>3, <1>6, <2>1
    <2> QED BY <1>1, <1>8, <2>2 DEF AfterGet
  <1>11. ASSUME NEW q \in Procs \ {p} PROVE Loc2'[q] = Loc2[q]
    <2>1. /\ regs2'[q] = regs2[q] /\ smem2'[q] = smem2[q]
          /\ Mode(q, live2, leaving2') = Mode(q, live2, leaving2)
      BY <1>2, <1>3 DEF Mode
    <2> QED BY <1>6, <2>1
  <1> QED BY <1>2, <1>3, <1>5, <1>8, <1>9, <1>10, <1>11 DEF Moves

LEMMA PutMoves2 ==
    ASSUME NoHalfCopy, Shape2, NEW p \in live2, p \notin leaving2, Two!Put(p)
    PROVE  Shape2' /\ Moves(Loc2, p, Loc2')
  <1>1. PICK op, k, trapno, r, cm, l :
           /\ op = OpOf(regs2[p]) /\ k = op.child /\ trapno = One!PutTrap(op)
           /\ r = One!AfterCall(regs2[p], op, trapno)
           /\ cm = One!PutMemory(op, smem2[p], smem2[k])
           /\ l = IF op.regs = "copy" THEN EntryRegs(op.prog) ELSE regs2[k]
    OBVIOUS
  <1>2. /\ p \in Procs /\ regs2[p] \in Regs /\ regs2 \in [Procs -> Regs]
        /\ smem2 = [q \in Procs |-> smem2[q]] /\ snap2 = [q \in Procs |-> snap2[q]]
        /\ live2 \subseteq Procs /\ leaving2 \subseteq live2
    BY DEF Shape2, Shape
  <1>3. /\ op.call = "PUT" /\ k \in Procs /\ Parent[k] = p /\ k \notin live2
        /\ smem2' = [smem2 EXCEPT ![k] = cm]
        /\ snap2' = IF trapno = 0 /\ op.snap THEN [snap2 EXCEPT ![k] = cm] ELSE snap2
        /\ live2' = IF trapno = 0 /\ op.start THEN live2 \cup {k} ELSE live2
        /\ leaving2' = IF trapno = 0 THEN leaving2 ELSE leaving2 \cup {p}
    BY <1>1, SameMachine, SameCalls DEF Two!Put
  <1>4. k # p
    BY <1>2, <1>3, NotOwnChild
  <1>5. op.regs # "fault"
    BY <1>1, <1>2, <1>3 DEF NoHalfCopy
  <1>6. regs2' = [regs2 EXCEPT ![k] = IF trapno = 0 /\ op.start THEN Resume(l) ELSE l,
                               ![p] = r]
    BY <1>1, <1>4, <1>5, SameMachine, SameCalls DEF Two!Put
  <1>7. r \in Regs /\ l \in Regs /\ Resume(l) \in Regs
    <2>1. r \in Regs /\ l \in Regs
      BY <1>1, <1>2, <1>3, CallRegs, OpTyped
    <2> QED BY <2>1, RegsClosed
  <1>8. Shape2'
    <2>1. regs2' \in [Procs -> Regs] /\ smem2' = [q \in Procs |-> smem2'[q]]
      BY <1>2, <1>3, <1>6, <1>7
    <2>2. snap2' = [q \in Procs |-> snap2'[q]]
      <3>1. CASE trapno = 0 /\ op.snap
        BY <1>2, <1>3, <3>1
      <3>2. CASE ~(trapno = 0 /\ op.snap)
        BY <1>2, <1>3, <3>2
      <3> QED BY <3>1, <3>2
    <2> QED BY <1>2, <1>3, <2>1, <2>2 DEF Shape2, Shape
  <1>9. \A q \in Procs :
           /\ Loc2[q] = State(Mode(q, live2, leaving2), regs2[q], smem2[q], snap2[q])
           /\ Loc2'[q] = State(Mode(q, live2', leaving2'), regs2'[q], smem2'[q], snap2'[q])
    BY DEF Loc2
  <1>10. /\ Loc2[p] = State("live", regs2[p], smem2[p], snap2[p])
         /\ Loc2[k] = State("stopped", regs2[k], smem2[k], snap2[k])
    BY <1>2, <1>3, <1>9 DEF Mode
  <1>11. /\ Loc2[p].mode = "live" /\ Loc2[p].regs = regs2[p] /\ Loc2[p].mem = smem2[p]
         /\ Loc2[p].snap = snap2[p]
         /\ Loc2[k].mode = "stopped" /\ Loc2[k].regs = regs2[k] /\ Loc2[k].mem = smem2[k]
         /\ Loc2[k].snap = snap2[k]
    BY <1>10 DEF State
  <1>12. Puts(Loc2[p]) /\ ~Gets(Loc2[p]) /\ Child(Loc2[p]) = k
    BY <1>1, <1>3, <1>11 DEF Puts, Gets, Calls, Child
  <1>13. Loc2'[p] = AfterOwn(p, Loc2[p])
    <2>1. Mode(p, live2', leaving2') = IF trapno = 0 THEN "live" ELSE "leaving"
      BY <1>3 DEF Mode
    <2>2. regs2'[p] = r /\ smem2'[p] = smem2[p] /\ snap2'[p] = snap2[p]
      BY <1>2, <1>3, <1>4, <1>6
    <2>3. Loc2'[p] = State(IF trapno = 0 THEN "live" ELSE "leaving", r, smem2[p], snap2[p])
      BY <1>2, <1>9, <2>1, <2>2
    <2>4. AfterOwn(p, Loc2[p]) = AfterPut(Loc2[p])
      BY <1>1, <1>3, <1>11 DEF AfterOwn
    <2> QED BY <1>1, <1>11, <2>3, <2>4 DEF AfterPut
  <1>14. Loc2'[k] = PutInto(Loc2[p], Loc2[k])
    <2>1. Mode(k, live2', leaving2') = IF trapno = 0 /\ op.start THEN "live" ELSE "stopped"
      BY <1>2, <1>3, <1>4 DEF Mode
    <2>2. /\ regs2'[k] = IF trapno = 0 /\ op.start THEN Resume(l) ELSE l
          /\ smem2'[k] = cm
          /\ snap2'[k] = IF trapno = 0 /\ op.snap THEN cm ELSE snap2[k]
      BY <1>2, <1>3, <1>4, <1>6
    <2>3. Loc2'[k] = State(IF trapno = 0 /\ op.start THEN "live" ELSE "stopped",
                           IF trapno = 0 /\ op.start THEN Resume(l) ELSE l, cm,
                           IF trapno = 0 /\ op.snap THEN cm ELSE snap2[k])
      BY <1>3, <1>9, <2>1, <2>2
    <2> QED BY <1>1, <1>11, <2>3 DEF PutInto
  <1>15. ASSUME NEW q \in Procs \ {p}, q # k PROVE Loc2'[q] = Loc2[q]
    <2>1. /\ regs2'[q] = regs2[q] /\ smem2'[q] = smem2[q] /\ snap2'[q] = snap2[q]
          /\ Mode(q, live2', leaving2') = Mode(q, live2, leaving2)
      BY <1>2, <1>3, <1>6, <1>15 DEF Mode
    <2> QED BY <1>9, <2>1
  <1> QED BY <1>2, <1>3, <1>4, <1>8, <1>11, <1>12, <1>13, <1>14, <1>15 DEF Moves

LEMMA StepMoves2 ==
    ASSUME NoHalfCopy, Shape2, NEW p \in live2, Step2(p), age2 \in [Procs -> Nat]
    PROVE  Shape2' /\ Moves(Loc2, p, Loc2') /\ Ages(Loc2, p, age2, age2')
  <1>1. Shape2' /\ Moves(Loc2, p, Loc2')
    BY LocalMoves2, LeaveMoves2, StopMoves2, GetMoves2, PutMoves2 DEF Step2, Two!Step
  <1>2. /\ p \in Procs /\ live2 \subseteq Procs /\ leaving2 \subseteq live2
        /\ Loc2[p].mode = (IF p \in leaving2 THEN "leaving" ELSE "live")
        /\ Loc2[p].regs = regs2[p]
    BY DEF Shape2, Shape, Loc2, State, Mode
  <1>3. PICK k : k = OpOf(regs2[p]).child
    OBVIOUS
  <1>4. /\ Puts(Loc2[p]) <=> p \notin leaving2 /\ OpOf(regs2[p]).call = "PUT"
        /\ Child(Loc2[p]) = k
    BY <1>2, <1>3 DEF Puts, Calls, Child
  <1>5. \A q \in Procs : age2'[q] = IF q \in Two!Touched(p) THEN age2[q] + 1 ELSE age2[q]
    BY DEF Step2
  <1>6. \A q \in Procs : q \in Two!Touched(p) <=> q = p \/ (Puts(Loc2[p]) /\ q = k)
    BY <1>2, <1>3, <1>4, SameMachine DEF Two!Touched
  <1>7. Puts(Loc2[p]) => k \in Procs
    BY <1>1, <1>4 DEF Moves
  <1> QED BY <1>1, <1>2, <1>4, <1>5, <1>6, <1>7 DEF Ages
-----------------------------------------------------------------------------
(* Both executions together *)

DInv ==
    /\ Shape1 /\ Shape2
    /\ age1 \in [Procs -> Nat] /\ age2 \in [Procs -> Nat]
    /\ OneHistory

LEMMA InitOneHistory == DInit => DInv
  <1> SUFFICES ASSUME DInit PROVE DInv
    OBVIOUS
  <1>1. /\ live1 = {Root} /\ leaving1 = {} /\ live2 = {Root} /\ leaving2 = {}
        /\ smem1 = smem2 /\ snap1 = snap2 /\ regs1 = regs2
        /\ smem1 = [p \in Procs |-> One!ZeroMem] /\ snap1 = [p \in Procs |-> One!ZeroMem]
    BY DEF DInit, One!SInit, Two!SInit, One!ZeroMem, Two!ZeroMem, One!Zero, Two!Zero
  <1>2. PICK prog \in RootProgs : regs1 = BootRegs(prog)
    BY SameMachine DEF DInit, One!SInit
  <1>3. regs1 \in [Procs -> Regs]
    <2>1. EntryRegs(prog) \in Regs /\ ZeroFrame \in Regs
      BY ConstAssumption DEF EntryRegs, Regs, Traps
    <2> QED BY <1>2, <2>1 DEF BootRegs
  <1>4. Shape1 /\ Shape2
    BY <1>1, <1>3, ConstAssumption DEF Shape1, Shape2, Shape
  <1>5. Loc1 = Loc2
    BY <1>1 DEF Loc1, Loc2
  <1>6. age1 = age2 /\ \A p \in Procs : age1[p] = 0
    BY DEF DInit
  <1>7. PICK h, S : /\ h = [p \in Procs |-> [i \in Nat |-> Loc1[p]]]
                    /\ S = [p \in Procs |-> [i \in Nat |-> 0]]
    OBVIOUS
  <1>8. Follows(h, S, Loc1, age1)
    <2>1. Placed(h, Loc1, age1)
      <3> SUFFICES ASSUME NEW p \in Procs
                   PROVE  age1[p] \in Nat /\ Loc1[p] = h[p][age1[p]]
        BY DEF Placed
      <3>1. age1[p] = 0 /\ age1[p] \in Nat
        BY <1>6
      <3>2. \A i \in Nat : h[p][i] = Loc1[p]
        BY <1>7
      <3> QED BY <3>1, <3>2
    <2>2. \A p \in Procs : \A t \in Nat : ~(t < age1[p])
      BY <1>6
    <2>3. CallsFind(h, S, age1) /\ CallsInOrder(h, S, age1)
      BY <2>2 DEF CallsFind, CallsInOrder
    <2>4. StoppedWaits(h, S, age1) /\ OthersStep(h, S, age1)
      BY <2>2 DEF StoppedWaits, OthersStep
    <2> QED BY <2>1, <2>3, <2>4 DEF Follows
  <1>9. OneHistory
    BY <1>5, <1>6, <1>8 DEF OneHistory
  <1> QED BY <1>4, <1>9 DEF DInv, DInit

LEMMA StepOneHistory == ASSUME NoHalfCopy PROVE DInv /\ [DNext]_dvars => DInv'
  <1> SUFFICES ASSUME DInv, [DNext]_dvars PROVE DInv'
    OBVIOUS
  <1>1. PICK h, S : Follows(h, S, Loc1, age1) /\ Follows(h, S, Loc2, age2)
    BY DEF DInv, OneHistory
  <1>2. ASSUME NEW p \in live1, Step1(p) PROVE DInv'
    <2>1. Shape1' /\ Moves(Loc1, p, Loc1') /\ Ages(Loc1, p, age1, age1')
      BY <1>2, StepMoves1 DEF DInv
    <2>2. /\ live2' = live2 /\ leaving2' = leaving2 /\ regs2' = regs2 /\ smem2' = smem2
          /\ snap2' = snap2 /\ age2' = age2 /\ age1' \in [Procs -> Nat]
      BY <1>2 DEF Step1, vars2, DInv
    <2>3. Loc2' = Loc2 /\ Shape2'
      BY <2>2 DEF Loc2, Shape2, Shape, DInv
    <2>4. \E g, R : Follows(g, R, Loc1', age1') /\ Follows(g, R, Loc2, age2)
      BY <1>1, <2>1, StepKeeps
    <2>5. OneHistory'
      BY <2>2, <2>3, <2>4 DEF OneHistory
    <2> QED BY <2>1, <2>2, <2>3, <2>5 DEF DInv
  <1>3. ASSUME NEW p \in live2, Step2(p) PROVE DInv'
    <2>1. Shape2' /\ Moves(Loc2, p, Loc2') /\ Ages(Loc2, p, age2, age2')
      BY <1>3, StepMoves2 DEF DInv
    <2>2. /\ live1' = live1 /\ leaving1' = leaving1 /\ regs1' = regs1 /\ smem1' = smem1
          /\ snap1' = snap1 /\ age1' = age1 /\ age2' \in [Procs -> Nat]
      BY <1>3 DEF Step2, vars1, DInv
    <2>3. Loc1' = Loc1 /\ Shape1'
      BY <2>2 DEF Loc1, Shape1, Shape, DInv
    <2>4. \E g, R : Follows(g, R, Loc2', age2') /\ Follows(g, R, Loc1, age1)
      BY <1>1, <2>1, StepKeeps
    <2>5. OneHistory'
      BY <2>2, <2>3, <2>4 DEF OneHistory
    <2> QED BY <2>1, <2>2, <2>3, <2>5 DEF DInv
  <1>4. CASE UNCHANGED dvars
    BY <1>4 DEF dvars, vars1, vars2, DInv, Shape1, Shape2, Shape, OneHistory, Loc1, Loc2
  <1> QED BY <1>2, <1>3, <1>4 DEF DNext

LEMMA HistoryDetermines == DInv => Deterministic
  <1> SUFFICES ASSUME DInv, NEW p \in Procs, age1[p] = age2[p]
               PROVE  /\ Same(p) /\ (p \in live1 <=> p \in live2)
                      /\ \A k \in Procs \ (live1 \cup live2) : Parent[k] = p =>
                            Same(k) /\ age1[k] = age2[k]
    BY DEF Deterministic
  <1>1. PICK h, S : Follows(h, S, Loc1, age1) /\ Follows(h, S, Loc2, age2)
    BY DEF DInv, OneHistory
  <1>2. ASSUME NEW q \in Procs, age1[q] = age2[q]
        PROVE  Same(q) /\ (q \in live1 <=> q \in live2)
    <2>1. Loc1[q] = Loc2[q]
      BY <1>1, <1>2 DEF Follows, Placed
    <2>2. /\ Loc1[q].regs = regs1[q] /\ Loc1[q].mem = smem1[q] /\ Loc1[q].snap = snap1[q]
          /\ Loc2[q].regs = regs2[q] /\ Loc2[q].mem = smem2[q] /\ Loc2[q].snap = snap2[q]
      BY DEF Loc1, Loc2, State
    <2>3. Loc1[q].mode = "stopped" <=> q \notin live1
      BY DEF Loc1, State, Mode, DInv, Shape1, Shape
    <2>4. Loc2[q].mode = "stopped" <=> q \notin live2
      BY DEF Loc2, State, Mode, DInv, Shape2, Shape
    <2> QED BY <2>1, <2>2, <2>3, <2>4 DEF Same
  <1>3. ASSUME NEW k \in Procs \ (live1 \cup live2), Parent[k] = p
        PROVE  age1[k] = age2[k]
    <2>1. Loc1[k].mode = "stopped" /\ Loc2[k].mode = "stopped"
      BY DEF Loc1, Loc2, State, Mode, DInv, Shape1, Shape2, Shape
    <2>2. /\ age1[p] \in Nat /\ age2[p] \in Nat /\ age1[k] \in Nat /\ age2[k] \in Nat
          /\ age1[p] <= age2[p] /\ age2[p] <= age1[p]
      BY DEF DInv
    <2>3. age2[k] <= age1[k]
      BY <1>1, <1>3, <2>1, <2>2, NotPast
    <2>4. age1[k] <= age2[k]
      BY <1>1, <1>3, <2>1, <2>2, NotPast
    <2> QED BY <2>2, <2>3, <2>4
  <1> QED BY <1>2, <1>3

(* Whatever the schedules, two executions of one program agree: after the
   same number of events a process is in the same state in both, and a child
   that has stopped in both is in the state in which PUT and GET of its parent
   will find it (do_put, do_get and proc_ret, as Spaces describes them). *)
THEOREM SameResults == ASSUME NoHalfCopy PROVE DSpec => []Deterministic
  <1>1. DInv /\ [DNext]_dvars => DInv'
    BY StepOneHistory
  <1> QED BY <1>1, InitOneHistory, HistoryDetermines, PTL DEF DSpec
=============================================================================
