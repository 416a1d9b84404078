----------------------------- MODULE NetProofs -----------------------------
(***************************************************************************)
(* Proofs about Net, for channels that lose nothing: however often the     *)
(* clock retransmits, wherever processes go and however many there are, a  *)
(* process is on one node, goes on with the registers it left with, and is *)
(* not forgotten unless an assertion has failed.                           *)
(*                                                                         *)
(* The argument is about the order of packets in a channel.  A node that   *)
(* has accepted a process asks the old node for its page directory, and    *)
(* the old node serves the request after the MIGRP that came before it.    *)
(* So no MIGRQ is sent after the directory, and when the directory arrives *)
(* no MIGRQ is left anywhere.  It must be the right directory: no page is  *)
(* reused, and no reference to a directory is taken for one to a page.     *)
(***************************************************************************)
EXTENDS Net, TLAPS, FiniteSetTheorems, SequenceTheorems

(* The processes on the pull list of n. *)
Listed(n) == {pulllist[n][i] : i \in 1 .. Len(pulllist[n])}

(* The reference by which p's page directory at n is known elsewhere. *)
DirRR(n, p) == RR(n, proc[n][p].pml4)

IsMigrq(m, p) == m.type = "MIGRQ" /\ m.p = p
IsMigrp(m, p) == m.type = "MIGRP" /\ m.p = p
Asks(m, rr) == m.type = "PULLRQ" /\ m.rr = rr
Brings(m, rr) == m.type = "PULLRP" /\ m.rr = rr

-----------------------------------------------------------------------------
(* The shape of a state.  A has the pages ever allocated at each node, D those
   of them that are page directories.  No page is freed. *)

Grow(A, D, A2, D2) ==
    /\ A2 \in [Nodes -> SUBSET Addrs] /\ D2 \in [Nodes -> SUBSET Addrs]
    /\ \A n \in Nodes : D[n] \subseteq A[n] /\ D2[n] \subseteq A2[n] /\ A[n] \subseteq A2[n]
    /\ \A n \in Nodes : \A a \in A[n] : a \in D2[n] <=> a \in D[n]

(* What a word of a page may be: contents, a reference to a page of another
   node, or an entry of a directory of n. *)
Plain(w) == w.k \in {"data", "zero"}
DataRef(A, D, w) == w.k = "remote" /\ w.n \in Nodes /\ w.a \in A[w.n] /\ w.a \notin D[w.n]
RemoteOK(A, D, w) == w = ZeroRR \/ DataRef(A, D, w)
EntryOK(A, D, n, w) ==
    \/ w = Zero \/ RemoteOK(A, D, w)
    \/ w.k = "local" /\ w.a \in A[n] /\ w.a \notin D[n]

PageOK(A, D, n, a, pg) ==
    /\ a \in A[n] => pg.ref # 0 \/ pg.shared # {}
    /\ \/ pg.home = NoRR
       \/ a \in A[n] /\ a \notin D[n] /\ DataRef(A, D, pg.home)
    /\ \A i \in Parts : IF a \in D[n] THEN EntryOK(A, D, n, pg.data[i]) ELSE Plain(pg.data[i])

PacketOK(A, D, c, m) ==
    /\ m.type = "MIGRQ" => m.pml4.k = "remote" /\ m.pml4.n = c[1] /\ m.pml4.a \in D[c[1]]
    /\ m.type = "PULLRQ" =>
         /\ m.rr.k = "remote" /\ m.rr.n = c[2] /\ m.rr.a \in A[c[2]]
         /\ m.level = "PDIR" <=> m.rr.a \in D[c[2]]
    /\ m.type = "PULLRP" =>
         /\ m.rr.k = "remote" /\ m.rr.n = c[1] /\ m.rr.a \in A[c[1]]
         /\ IF m.rr.a \in D[c[1]] THEN RemoteOK(A, D, m.data) ELSE Plain(m.data)

(* A pull of a directory, before anything else, or of a page. *)
PullOK(A, D, n, r) ==
    /\ r.state = "PULL"
    /\ r.pullrr.k = "remote" /\ r.pullrr.n \in Nodes /\ r.pullrr.n # n
    /\ r.pullrr.a \in A[r.pullrr.n]
    /\ \/ r.pullpg = r.pml4 /\ r.pullrr.a \in D[r.pullrr.n] /\ r.pullva = 0
       \/ r.pullpg \in A[n] /\ r.pullpg \notin D[n] /\ r.pullrr.a \notin D[r.pullrr.n]

ProcOK(A, D, n, p, r) ==
    /\ r.pml4 = 0 \/ r.pml4 \in D[n]
    /\ r.state \in {"READY", "RUN", "PULL", "MIGR"} => r.pml4 # 0
    /\ r.state = "MIGR" => r.migrdest \in Nodes
    /\ rx[n] = p => r.state = "PULL" /\ p \notin Listed(n)
    /\ p \in Listed(n) => PullOK(A, D, n, r)
    /\ \A va \in Parts :
         (r.state \in {"READY", "RUN"} \/ (r.state = "PULL" /\ va < r.pullva)) =>
         page[n][r.pml4].data[va].k # "remote"

Shape(A, D) ==
    /\ Grow(A, D, A, D)
    /\ \A n \in Nodes, a \in Addrs : PageOK(A, D, n, a, page[n][a])
    /\ \A c \in Channels : \A i \in 1 .. Len(net[c]) : PacketOK(A, D, c, net[c][i])
    /\ \A n \in Nodes, p \in Procs : ProcOK(A, D, n, p, proc[n][p])
    /\ \A n \in Nodes, p, q \in Procs :
         p # q /\ proc[n][p].pml4 # 0 => proc[n][p].pml4 # proc[n][q].pml4
    /\ \A n \in Nodes : \A i, j \in 1 .. Len(pulllist[n]) :
         pulllist[n][i] = pulllist[n][j] => i = j

-----------------------------------------------------------------------------
(* The way of a process.  It is held by one node (Held); or it has left s for
   d, which has not accepted it (InTransit); or d has accepted it and pulls its
   directory from s (Arriving). *)

DirPull(n, p) == p \in Listed(n) /\ proc[n][p].pullpg = proc[n][p].pml4

(* x no longer has p, and its last directory there has been shared. *)
Gone(x, p) ==
    /\ IsAway(proc[x][p].state)
    /\ proc[x][p].pml4 = 0 \/ page[x][proc[x][p].pml4].shared # {}

NoMigrq(p) == \A c \in Channels : \A i \in 1 .. Len(net[c]) : ~IsMigrq(net[c][i], p)
Unasked(rr) ==
    \A c \in Channels : \A i \in 1 .. Len(net[c]) :
      ~Asks(net[c][i], rr) /\ ~Brings(net[c][i], rr)

(* s has sent p to d. *)
Sent(s, d, p) ==
    /\ s \in Nodes /\ d \in Nodes /\ s # d
    /\ proc[s][p].state \in {"MIGR", "AWAY"} /\ proc[s][p].pml4 # 0
    /\ proc[s][p].state = "MIGR" => proc[s][p].migrdest = d

Held(n, p) ==
    /\ n \in Nodes
    /\ proc[n][p].state \in {"READY", "RUN", "PULL"} /\ ~DirPull(n, p)
    /\ proc[n][p].sv = done[p]
    /\ \A x \in Nodes \ {n} : Gone(x, p)
    /\ NoMigrq(p)
    /\ Unasked(DirRR(n, p))

InTransit(s, d, p) ==
    /\ Sent(s, d, p) /\ proc[s][p].sv = done[p]
    /\ \A x \in Nodes \ {s} : Gone(x, p)
    /\ \A c \in Channels : \A i \in 1 .. Len(net[c]) : IsMigrq(net[c][i], p) =>
         c = <<s, d>> /\ net[c][i].pml4 = DirRR(s, p) /\ net[c][i].sv = done[p]
    /\ Unasked(DirRR(s, p))
    /\ panicked # {} \/ \E i \in 1 .. Len(net[<<s, d>>]) : IsMigrq(net[<<s, d>>][i], p)

(* No MIGRQ is behind the directory, and a node that still sends MIGRQ has a
   MIGRP before it and has not sent the directory. *)
Arriving(s, d, p) ==
    /\ Sent(s, d, p)
    /\ proc[d][p].state = "PULL" /\ DirPull(d, p) /\ proc[d][p].pullrr = DirRR(s, p)
    /\ proc[d][p].sv = done[p]
    /\ \A x \in Nodes \ {s, d} : Gone(x, p)
    /\ \A c \in Channels : \A i \in 1 .. Len(net[c]) : IsMigrq(net[c][i], p) => c = <<s, d>>
    /\ \A i, j \in 1 .. Len(net[<<s, d>>]) :
         i < j /\ Brings(net[<<s, d>>][i], DirRR(s, p)) => ~IsMigrq(net[<<s, d>>][j], p)
    /\ proc[s][p].state = "MIGR" =>
         /\ \E i \in 1 .. Len(net[<<d, s>>]) :
              /\ IsMigrp(net[<<d, s>>][i], p)
              /\ \A j \in 1 .. i : ~Asks(net[<<d, s>>][j], DirRR(s, p))
         /\ \A i \in 1 .. Len(net[<<s, d>>]) : ~Brings(net[<<s, d>>][i], DirRR(s, p))
    /\ \A i \in 1 .. Len(net[<<s, d>>]) : Brings(net[<<s, d>>][i], DirRR(s, p)) =>
         page[s][proc[s][p].pml4].shared # {}
    /\ Unasked(DirRR(d, p))

Way(p) ==
    \/ \E n \in Nodes : Held(n, p)
    \/ \E s, d \in Nodes : InTransit(s, d, p)
    \/ \E s, d \in Nodes : Arriving(s, d, p)

NetInv ==
    /\ TypeOK
    /\ budget.loss = 0
    /\ \E A, D : Shape(A, D)
    /\ \A p \in Procs : Way(p)

-----------------------------------------------------------------------------
(* Sequences *)

(* The sequence that SetToSeq chooses. *)
LEMMA SetToSeqType ==
    ASSUME NEW S, IsFiniteSet(S)
    PROVE  SetToSeq(S) \in Seq(S)
  <1>1. /\ Cardinality(S) \in Nat
        /\ \E f \in [1 .. Cardinality(S) -> S] : IsInjective(f)
    BY FS_CardinalityType DEF ExistsBijection, Bijection, Injection, IsInjective
  <1>2. SetToSeq(S) \in [1 .. Cardinality(S) -> S]
    BY <1>1 DEF SetToSeq
  <1> QED BY <1>1, <1>2, SeqDef

(* A function on 1 .. n is a sequence. *)
LEMMA FunctionSeq ==
    ASSUME NEW T, NEW n \in Nat, NEW f \in [1 .. n -> T]
    PROVE  f \in Seq(T) /\ Len(f) = n
  <1>1. f \in Seq(T)
    BY SeqDef
  <1>2. Len(f) \in Nat /\ 1 .. Len(f) = 1 .. n
    BY <1>1, LenProperties
  <1> QED BY <1>1, <1>2

(* The first k elements of s, which are none or one, go, and out is added. *)
Moves(s, k, out, t) ==
    /\ k \in {0, 1} /\ k <= Len(s)
    /\ Len(t) = Len(s) - k + Len(out)
    /\ \A i \in 1 .. Len(t) :
         t[i] = IF i <= Len(s) - k THEN s[i + k] ELSE out[i - (Len(s) - k)]

LEMMA AppendMoves ==
    ASSUME NEW T, NEW s \in Seq(T), NEW out \in Seq(T)
    PROVE  s \o out \in Seq(T) /\ Moves(s, 0, out, s \o out)
  <1>1. Len(s) \in Nat /\ Len(out) \in Nat
    BY LenProperties
  <1> QED BY <1>1, ConcatProperties DEF Moves

LEMMA TailMoves ==
    ASSUME NEW T, NEW s \in Seq(T), s # <<>>, NEW out \in Seq(T)
    PROVE  /\ Tail(s) \o out \in Seq(T) /\ Moves(s, 1, out, Tail(s) \o out)
           /\ Head(s) = s[1] /\ 1 <= Len(s)
  <1>1. Len(s) \in Nat /\ Len(out) \in Nat /\ Len(s) >= 1 /\ Head(s) = s[1]
    BY LenProperties, EmptySeq
  <1>2. /\ Tail(s) \in Seq(T) /\ Len(Tail(s)) = Len(s) - 1
        /\ \A i \in 1 .. Len(Tail(s)) : Tail(s)[i] = s[i + 1]
    BY HeadTailProperties
  <1> QED BY <1>1, <1>2, ConcatProperties DEF Moves

(* The elements that stay keep their order, and the others are new. *)
LEMMA MovesOrder ==
    ASSUME NEW T, NEW s \in Seq(T), NEW out \in Seq(T), NEW k, NEW t, Moves(s, k, out, t)
    PROVE  /\ \A i \in 1 .. Len(t) :
                \/ i + k \in 1 .. Len(s) /\ t[i] = s[i + k]
                \/ i > Len(s) - k /\ \E j \in 1 .. Len(out) : t[i] = out[j]
           /\ \A i \in 1 .. Len(s) : i > k => i - k \in 1 .. Len(t) /\ t[i - k] = s[i]
  <1>1. Len(s) \in Nat /\ Len(out) \in Nat /\ k \in {0, 1} /\ Len(t) \in Nat
    BY LenProperties DEF Moves
  <1>2. ASSUME NEW i \in 1 .. Len(t)
        PROVE  \/ i + k \in 1 .. Len(s) /\ t[i] = s[i + k]
               \/ i > Len(s) - k /\ \E j \in 1 .. Len(out) : t[i] = out[j]
    <2>1. CASE i <= Len(s) - k
      <3>1. i + k \in 1 .. Len(s)
        BY <1>1, <2>1
      <3> QED BY <2>1, <3>1 DEF Moves
    <2>2. CASE i > Len(s) - k
      <3>1. i - (Len(s) - k) \in 1 .. Len(out) /\ t[i] = out[i - (Len(s) - k)]
        BY <1>1, <2>2 DEF Moves
      <3> QED BY <2>2, <3>1
    <2> QED BY <1>1, <2>1, <2>2
  <1>3. ASSUME NEW i \in 1 .. Len(s), i > k
        PROVE  i - k \in 1 .. Len(t) /\ t[i - k] = s[i]
    <2>1. i - k \in 1 .. Len(t) /\ i - k <= Len(s) - k /\ (i - k) + k = i
      BY <1>1, <1>3 DEF Moves
    <2> QED BY <2>1 DEF Moves
  <1> QED BY <1>2, <1>3

(* Removing from a sequence without repetitions. *)
Without(T, s, i, t) ==
    /\ t \in Seq(T)
    /\ \A j, k \in 1 .. Len(t) : t[j] = t[k] => j = k
    /\ {t[j] : j \in 1 .. Len(t)} = {s[j] : j \in 1 .. Len(s)} \ {s[i]}

LEMMA RemoveAtElements ==
    ASSUME NEW T, NEW s \in Seq(T), NEW i \in 1 .. Len(s),
           \A j, k \in 1 .. Len(s) : s[j] = s[k] => j = k
    PROVE  Without(T, s, i, RemoveAt(s, i))
  <1> DEFINE a == SubSeq(s, 1, i - 1)
             b == SubSeq(s, i + 1, Len(s))
             t == a \o b
  <1>1. Len(s) \in Nat /\ \A j \in 1 .. Len(s) : s[j] \in T
    BY LenProperties, ElementOfSeq
  <1>2. /\ a \in Seq(T) /\ Len(a) = i - 1
        /\ \A j \in 1 .. i - 1 : a[j] = s[j]
    <2>1. \A j \in 1 .. i - 1 : s[j] \in T
      BY <1>1
    <2>2. /\ a \in Seq(T) /\ Len(a) = IF 1 <= i - 1 THEN i - 1 - 1 + 1 ELSE 0
          /\ \A j \in 1 .. i - 1 - 1 + 1 : a[j] = s[1 + j - 1]
      BY <1>1, <2>1, SubSeqProperties
    <2> QED BY <1>1, <2>2
  <1>3. /\ b \in Seq(T) /\ Len(b) = Len(s) - i
        /\ \A j \in 1 .. Len(s) - i : b[j] = s[j + i]
    <2>1. \A j \in i + 1 .. Len(s) : s[j] \in T
      BY <1>1
    <2>2. /\ b \in Seq(T)
          /\ Len(b) = IF i + 1 <= Len(s) THEN Len(s) - (i + 1) + 1 ELSE 0
          /\ \A j \in 1 .. Len(s) - (i + 1) + 1 : b[j] = s[(i + 1) + j - 1]
      BY <1>1, <2>1, SubSeqProperties
    <2> QED BY <1>1, <2>2
  <1> HIDE DEF a, b
  <1>4. /\ t \in Seq(T) /\ Len(t) = Len(s) - 1
        /\ \A j \in 1 .. Len(s) - 1 : t[j] = IF j < i THEN s[j] ELSE s[j + 1]
    <2>1. /\ t \in Seq(T) /\ Len(t) = Len(a) + Len(b)
          /\ \A j \in 1 .. Len(a) + Len(b) :
               t[j] = IF j <= Len(a) THEN a[j] ELSE b[j - Len(a)]
      <3>1. a \in Seq(T) /\ b \in Seq(T)
        BY <1>2, <1>3
      <3> QED BY <3>1, ConcatProperties
    <2>2. ASSUME NEW j \in 1 .. Len(s) - 1
          PROVE  t[j] = IF j < i THEN s[j] ELSE s[j + 1]
      <3>1. CASE j < i
        BY <1>1, <1>2, <1>3, <2>1, <3>1
      <3>2. CASE ~(j < i)
        <4>1. j - Len(a) \in 1 .. Len(s) - i /\ (j - Len(a)) + i = j + 1 /\ ~(j <= Len(a))
              /\ j \in 1 .. Len(a) + Len(b)
          BY <1>1, <1>2, <1>3, <3>2
        <4> QED BY <1>3, <2>1, <3>2, <4>1
      <3> QED BY <3>1, <3>2
    <2> QED BY <1>1, <1>2, <1>3, <2>1, <2>2
  <1> HIDE DEF t
  <1>5. \A j, k \in 1 .. Len(t) : t[j] = t[k] => j = k
    <2> SUFFICES ASSUME NEW j \in 1 .. Len(t), NEW k \in 1 .. Len(t), t[j] = t[k]
                 PROVE  j = k
      OBVIOUS
    <2> DEFINE J == IF j < i THEN j ELSE j + 1
               K == IF k < i THEN k ELSE k + 1
    <2>1. J \in 1 .. Len(s) /\ K \in 1 .. Len(s) /\ s[J] = s[K]
      BY <1>1, <1>4
    <2>2. J = K
      BY <2>1
    <2> QED BY <1>1, <1>4, <2>2
  <1>6. ASSUME NEW j \in 1 .. Len(t)
        PROVE  \E k \in 1 .. Len(s) : k # i /\ t[j] = s[k]
    <2> DEFINE J == IF j < i THEN j ELSE j + 1
    <2>1. J \in 1 .. Len(s) /\ J # i /\ t[j] = s[J]
      BY <1>1, <1>4
    <2> QED BY <2>1
  <1>7. ASSUME NEW k \in 1 .. Len(s), k # i
        PROVE  \E j \in 1 .. Len(t) : t[j] = s[k]
    <2> DEFINE J == IF k < i THEN k ELSE k - 1
    <2>1. J \in 1 .. Len(t) /\ t[J] = s[k]
      BY <1>1, <1>4, <1>7
    <2> QED BY <2>1
  <1>8. {t[j] : j \in 1 .. Len(t)} = {s[j] : j \in 1 .. Len(s)} \ {s[i]}
    <2>1. \A x : x \in {t[j] : j \in 1 .. Len(t)} <=>
                x \in {s[j] : j \in 1 .. Len(s)} \ {s[i]}
      BY <1>6, <1>7
    <2> QED BY <2>1
  <1>9. Without(T, s, i, t)
    BY <1>4, <1>5, <1>8 DEF Without
  <1> QED BY <1>9 DEF RemoveAt, t, a, b

(* Putting an element in front. *)
LEMMA PushElements ==
    ASSUME NEW T, NEW s \in Seq(T), NEW x \in T,
           \A j, k \in 1 .. Len(s) : s[j] = s[k] => j = k,
           x \notin {s[j] : j \in 1 .. Len(s)}
    PROVE  LET t == <<x>> \o s IN
           /\ t \in Seq(T)
           /\ \A j, k \in 1 .. Len(t) : t[j] = t[k] => j = k
           /\ {t[j] : j \in 1 .. Len(t)} = {s[j] : j \in 1 .. Len(s)} \cup {x}
  <1> DEFINE t == <<x>> \o s
  <1>1. Len(s) \in Nat /\ <<x>> \in Seq(T) /\ Len(<<x>>) = 1 /\ <<x>>[1] = x
    BY LenProperties
  <1>2. /\ t \in Seq(T) /\ Len(t) = 1 + Len(s)
        /\ \A j \in 1 .. 1 + Len(s) : t[j] = IF j <= 1 THEN x ELSE s[j - 1]
    <2>1. /\ t \in Seq(T) /\ Len(t) = Len(<<x>>) + Len(s)
          /\ \A j \in 1 .. Len(<<x>>) + Len(s) :
               t[j] = IF j <= Len(<<x>>) THEN <<x>>[j] ELSE s[j - Len(<<x>>)]
      BY <1>1, ConcatProperties
    <2>2. ASSUME NEW j \in 1 .. 1 + Len(s)
          PROVE  t[j] = IF j <= 1 THEN x ELSE s[j - 1]
      BY <1>1, <2>1
    <2> QED BY <1>1, <2>1, <2>2
  <1> HIDE DEF t
  <1>3. ASSUME NEW j \in 1 .. Len(t), NEW k \in 1 .. Len(t), t[j] = t[k]
        PROVE  j = k
    <2>1. CASE j = 1 \/ k = 1
      BY <1>1, <1>2, <1>3, <2>1
    <2>2. CASE j # 1 /\ k # 1
      <3>1. j - 1 \in 1 .. Len(s) /\ k - 1 \in 1 .. Len(s) /\ s[j - 1] = s[k - 1]
        BY <1>1, <1>2, <1>3, <2>2
      <3>2. j - 1 = k - 1
        BY <3>1
      <3> QED BY <1>1, <1>2, <3>2
    <2> QED BY <2>1, <2>2
  <1>4. ASSUME NEW j \in 1 .. Len(t)
        PROVE  t[j] \in {s[k] : k \in 1 .. Len(s)} \cup {x}
    <2>1. j = 1 \/ j - 1 \in 1 .. Len(s)
      BY <1>1, <1>2
    <2> QED BY <1>1, <1>2, <2>1
  <1>5. /\ \E j \in 1 .. Len(t) : t[j] = x
        /\ \A k \in 1 .. Len(s) : \E j \in 1 .. Len(t) : t[j] = s[k]
    <2>1. 1 \in 1 .. Len(t) /\ t[1] = x
      BY <1>1, <1>2
    <2>2. ASSUME NEW k \in 1 .. Len(s)
          PROVE  \E j \in 1 .. Len(t) : t[j] = s[k]
      <3>1. k + 1 \in 1 .. Len(t) /\ t[k + 1] = s[k]
        BY <1>1, <1>2
      <3> QED BY <3>1
    <2> QED BY <2>1, <2>2
  <1>6. {t[j] : j \in 1 .. Len(t)} = {s[j] : j \in 1 .. Len(s)} \cup {x}
    <2>1. {t[j] : j \in 1 .. Len(t)} \subseteq {s[j] : j \in 1 .. Len(s)} \cup {x}
      BY <1>4
    <2>2. {s[j] : j \in 1 .. Len(s)} \cup {x} \subseteq {t[j] : j \in 1 .. Len(t)}
      BY <1>5
    <2> QED BY <2>1, <2>2
  <1> QED BY <1>2, <1>3, <1>6 DEF t

-----------------------------------------------------------------------------
(* The packets of a step: from each channel c the first k[c] packets are taken,
   none or one, and out[c] is added. *)
NetMove(k, out) ==
    /\ k \in [Channels -> {0, 1}] /\ out \in [Channels -> Seq(Packets)]
    /\ net' \in [Channels -> Seq(Packets)]
    /\ \A c \in Channels : Moves(net[c], k[c], out[c], net'[c])

LEMMA Packet ==
    ASSUME TypeOK, NEW k, NEW out, NetMove(k, out), NEW c \in Channels
    PROVE  /\ Len(net[c]) \in Nat /\ Len(net'[c]) \in Nat /\ k[c] \in {0, 1}
           /\ \A i \in 1 .. Len(net'[c]) :
                \/ i + k[c] \in 1 .. Len(net[c]) /\ net'[c][i] = net[c][i + k[c]]
                \/ /\ i > Len(net[c]) - k[c]
                   /\ \E j \in 1 .. Len(out[c]) : net'[c][i] = out[c][j]
           /\ \A i \in 1 .. Len(net[c]) :
                i > k[c] => i - k[c] \in 1 .. Len(net'[c]) /\ net'[c][i - k[c]] = net[c][i]
  <1>1. net[c] \in Seq(Packets) /\ out[c] \in Seq(Packets) /\ net'[c] \in Seq(Packets)
        /\ k[c] \in {0, 1} /\ Moves(net[c], k[c], out[c], net'[c])
    BY DEF TypeOK, NetMove
  <1>2. Len(net[c]) \in Nat /\ Len(net'[c]) \in Nat
    BY <1>1, LenProperties
  <1>3. PICK s, o, t, l : s = net[c] /\ o = out[c] /\ t = net'[c] /\ l = k[c]
    OBVIOUS
  <1>4. s \in Seq(Packets) /\ o \in Seq(Packets) /\ Moves(s, l, o, t)
    BY <1>1, <1>3
  <1>5. /\ \A i \in 1 .. Len(t) :
             \/ i + l \in 1 .. Len(s) /\ t[i] = s[i + l]
             \/ i > Len(s) - l /\ \E j \in 1 .. Len(o) : t[i] = o[j]
        /\ \A i \in 1 .. Len(s) : i > l => i - l \in 1 .. Len(t) /\ t[i - l] = s[i]
    BY <1>4, MovesOrder
  <1> QED BY <1>1, <1>2, <1>3, <1>5

LEMMA ChannelPair ==
    /\ \A c \in Channels : c[1] \in Nodes /\ c[2] \in Nodes /\ c[1] # c[2] /\ c = <<c[1], c[2]>>
    /\ \A s, d \in Nodes : s # d =>
         <<s, d>> \in Channels /\ <<s, d>>[1] = s /\ <<s, d>>[2] = d
  BY DEF Channels

(* What the packets of a step may be for a process p that stays where it is. *)
Calm(p, k, out) ==
    /\ panicked \subseteq panicked'
    /\ \A x \in Nodes : proc[x][p].pml4 # 0 =>
         page[x][proc[x][p].pml4].shared \subseteq page'[x][proc[x][p].pml4].shared
    /\ \A c \in Channels : \A j \in 1 .. Len(out[c]) :
         /\ IsMigrq(out[c][j], p) =>
              /\ proc[c[1]][p].state = "MIGR" /\ proc[c[1]][p].migrdest = c[2]
              /\ out[c][j].pml4 = DirRR(c[1], p) /\ out[c][j].sv = proc[c[1]][p].sv
         /\ out[c][j].type = "PULLRQ" =>
              \A x \in Nodes : out[c][j].rr = DirRR(x, p) =>
                DirPull(c[1], p) /\ proc[c[1]][p].pullrr = out[c][j].rr
         /\ out[c][j].type = "PULLRP" =>
              /\ k[<<c[2], c[1]>>] = 1 /\ Asks(net[<<c[2], c[1]>>][1], out[c][j].rr)
              /\ 1 <= Len(net[<<c[2], c[1]>>])
              /\ page'[c[1]][out[c][j].rr.a].shared # {}
    /\ \A c \in Channels : k[c] = 1 =>
         /\ IsMigrp(net[c][1], p) => proc'[c[2]][p].state # "MIGR"
         /\ IsMigrq(net[c][1], p) => ~IsAway(proc[c[2]][p].state) \/ panicked' # {}

(* Nothing new is said of a directory that nobody has asked for. *)
LEMMA StaysUnasked ==
    ASSUME TypeOK, NEW p \in Procs, NEW k, NEW out, NetMove(k, out), Calm(p, k, out),
           NEW n \in Nodes, Unasked(DirRR(n, p)),
           \A x \in Nodes : DirPull(x, p) => proc[x][p].pullrr # DirRR(n, p)
    PROVE  Unasked(DirRR(n, p))'  \/ proc'[n][p].pml4 # proc[n][p].pml4
  <1> SUFFICES ASSUME proc'[n][p].pml4 = proc[n][p].pml4
               PROVE  Unasked(DirRR(n, p))'
    OBVIOUS
  <1>1. DirRR(n, p)' = DirRR(n, p)
    BY DEF DirRR
  <1>2. SUFFICES ASSUME NEW c \in Channels, NEW i \in 1 .. Len(net'[c]),
                        Asks(net'[c][i], DirRR(n, p)) \/ Brings(net'[c][i], DirRR(n, p))
                 PROVE  FALSE
    BY <1>1 DEF Unasked, Asks, Brings
  <1>3. ~(i + k[c] \in 1 .. Len(net[c]) /\ net'[c][i] = net[c][i + k[c]])
    BY <1>2 DEF Unasked
  <1>4. PICK j \in 1 .. Len(out[c]) : net'[c][i] = out[c][j]
    BY <1>3, Packet
  <1>5. c[1] \in Nodes /\ <<c[2], c[1]>> \in Channels
    BY ChannelPair
  <1>6. ~Asks(out[c][j], DirRR(n, p))
    BY <1>5 DEF Calm, Asks
  <1>7. ~Brings(out[c][j], DirRR(n, p))
    <2> SUFFICES ASSUME Brings(out[c][j], DirRR(n, p))
                 PROVE  FALSE
      OBVIOUS
    <2>1. Asks(net[<<c[2], c[1]>>][1], DirRR(n, p)) /\ 1 <= Len(net[<<c[2], c[1]>>])
      BY DEF Calm, Brings
    <2>2. 1 \in 1 .. Len(net[<<c[2], c[1]>>])
      BY <1>5, <2>1, Packet
    <2> QED BY <1>5, <2>1, <2>2 DEF Unasked
  <1> QED BY <1>2, <1>4, <1>6, <1>7

(* The pull of a directory is one of a process in state PULL. *)
LEMMA DirPullState ==
    ASSUME TypeOK, NEW A, NEW D, Shape(A, D), NEW n \in Nodes, NEW p \in Procs, DirPull(n, p)
    PROVE  proc[n][p].state = "PULL"
  BY DEF Shape, ProcOK, PullOK, DirPull

LEMMA GoneStays ==
    ASSUME NEW p \in Procs, NEW k, NEW out, Calm(p, k, out), NEW x \in Nodes, Gone(x, p),
           proc'[x][p].state = proc[x][p].state, proc'[x][p].pml4 = proc[x][p].pml4
    PROVE  Gone(x, p)'
  BY DEF Calm, Gone, IsAway

LEMMA HeldStays ==
    ASSUME TypeOK, NEW A, NEW D, Shape(A, D), NEW p \in Procs, NEW n \in Nodes, Held(n, p),
           NEW k, NEW out, NetMove(k, out), Calm(p, k, out),
           proc'[n][p].state \in {"READY", "RUN", "PULL"}, ~DirPull(n, p)',
           proc'[n][p].sv = done'[p], proc'[n][p].pml4 = proc[n][p].pml4,
           \A x \in Nodes \ {n} : /\ proc'[x][p].state = proc[x][p].state
                                  /\ proc'[x][p].pml4 = proc[x][p].pml4
    PROVE  Held(n, p)'
  <1>1. \A x \in Nodes : ~DirPull(x, p) /\ proc[x][p].state # "MIGR"
    <2>1. \A x \in Nodes \ {n} : proc[x][p].state # "PULL" /\ proc[x][p].state # "MIGR"
      BY DEF Held, Gone, IsAway
    <2> QED BY <2>1, DirPullState DEF Held
  <1>2. \A x \in Nodes \ {n} : Gone(x, p)'
    BY GoneStays DEF Held
  <1>3. NoMigrq(p)'
    <2> SUFFICES ASSUME NEW c \in Channels, NEW i \in 1 .. Len(net'[c]), IsMigrq(net'[c][i], p)
                 PROVE  FALSE
      BY DEF NoMigrq, IsMigrq
    <2>1. ~(i + k[c] \in 1 .. Len(net[c]) /\ net'[c][i] = net[c][i + k[c]])
      BY DEF Held, NoMigrq
    <2>2. PICK j \in 1 .. Len(out[c]) : net'[c][i] = out[c][j]
      BY <2>1, Packet
    <2>3. c[1] \in Nodes /\ IsMigrq(out[c][j], p)
      BY <2>2, ChannelPair
    <2>4. proc[c[1]][p].state = "MIGR"
      BY <2>3 DEF Calm
    <2> QED BY <1>1, <2>3, <2>4
  <1>4. Unasked(DirRR(n, p))'
    BY <1>1, StaysUnasked DEF Held
  <1> QED BY <1>2, <1>3, <1>4 DEF Held

(* p is where it was, but for a MIGRP that may have arrived at s. *)
SentStill(s, p) ==
    /\ proc'[s][p].state = "MIGR" => /\ proc[s][p].state = "MIGR"
                                     /\ proc'[s][p].migrdest = proc[s][p].migrdest
    /\ proc'[s][p].state \in {"MIGR", "AWAY"}
    /\ \A x \in Nodes : /\ proc'[x][p].pml4 = proc[x][p].pml4
                        /\ x # s => proc'[x][p].state = proc[x][p].state
                        /\ proc'[x][p].sv = proc[x][p].sv
    /\ done'[p] = done[p]

LEMMA InTransitStays ==
    ASSUME TypeOK, NEW A, NEW D, Shape(A, D), NEW p \in Procs,
           NEW s \in Nodes, NEW d \in Nodes, InTransit(s, d, p),
           NEW k, NEW out, NetMove(k, out), Calm(p, k, out), SentStill(s, p)
    PROVE  InTransit(s, d, p)'
  <1>1. Sent(s, d, p)' /\ (proc[s][p].sv = done[p])'
    BY DEF InTransit, Sent, SentStill
  <1>2. \A x \in Nodes \ {s} : Gone(x, p)'
    BY GoneStays DEF InTransit, SentStill
  <1>3. /\ \A x \in Nodes : ~DirPull(x, p)
        /\ \A x \in Nodes \ {s} : proc[x][p].state # "MIGR"
    <2>1. /\ \A x \in Nodes : proc[x][p].state # "PULL"
          /\ \A x \in Nodes \ {s} : proc[x][p].state # "MIGR"
      BY DEF InTransit, Sent, Gone, IsAway
    <2> QED BY <2>1, DirPullState
  <1>4. DirRR(s, p)' = DirRR(s, p)
    BY DEF DirRR, SentStill
  <1>5. ASSUME NEW c \in Channels, NEW i \in 1 .. Len(net'[c]), IsMigrq(net'[c][i], p)
        PROVE  c = <<s, d>> /\ net'[c][i].pml4 = DirRR(s, p) /\ net'[c][i].sv = done[p]
    <2>1. CASE i + k[c] \in 1 .. Len(net[c]) /\ net'[c][i] = net[c][i + k[c]]
      BY <1>5, <2>1 DEF InTransit
    <2>2. CASE \E j \in 1 .. Len(out[c]) : net'[c][i] = out[c][j]
      <3>1. PICK j \in 1 .. Len(out[c]) : net'[c][i] = out[c][j]
        BY <2>2
      <3>2. /\ proc[c[1]][p].state = "MIGR" /\ proc[c[1]][p].migrdest = c[2]
            /\ out[c][j].pml4 = DirRR(c[1], p) /\ out[c][j].sv = proc[c[1]][p].sv
        BY <1>5, <3>1 DEF Calm
      <3>3. c[1] = s /\ c[2] = d
        BY <1>3, <3>2, ChannelPair DEF InTransit, Sent
      <3> QED BY <3>1, <3>2, <3>3, ChannelPair DEF InTransit
    <2> QED BY <2>1, <2>2, Packet
  <1>6. Unasked(DirRR(s, p))'
    BY <1>3, StaysUnasked DEF InTransit, SentStill
  <1>7. panicked' # {} \/ \E i \in 1 .. Len(net'[<<s, d>>]) : IsMigrq(net'[<<s, d>>][i], p)
    <2> DEFINE c == <<s, d>>
    <2> SUFFICES ASSUME panicked' = {}
                 PROVE  \E i \in 1 .. Len(net'[c]) : IsMigrq(net'[c][i], p)
      OBVIOUS
    <2>1. c \in Channels /\ c[2] = d /\ d \in Nodes \ {s}
      BY ChannelPair DEF InTransit, Sent
    <2> HIDE DEF c
    <2>2. PICK i \in 1 .. Len(net[c]) : IsMigrq(net[c][i], p)
      BY DEF InTransit, Calm, c
    <2>3. ~(k[c] = 1 /\ i = 1)
      BY <2>1, <2>2 DEF Calm, InTransit, Gone
    <2>4. i > k[c]
      BY <2>1, <2>3, Packet
    <2> QED BY <2>1, <2>2, <2>4, Packet
  <1> QED BY <1>1, <1>2, <1>4, <1>5, <1>6, <1>7 DEF InTransit, IsMigrq, SentStill

LEMMA ArrivingStays ==
    ASSUME TypeOK, NEW A, NEW D, Shape(A, D), NEW p \in Procs,
           NEW s \in Nodes, NEW d \in Nodes, Arriving(s, d, p),
           NEW k, NEW out, NetMove(k, out), Calm(p, k, out), SentStill(s, p),
           DirPull(d, p)', proc'[d][p].pullrr = proc[d][p].pullrr
    PROVE  Arriving(s, d, p)'
  <1>1. PICK go, back : go = <<s, d>> /\ back = <<d, s>>
    OBVIOUS
  <1>2. /\ s # d /\ go \in Channels /\ back \in Channels
        /\ go[1] = s /\ go[2] = d /\ back[1] = d /\ back[2] = s
        /\ <<go[2], go[1]>> = back /\ \A c \in Channels : c[1] = s /\ c[2] = d => c = go
    BY <1>1, ChannelPair DEF Arriving, Sent
  <1>3. PICK rr : rr = DirRR(s, p)
    OBVIOUS
  <1>4. DirRR(s, p)' = rr
    BY <1>3 DEF DirRR, SentStill
  <1>5. Sent(s, d, p)' /\ (proc[d][p].state = "PULL" /\ proc[d][p].pullrr = DirRR(s, p))'
        /\ (proc[d][p].sv = done[p])'
    BY <1>2, <1>3, <1>4 DEF Arriving, Sent, SentStill
  <1>6. \A x \in Nodes \ {s, d} : Gone(x, p)'
    BY GoneStays DEF Arriving, SentStill
  <1>7. /\ \A x \in Nodes : DirPull(x, p) => x = d
        /\ \A x \in Nodes \ {s} : proc[x][p].state # "MIGR"
    <2>1. \A x \in Nodes \ {s, d} : proc[x][p].state # "PULL" /\ proc[x][p].state # "MIGR"
      BY DEF Arriving, Gone, IsAway
    <2>2. proc[s][p].state # "PULL" /\ proc[d][p].state # "MIGR"
      BY DEF Arriving, Sent
    <2> QED BY <2>1, <2>2, DirPullState
  (* What was in the channel, and what is new. *)
  <1>8. ASSUME NEW c \in Channels, NEW i \in 1 .. Len(net'[c])
        PROVE  \/ i + k[c] \in 1 .. Len(net[c]) /\ net'[c][i] = net[c][i + k[c]]
               \/ /\ IsMigrq(net'[c][i], p) => c = go /\ proc[s][p].state = "MIGR"
                  /\ Brings(net'[c][i], rr) /\ c = go =>
                       /\ proc[s][p].state # "MIGR"
                       /\ page'[s][proc[s][p].pml4].shared # {}
                  /\ i > Len(net[c]) - k[c]
    <2> SUFFICES ASSUME ~(i + k[c] \in 1 .. Len(net[c]) /\ net'[c][i] = net[c][i + k[c]])
                 PROVE  /\ IsMigrq(net'[c][i], p) => c = go /\ proc[s][p].state = "MIGR"
                        /\ Brings(net'[c][i], rr) /\ c = go =>
                             /\ proc[s][p].state # "MIGR"
                             /\ page'[s][proc[s][p].pml4].shared # {}
                        /\ i > Len(net[c]) - k[c]
      OBVIOUS
    <2>1. /\ i > Len(net[c]) - k[c]
          /\ \E j \in 1 .. Len(out[c]) : net'[c][i] = out[c][j]
      BY Packet
    <2>2. PICK j \in 1 .. Len(out[c]) : net'[c][i] = out[c][j]
      BY <2>1
    <2>3. ASSUME IsMigrq(out[c][j], p)
          PROVE  c = go /\ proc[s][p].state = "MIGR"
      <3>1. proc[c[1]][p].state = "MIGR" /\ proc[c[1]][p].migrdest = c[2] /\ c[1] \in Nodes
        BY <2>3, ChannelPair DEF Calm
      <3> QED BY <1>2, <1>7, <3>1 DEF Arriving, Sent
    <2>4. ASSUME Brings(out[c][j], rr), c = go
          PROVE  proc[s][p].state # "MIGR" /\ page'[s][proc[s][p].pml4].shared # {}
      <3>1. /\ Asks(net[back][1], rr) /\ 1 <= Len(net[back])
            /\ page'[s][rr.a].shared # {}
        <4>1. out[c][j].type = "PULLRP" /\ out[c][j].rr = rr
          BY <2>4 DEF Brings
        <4>2. /\ Asks(net[<<c[2], c[1]>>][1], out[c][j].rr) /\ 1 <= Len(net[<<c[2], c[1]>>])
              /\ page'[c[1]][out[c][j].rr.a].shared # {}
          BY <4>1 DEF Calm
        <4>3. <<c[2], c[1]>> = back /\ c[1] = s
          BY <1>2, <2>4
        <4> QED BY <4>1, <4>2, <4>3
      <3>2. rr.a = proc[s][p].pml4
        BY <1>3 DEF DirRR, RR, Word
      <3>3. proc[s][p].state # "MIGR"
        <4> SUFFICES ASSUME proc[s][p].state = "MIGR"
                     PROVE  FALSE
          OBVIOUS
        <4>1. PICK l \in 1 .. Len(net[back]) : \A h \in 1 .. l : ~Asks(net[back][h], rr)
          BY <1>1, <1>3 DEF Arriving
        <4>2. 1 \in 1 .. l
          BY <1>2, <4>1, Packet
        <4> QED BY <3>1, <4>1, <4>2
      <3> QED BY <3>1, <3>2, <3>3
    <2> QED BY <2>1, <2>2, <2>3, <2>4
  <1>9. \A c \in Channels : \A i \in 1 .. Len(net'[c]) : IsMigrq(net'[c][i], p) => c = go
    BY <1>1, <1>8 DEF Arriving
  <1>10. ASSUME NEW i \in 1 .. Len(net'[go]), NEW j \in 1 .. Len(net'[go]), i < j,
                Brings(net'[go][i], rr), IsMigrq(net'[go][j], p)
         PROVE  FALSE
    <2>1. k[go] \in {0, 1} /\ Len(net[go]) \in Nat /\ Len(net'[go]) \in Nat
      BY <1>2, Packet
    <2>2. CASE j + k[go] \in 1 .. Len(net[go]) /\ net'[go][j] = net[go][j + k[go]]
      <3>1. i + k[go] \in 1 .. Len(net[go]) /\ ~(i > Len(net[go]) - k[go])
        BY <1>10, <2>1, <2>2
      <3>2. net'[go][i] = net[go][i + k[go]]
        BY <1>2, <1>8, <3>1
      <3>3. i + k[go] < j + k[go]
        BY <1>10, <2>1
      <3> QED BY <1>1, <1>3, <1>10, <2>2, <3>1, <3>2, <3>3 DEF Arriving
    <2>3. CASE proc[s][p].state = "MIGR"
      <3>1. ~(i + k[go] \in 1 .. Len(net[go]) /\ net'[go][i] = net[go][i + k[go]])
        BY <1>1, <1>3, <1>10, <2>3 DEF Arriving
      <3> QED BY <1>2, <1>8, <1>10, <2>3, <3>1
    <2> QED BY <1>2, <1>8, <1>10, <2>2, <2>3
  <1>11. ASSUME proc'[s][p].state = "MIGR"
         PROVE  /\ \E i \in 1 .. Len(net'[back]) :
                     /\ IsMigrp(net'[back][i], p)
                     /\ \A j \in 1 .. i : ~Asks(net'[back][j], rr)
                /\ \A i \in 1 .. Len(net'[go]) : ~Brings(net'[go][i], rr)
    <2>1. proc[s][p].state = "MIGR"
      BY <1>11 DEF SentStill
    <2>2. PICK i \in 1 .. Len(net[back]) : /\ IsMigrp(net[back][i], p)
                                           /\ \A j \in 1 .. i : ~Asks(net[back][j], rr)
      BY <1>1, <1>3, <2>1 DEF Arriving
    <2>3. k[back] \in {0, 1} /\ Len(net[back]) \in Nat /\ Len(net'[back]) \in Nat
      BY <1>2, Packet
    <2>4. ~(k[back] = 1 /\ i = 1)
      BY <1>2, <1>11, <2>2 DEF Calm
    <2>5. i > k[back]
      BY <2>3, <2>4
    <2>6. i - k[back] \in 1 .. Len(net'[back]) /\ net'[back][i - k[back]] = net[back][i]
      BY <1>2, <2>5, Packet
    <2>7. ASSUME NEW j \in 1 .. i - k[back]
          PROVE  ~Asks(net'[back][j], rr)
      <3>1. /\ j \in 1 .. Len(net'[back]) /\ ~(j > Len(net[back]) - k[back])
            /\ j + k[back] \in 1 .. i
        BY <2>3, <2>5, <2>6
      <3>2. net'[back][j] = net[back][j + k[back]]
        BY <1>2, <3>1, Packet
      <3> QED BY <2>2, <3>1, <3>2
    <2>8. \A j \in 1 .. Len(net'[go]) : ~Brings(net'[go][j], rr)
      BY <1>1, <1>2, <1>3, <1>8, <2>1 DEF Arriving
    <2> QED BY <2>2, <2>6, <2>7, <2>8
  <1>12. ASSUME NEW i \in 1 .. Len(net'[go]), Brings(net'[go][i], rr)
         PROVE  page'[s][proc'[s][p].pml4].shared # {}
    <2>1. page'[s][proc[s][p].pml4].shared # {}
      <3>1. CASE i + k[go] \in 1 .. Len(net[go]) /\ net'[go][i] = net[go][i + k[go]]
        <4>1. page[s][proc[s][p].pml4].shared # {} /\ proc[s][p].pml4 # 0
          BY <1>1, <1>3, <1>12, <3>1 DEF Arriving, Sent
        <4> QED BY <4>1 DEF Calm
      <3> QED BY <1>2, <1>8, <1>12, <3>1
    <2> QED BY <2>1 DEF SentStill
  <1>13. Unasked(DirRR(d, p))'
    <2>1. proc[d][p].pullrr # DirRR(d, p)
      BY <1>2 DEF Arriving, DirRR, RR, Word
    <2>2. \A x \in Nodes : DirPull(x, p) => proc[x][p].pullrr # DirRR(d, p)
      BY <1>7, <2>1
    <2> QED BY <2>2, StaysUnasked DEF Arriving, SentStill
  <1> QED
    BY <1>1, <1>4, <1>5, <1>6, <1>9, <1>10, <1>11, <1>12, <1>13
    DEF Arriving, IsMigrq, IsMigrp, Asks, Brings

(* p stays where it is, in a step of the kernel for others or of the clock, or
   because a MIGRP has arrived. *)
Still(p) ==
    /\ \A x \in Nodes :
         /\ proc'[x][p].pml4 = proc[x][p].pml4 /\ proc'[x][p].sv = proc[x][p].sv
         /\ proc'[x][p].pullrr = proc[x][p].pullrr /\ proc'[x][p].pullpg = proc[x][p].pullpg
         /\ p \in Listed(x)' <=> p \in Listed(x)
         /\ \/ /\ proc'[x][p].state = proc[x][p].state
               /\ proc'[x][p].migrdest = proc[x][p].migrdest
            \/ proc[x][p].state = "MIGR" /\ proc'[x][p].state = "AWAY"
    /\ done'[p] = done[p]

LEMMA WayStays ==
    ASSUME TypeOK, NEW A, NEW D, Shape(A, D), NEW p \in Procs, Way(p),
           NEW k, NEW out, NetMove(k, out), Calm(p, k, out), Still(p)
    PROVE  Way(p)'
  <1>1. \A x \in Nodes : DirPull(x, p)' <=> DirPull(x, p)
    BY DEF DirPull, Still
  <1>2. ASSUME NEW n \in Nodes, Held(n, p)
        PROVE  Held(n, p)'
    <2>1. \A x \in Nodes : proc[x][p].state # "MIGR"
      BY <1>2 DEF Held, Gone, IsAway
    <2>2. \A x \in Nodes : proc'[x][p].state = proc[x][p].state
      BY <2>1 DEF Still
    <2>3. /\ proc'[n][p].state \in {"READY", "RUN", "PULL"} /\ ~DirPull(n, p)'
          /\ proc'[n][p].sv = done'[p]
      BY <1>1, <1>2, <2>2 DEF Held, Still
    <2> QED BY <1>2, <2>2, <2>3, HeldStays DEF Still
  <1>3. ASSUME NEW s \in Nodes, NEW d \in Nodes, Sent(s, d, p),
               \A x \in Nodes \ {s} : proc[x][p].state # "MIGR"
        PROVE  SentStill(s, p)
    BY <1>3 DEF Sent, Still, SentStill
  <1>4. ASSUME NEW s \in Nodes, NEW d \in Nodes, InTransit(s, d, p)
        PROVE  InTransit(s, d, p)'
    <2>1. \A x \in Nodes \ {s} : proc[x][p].state # "MIGR"
      BY <1>4 DEF InTransit, Gone, IsAway
    <2>2. SentStill(s, p)
      BY <1>3, <1>4, <2>1 DEF InTransit
    <2> QED BY <1>4, <2>2, InTransitStays
  <1>5. ASSUME NEW s \in Nodes, NEW d \in Nodes, Arriving(s, d, p)
        PROVE  Arriving(s, d, p)'
    <2>1. \A x \in Nodes \ {s} : proc[x][p].state # "MIGR"
      BY <1>5 DEF Arriving, Gone, IsAway
    <2>2. SentStill(s, p)
      BY <1>3, <1>5, <2>1 DEF Arriving
    <2>3. DirPull(d, p)' /\ proc'[d][p].pullrr = proc[d][p].pullrr
      BY <1>1, <1>5 DEF Arriving, Still
    <2> QED BY <1>5, <2>2, <2>3, ArrivingStays
  <1> QED BY <1>2, <1>4, <1>5 DEF Way

-----------------------------------------------------------------------------
(* Keeping the shape *)

LEMMA GrowKeeps ==
    ASSUME NEW A, NEW D, NEW A2, NEW D2, Grow(A, D, A2, D2)
    PROVE  /\ \A w : DataRef(A, D, w) => DataRef(A2, D2, w)
           /\ \A w : RemoteOK(A, D, w) => RemoteOK(A2, D2, w)
           /\ \A n \in Nodes : \A w : EntryOK(A, D, n, w) => EntryOK(A2, D2, n, w)
           /\ \A c \in Channels : \A m : PacketOK(A, D, c, m) => PacketOK(A2, D2, c, m)
  <1>1. \A w : DataRef(A, D, w) => DataRef(A2, D2, w)
    BY DEF Grow, DataRef
  <1>2. \A w : RemoteOK(A, D, w) => RemoteOK(A2, D2, w)
    BY <1>1 DEF RemoteOK
  <1>3. \A n \in Nodes : \A w : EntryOK(A, D, n, w) => EntryOK(A2, D2, n, w)
    BY <1>2 DEF EntryOK, Grow
  <1>4. ASSUME NEW c \in Channels, NEW m, PacketOK(A, D, c, m)
        PROVE  PacketOK(A2, D2, c, m)
    <2>1. c[1] \in Nodes /\ c[2] \in Nodes
      BY ChannelPair
    <2>2. \A n \in Nodes : \A a \in A[n] : a \in A2[n] /\ (a \in D2[n] <=> a \in D[n])
      BY DEF Grow
    <2>3. m.type = "MIGRQ" => m.pml4.a \in D2[c[1]]
      BY <1>4, <2>1, <2>2 DEF PacketOK, Grow
    <2> QED BY <1>2, <1>4, <2>1, <2>2, <2>3 DEF PacketOK
  <1> QED BY <1>1, <1>2, <1>3, <1>4

(* A page that keeps its contents, and is neither freed nor just allocated. *)
LEMMA PageKeeps ==
    ASSUME NEW A, NEW D, NEW A2, NEW D2, Grow(A, D, A2, D2),
           NEW n \in Nodes, NEW a \in Addrs, NEW old, NEW new, PageOK(A, D, n, a, old),
           a \in A2[n] => a \in A[n],
           new.home = old.home, new.data = old.data, 
           a \in A[n] => new.ref # 0 \/ new.shared # {}
    PROVE  PageOK(A2, D2, n, a, new)
  <1>1. a \in D2[n] <=> a \in D[n]
    <2>1. a \notin A[n] => a \notin A2[n] /\ a \notin D2[n]
      BY DEF Grow
    <2>2. CASE a \in A[n]
      BY <2>2 DEF Grow
    <2>3. CASE a \notin A[n]
      BY <2>1, <2>3 DEF Grow, PageOK
    <2> QED BY <2>2, <2>3
  <1>2. \/ new.home = NoRR
        \/ a \in A2[n] /\ a \notin D2[n] /\ DataRef(A2, D2, new.home)
    BY <1>1, GrowKeeps DEF PageOK, Grow
  <1>3. \A i \in Parts : IF a \in D2[n] THEN EntryOK(A2, D2, n, new.data[i])
                                        ELSE Plain(new.data[i])
    BY <1>1, GrowKeeps DEF PageOK
  <1> QED BY <1>2, <1>3 DEF PageOK

(* A process that the step is not about. *)
LEMMA ProcKeeps ==
    ASSUME NEW A, NEW D, NEW A2, NEW D2, Grow(A, D, A2, D2),
           NEW n \in Nodes, NEW p \in Procs, ProcOK(A, D, n, p, proc[n][p]),
           proc'[n][p].state = proc[n][p].state, proc'[n][p].pml4 = proc[n][p].pml4,
           proc'[n][p].migrdest = proc[n][p].migrdest,
           proc'[n][p].pullrr = proc[n][p].pullrr, proc'[n][p].pullpg = proc[n][p].pullpg,
           proc'[n][p].pullva = proc[n][p].pullva,
           rx'[n] = p => rx[n] = p,
           p \in Listed(n)' <=> p \in Listed(n),
           proc[n][p].pml4 # 0 =>
             page'[n][proc[n][p].pml4].data = page[n][proc[n][p].pml4].data
    PROVE  ProcOK(A2, D2, n, p, proc[n][p])'
  <1>1. PICK r, u : r = proc[n][p] /\ u = proc'[n][p]
    OBVIOUS
  <1>2. u.pml4 = 0 \/ u.pml4 \in D2[n]
    BY <1>1 DEF ProcOK, Grow
  <1>3. p \in Listed(n)' => PullOK(A2, D2, n, u)
    <2> SUFFICES ASSUME p \in Listed(n) PROVE PullOK(A2, D2, n, u)
      OBVIOUS
    <2>1. PullOK(A, D, n, r)
      BY <1>1 DEF ProcOK
    <2> QED BY <1>1, <2>1 DEF PullOK, Grow
  <1>4. \A va \in Parts :
         (u.state \in {"READY", "RUN"} \/ (u.state = "PULL" /\ va < u.pullva)) =>
         page'[n][u.pml4].data[va].k # "remote"
    BY <1>1 DEF ProcOK
  <1>5. /\ u.state \in {"READY", "RUN", "PULL", "MIGR"} => u.pml4 # 0
        /\ u.state = "MIGR" => u.migrdest \in Nodes
        /\ rx'[n] = p => u.state = "PULL" /\ p \notin Listed(n)'
    BY <1>1 DEF ProcOK
  <1> QED BY <1>1, <1>2, <1>3, <1>4, <1>5 DEF ProcOK

LEMMA PacketsKeep ==
    ASSUME TypeOK, NEW A, NEW D, Shape(A, D), NEW A2, NEW D2, Grow(A, D, A2, D2),
           NEW k, NEW out, NetMove(k, out),
           \A c \in Channels : \A j \in 1 .. Len(out[c]) : PacketOK(A2, D2, c, out[c][j])
    PROVE  \A c \in Channels : \A i \in 1 .. Len(net'[c]) : PacketOK(A2, D2, c, net'[c][i])
  <1> SUFFICES ASSUME NEW c \in Channels, NEW i \in 1 .. Len(net'[c])
               PROVE  PacketOK(A2, D2, c, net'[c][i])
    OBVIOUS
  <1>1. CASE i + k[c] \in 1 .. Len(net[c]) /\ net'[c][i] = net[c][i + k[c]]
    BY <1>1, GrowKeeps DEF Shape
  <1> QED BY <1>1, Packet

(* The kernel of x does nothing for q, except that it may link the pull list
   past it. *)
Untouched(x, q) ==
    /\ proc'[x][q].state = proc[x][q].state /\ proc'[x][q].pml4 = proc[x][q].pml4
    /\ proc'[x][q].sv = proc[x][q].sv /\ proc'[x][q].migrdest = proc[x][q].migrdest
    /\ proc'[x][q].pullrr = proc[x][q].pullrr /\ proc'[x][q].pullpg = proc[x][q].pullpg
    /\ proc'[x][q].pullva = proc[x][q].pullva
    /\ rx'[x] = q => rx[x] = q
    /\ q \in Listed(x)' <=> q \in Listed(x)

OthersUntouched(n, p) ==
    \A x \in Nodes, q \in Procs : x # n \/ q # p => Untouched(x, q)

DirectoriesKept(n, p) ==
    \A x \in Nodes, q \in Procs : (x # n \/ q # p) /\ proc[x][q].pml4 # 0 =>
      page'[x][proc[x][q].pml4].data = page[x][proc[x][q].pml4].data

OnceListed(n) ==
    \A i, j \in 1 .. Len(pulllist[n]) : pulllist[n][i] = pulllist[n][j] => i = j

LEMMA ShapeStep ==
    ASSUME TypeOK, NEW A, NEW D, Shape(A, D), NEW A2, NEW D2, Grow(A, D, A2, D2),
           NEW k, NEW out, NetMove(k, out),
           \A c \in Channels : \A j \in 1 .. Len(out[c]) : PacketOK(A2, D2, c, out[c][j]),
           \A x \in Nodes, a \in Addrs : PageOK(A2, D2, x, a, page'[x][a]),
           NEW n \in Nodes, NEW p \in Procs, OthersUntouched(n, p), DirectoriesKept(n, p),
           ProcOK(A2, D2, n, p, proc[n][p])',
           proc'[n][p].pml4 = proc[n][p].pml4 \/ proc'[n][p].pml4 \notin A[n] \cup {0},
           \A x \in Nodes : OnceListed(x)'
    PROVE  Shape(A2, D2)'
  <1>1. Grow(A2, D2, A2, D2)
    BY DEF Grow
  <1>2. (\A c \in Channels : \A i \in 1 .. Len(net[c]) : PacketOK(A2, D2, c, net[c][i]))'
    BY PacketsKeep
  <1>3. (\A x \in Nodes, q \in Procs : ProcOK(A2, D2, x, q, proc[x][q]))'
    <2> SUFFICES ASSUME NEW x \in Nodes, NEW q \in Procs
                 PROVE  ProcOK(A2, D2, x, q, proc[x][q])'
      OBVIOUS
    <2>1. CASE x = n /\ q = p
      BY <2>1
    <2>2. CASE x # n \/ q # p
      <3>1. ProcOK(A, D, x, q, proc[x][q])
        BY DEF Shape
      <3> QED BY <2>2, <3>1, ProcKeeps DEF OthersUntouched, Untouched, DirectoriesKept
    <2> QED BY <2>1, <2>2
  <1>4. ASSUME NEW x \in Nodes, NEW q \in Procs, NEW u \in Procs, q # u, proc'[x][q].pml4 # 0
        PROVE  proc'[x][q].pml4 # proc'[x][u].pml4
    <2>1. \A v \in Procs : proc[x][v].pml4 \in A[x] \cup {0}
      BY DEF Shape, ProcOK, Grow
    <2>2. /\ \A v \in Procs : (x # n \/ v # p) => proc'[x][v].pml4 = proc[x][v].pml4
          /\ proc[x][q].pml4 # 0 => proc[x][q].pml4 # proc[x][u].pml4
      BY <1>4 DEF OthersUntouched, Untouched, Shape
    <2>3. CASE x # n \/ (q # p /\ u # p)
      BY <1>4, <2>2, <2>3
    <2>4. CASE x = n /\ q = p
      BY <1>4, <2>1, <2>2, <2>4
    <2>5. CASE x = n /\ u = p
      BY <1>4, <2>1, <2>2, <2>5
    <2> QED BY <2>3, <2>4, <2>5
  <1>5. (\A x \in Nodes, a \in Addrs : PageOK(A2, D2, x, a, page[x][a]))'
    OBVIOUS
  <1>6. (\A x \in Nodes, q, u \in Procs :
           q # u /\ proc[x][q].pml4 # 0 => proc[x][q].pml4 # proc[x][u].pml4)'
    BY <1>4
  <1> QED BY <1>1, <1>2, <1>3, <1>5, <1>6 DEF Shape, OnceListed

(* A process whose node is not about it stays where it is. *)
LEMMA OthersWay ==
    ASSUME TypeOK, NEW A, NEW D, Shape(A, D), NEW n \in Nodes, NEW p \in Procs,
           OthersUntouched(n, p), NEW q \in Procs, q # p, Way(q), done'[q] = done[q],
           NEW k, NEW out, NetMove(k, out), Calm(q, k, out)
    PROVE  Way(q)'
  <1>1. Still(q)
    BY DEF Still, OthersUntouched, Untouched
  <1> QED BY <1>1, WayStays

(* A step of the process p at n, which has it. *)
LEMMA OwnWay ==
    ASSUME TypeOK, NEW A, NEW D, Shape(A, D), NEW n \in Nodes, NEW p \in Procs, Held(n, p),
           OthersUntouched(n, p), NEW k, NEW out, NetMove(k, out), Calm(p, k, out),
           proc'[n][p].state \in {"READY", "RUN", "PULL"}, ~DirPull(n, p)',
           proc'[n][p].sv = done'[p], proc'[n][p].pml4 = proc[n][p].pml4
    PROVE  Way(p)'
  <1>1. \A x \in Nodes \ {n} : /\ proc'[x][p].state = proc[x][p].state
                               /\ proc'[x][p].pml4 = proc[x][p].pml4
    BY DEF OthersUntouched, Untouched
  <1>2. Held(n, p)'
    BY <1>1, HeldStays
  <1> QED BY <1>2 DEF Way

(* Who has a process. *)
LEMMA HeldAt ==
    ASSUME NEW p \in Procs, Way(p), NEW n \in Nodes,
           \/ proc[n][p].state \in {"READY", "RUN"}
           \/ proc[n][p].state = "PULL" /\ ~DirPull(n, p)
    PROVE  Held(n, p)
  <1>1. ASSUME NEW m \in Nodes, Held(m, p)
        PROVE  Held(n, p)
    BY <1>1 DEF Held, Gone, IsAway
  <1>2. ASSUME NEW s \in Nodes, NEW d \in Nodes, InTransit(s, d, p)
        PROVE  FALSE
    BY <1>2 DEF InTransit, Sent, Gone, IsAway
  <1>3. ASSUME NEW s \in Nodes, NEW d \in Nodes, Arriving(s, d, p)
        PROVE  FALSE
    BY <1>3 DEF Arriving, Sent, Gone, IsAway
  <1> QED BY <1>1, <1>2, <1>3 DEF Way

-----------------------------------------------------------------------------
(* What goes over the network in a step *)

NoTake == [c \in Channels |-> 0]
Nothing == [c \in Channels |-> <<>>]

LEMMA QuietMove ==
    ASSUME TypeOK, net' = net
    PROVE  NetMove(NoTake, Nothing)
  <1>1. ASSUME NEW c \in Channels
        PROVE  Moves(net[c], 0, <<>>, net[c])
    <2>1. net[c] \in Seq(Packets) /\ <<>> \in Seq(Packets) /\ net[c] \o <<>> = net[c]
      BY EmptySeq, ConcatEmptySeq DEF TypeOK
    <2> QED BY <2>1, AppendMoves
  <1>2. Nothing \in [Channels -> Seq(Packets)]
    BY EmptySeq DEF Nothing
  <1> QED BY <1>1, <1>2 DEF NetMove, NoTake, Nothing, TypeOK

(* m is sent over c0. *)
Sends(c0, m) == [Nothing EXCEPT ![c0] = <<m>>]

LEMMA SendMove ==
    ASSUME TypeOK, NEW c0 \in Channels, NEW m \in Packets,
           net' = [net EXCEPT ![c0] = Append(@, m)]
    PROVE  /\ NetMove(NoTake, Sends(c0, m))
           /\ \A c \in Channels : \A j \in 1 .. Len(Sends(c0, m)[c]) :
                c = c0 /\ Sends(c0, m)[c][j] = m
  <1> DEFINE out == [Nothing EXCEPT ![c0] = <<m>>]
  <1>1. /\ out \in [Channels -> Seq(Packets)]
        /\ \A c \in Channels : out[c] = IF c = c0 THEN <<m>> ELSE <<>>
    <2>1. <<m>> \in Seq(Packets) /\ <<>> \in Seq(Packets)
      BY EmptySeq
    <2> QED BY <2>1 DEF Nothing
  <1>2. \A c \in Channels : net'[c] = net[c] \o out[c]
    <2>1. \A c \in Channels : net[c] \in Seq(Packets)
      BY DEF TypeOK
    <2>2. \A c \in Channels : net[c] \o <<>> = net[c]
      BY <2>1, ConcatEmptySeq
    <2>3. net[c0] \o <<m>> = Append(net[c0], m)
      BY <2>1
    <2> QED BY <1>1, <2>2, <2>3 DEF TypeOK
  <1>3. \A c \in Channels : net'[c] \in Seq(Packets) /\ Moves(net[c], 0, out[c], net'[c])
    <2> SUFFICES ASSUME NEW c \in Channels
                 PROVE  net'[c] \in Seq(Packets) /\ Moves(net[c], 0, out[c], net'[c])
      OBVIOUS
    <2>1. net[c] \in Seq(Packets) /\ out[c] \in Seq(Packets) /\ net'[c] = net[c] \o out[c]
      BY <1>1, <1>2 DEF TypeOK
    <2> HIDE DEF out
    <2> QED BY <2>1, AppendMoves
  <1>4. NetMove(NoTake, out)
    <2>1. net' \in [Channels -> Seq(Packets)]
      BY <1>3 DEF TypeOK
    <2> QED BY <1>1, <1>3, <2>1 DEF NetMove, NoTake
  <1>5. ASSUME NEW c \in Channels, NEW j \in 1 .. Len(out[c])
        PROVE  c = c0 /\ out[c][j] = m
    <2>1. Len(<<m>>) = 1 /\ <<m>>[1] = m /\ Len(<<>>) = 0
      OBVIOUS
    <2> QED BY <1>1, <2>1
  <1> QED BY <1>4, <1>5 DEF Sends

(* n takes the first packet from s and answers with o. *)
Take(s, n) == [NoTake EXCEPT ![<<s, n>>] = 1]
Answer(s, n, o) == [Nothing EXCEPT ![<<n, s>>] = o]

(* The packets that go in and out. *)
Exchanged(s, n, o, k, out) ==
    /\ NetMove(k, out)
    /\ \A c \in Channels : k[c] = 1 => c = <<s, n>>
    /\ k[<<s, n>>] = 1
    /\ \A c \in Channels : \A j \in 1 .. Len(out[c]) :
         c = <<n, s>> /\ j \in 1 .. Len(o) /\ out[c][j] = o[j]
    /\ Head(net[<<s, n>>]) = net[<<s, n>>][1] /\ 1 <= Len(net[<<s, n>>])

LEMMA ExchangeMove ==
    ASSUME TypeOK, NEW s \in Nodes, NEW n \in Nodes, s # n, net[<<s, n>>] # <<>>,
           NEW o \in Seq(Packets), Exchange(s, n, s, o)
    PROVE  Exchanged(s, n, o, Take(s, n), Answer(s, n, o))
  <1>1. PICK in, back : in = <<s, n>> /\ back = <<n, s>>
    OBVIOUS
  <1>2. in \in Channels /\ back \in Channels /\ in # back
    BY <1>1, ChannelPair
  <1>3. PICK k, out : k = Take(s, n) /\ out = Answer(s, n, o)
    OBVIOUS
  <1>4. /\ k \in [Channels -> {0, 1}] /\ out \in [Channels -> Seq(Packets)]
        /\ \A c \in Channels : k[c] = IF c = in THEN 1 ELSE 0
        /\ \A c \in Channels : out[c] = IF c = back THEN o ELSE <<>>
    BY <1>1, <1>2, <1>3, EmptySeq DEF Take, Answer, NoTake, Nothing
  <1>5. \A c \in Channels : net[c] \in Seq(Packets)
    BY DEF TypeOK
  <1>6. /\ net' \in [Channels -> UNION {Seq(Packets), {net'[in], net'[back]}}]
        /\ net'[in] = Tail(net[in]) /\ net'[back] = net[back] \o o
        /\ \A c \in Channels : c # in /\ c # back => net'[c] = net[c]
    BY <1>1, <1>2, <1>5 DEF Exchange, TypeOK
  <1>7. /\ Tail(net[in]) \in Seq(Packets) /\ Tail(net[in]) \o <<>> = Tail(net[in])
        /\ \A c \in Channels : net[c] \o <<>> = net[c]
    BY <1>1, <1>2, <1>5, HeadTailProperties, ConcatEmptySeq
  <1>8. /\ net'[in] \in Seq(Packets) /\ Moves(net[in], 1, <<>>, net'[in])
        /\ Head(net[in]) = net[in][1] /\ 1 <= Len(net[in])
    <2>1. net[in] \in Seq(Packets) /\ net[in] # <<>> /\ <<>> \in Seq(Packets)
      BY <1>1, <1>2, <1>5, EmptySeq
    <2>2. net'[in] = Tail(net[in]) \o <<>>
      BY <1>6, <1>7
    <2> QED BY <2>1, <2>2, TailMoves
  <1>9. net'[back] \in Seq(Packets) /\ Moves(net[back], 0, o, net'[back])
    BY <1>2, <1>5, <1>6, AppendMoves
  <1>10. \A c \in Channels : c # in /\ c # back =>
           net'[c] \in Seq(Packets) /\ Moves(net[c], 0, <<>>, net'[c])
    <2> SUFFICES ASSUME NEW c \in Channels, c # in /\ c # back
                 PROVE  net'[c] \in Seq(Packets) /\ Moves(net[c], 0, <<>>, net'[c])
      OBVIOUS
    <2>1. net[c] \in Seq(Packets) /\ <<>> \in Seq(Packets) /\ net'[c] = net[c] \o <<>>
      BY <1>5, <1>6, <1>7, EmptySeq
    <2> QED BY <2>1, AppendMoves
  <1>11. NetMove(k, out)
    <2>1. net' \in [Channels -> Seq(Packets)]
      BY <1>6, <1>8, <1>9, <1>10
    <2>2. \A c \in Channels : Moves(net[c], k[c], out[c], net'[c])
      BY <1>2, <1>4, <1>8, <1>9, <1>10
    <2> QED BY <1>4, <2>1, <2>2 DEF NetMove
  <1>12. \A c \in Channels : \A j \in 1 .. Len(out[c]) :
           c = back /\ j \in 1 .. Len(o) /\ out[c][j] = o[j]
    <2>1. 1 .. Len(<<>>) = {}
      OBVIOUS
    <2> QED BY <1>4, <2>1
  <1> QED BY <1>1, <1>2, <1>3, <1>4, <1>8, <1>11, <1>12 DEF Exchanged

-----------------------------------------------------------------------------
(* Steps of a process and of its node *)

SharedKept == \A x \in Nodes, a \in Addrs : page[x][a].shared \subseteq page'[x][a].shared

(* The state is good: typed, of the right shape, and every process on its way. *)
Good(A, D) == TypeOK /\ Shape(A, D) /\ \A p \in Procs : Way(p)
StillGood == TypeOK' /\ (\E A, D : Shape(A, D)') /\ \A p \in Procs : Way(p)'

LEMMA AddrNat == \A a \in Addrs \cup {0} : a \in Nat
  BY NetAssumption

LEMMA Pml4Type ==
    ASSUME TypeOK, NEW A, NEW D, Shape(A, D), NEW x \in Nodes, NEW p \in Procs
    PROVE  /\ proc[x][p].pml4 = 0 \/ (proc[x][p].pml4 \in Addrs /\ proc[x][p].pml4 \in D[x])
           /\ proc[x][p].state \in {"READY", "RUN", "PULL", "MIGR"} => proc[x][p].pml4 \in Addrs
  BY DEF Shape, ProcOK, Grow

LEMMA SharedDirs ==
    ASSUME TypeOK, NEW A, NEW D, Shape(A, D), NEW p \in Procs, SharedKept, NEW x \in Nodes,
           proc[x][p].pml4 # 0
    PROVE  page[x][proc[x][p].pml4].shared \subseteq page'[x][proc[x][p].pml4].shared
  BY Pml4Type DEF SharedKept

LEMMA CalmQuiet ==
    ASSUME TypeOK, NEW A, NEW D, Shape(A, D), NEW p \in Procs,
           panicked \subseteq panicked', SharedKept
    PROVE  Calm(p, NoTake, Nothing)
  <1>1. \A c \in Channels : NoTake[c] = 0 /\ 1 .. Len(Nothing[c]) = {}
    BY DEF NoTake, Nothing
  <1>2. \A x \in Nodes : proc[x][p].pml4 # 0 =>
          page[x][proc[x][p].pml4].shared \subseteq page'[x][proc[x][p].pml4].shared
    BY SharedDirs
  <1>3. PICK k, out : k = NoTake /\ out = Nothing
    OBVIOUS
  <1>4. \A c \in Channels : k[c] # 1 /\ \A j \in 1 .. Len(out[c]) : FALSE
    BY <1>1, <1>3
  <1>5. Calm(p, k, out)
    BY <1>2, <1>4 DEF Calm
  <1> QED BY <1>3, <1>5

(* A step of the process p at n that sends nothing. *)
LEMMA QuietWay ==
    ASSUME NEW A, NEW D, Good(A, D), NEW n \in Nodes, NEW p \in Procs, Held(n, p),
           OthersUntouched(n, p), net' = net, panicked \subseteq panicked', SharedKept,
           \A q \in Procs \ {p} : done'[q] = done[q],
           proc'[n][p].state \in {"READY", "RUN", "PULL"}, ~DirPull(n, p)',
           proc'[n][p].sv = done'[p], proc'[n][p].pml4 = proc[n][p].pml4
    PROVE  \A q \in Procs : Way(q)'
  <1>1. TypeOK /\ Shape(A, D) /\ NetMove(NoTake, Nothing)
    BY QuietMove DEF Good
  <1>2. \A q \in Procs : Calm(q, NoTake, Nothing)
    BY <1>1, CalmQuiet
  <1>3. Way(p)'
    BY <1>1, <1>2, OwnWay
  <1>4. \A q \in Procs \ {p} : Way(q)'
    BY <1>1, <1>2, OthersWay DEF Good
  <1> QED BY <1>3, <1>4

LEMMA QuietShape ==
    ASSUME TypeOK, NEW A, NEW D, Shape(A, D), NEW n \in Nodes, NEW p \in Procs,
           NEW A2, NEW D2, Grow(A, D, A2, D2), net' = net, pulllist' = pulllist,
           \A x \in Nodes, a \in Addrs : PageOK(A2, D2, x, a, page'[x][a]),
           OthersUntouched(n, p), DirectoriesKept(n, p),
           ProcOK(A2, D2, n, p, proc[n][p])', proc'[n][p].pml4 = proc[n][p].pml4
    PROVE  Shape(A2, D2)'
  <1>1. NetMove(NoTake, Nothing)
    BY QuietMove
  <1>2. \A c \in Channels : \A j \in 1 .. Len(Nothing[c]) : PacketOK(A2, D2, c, Nothing[c][j])
    BY DEF Nothing
  <1>3. \A x \in Nodes : OnceListed(x)'
    BY DEF Shape, OnceListed
  <1> QED BY <1>1, <1>2, <1>3, ShapeStep

(* A step that changes one record. *)
LEMMA ProcUpdate ==
    ASSUME TypeOK, NEW n \in Nodes, NEW p \in Procs, NEW r \in ProcRecords, r.migrdest # n,
           proc' = [proc EXCEPT ![n][p] = r]
    PROVE  /\ proc' \in [Nodes -> [Procs -> ProcRecords]] /\ proc'[n][p] = r
           /\ \A x \in Nodes, q \in Procs : x # n \/ q # p => proc'[x][q] = proc[x][q]
           /\ \A x \in Nodes, q \in Procs : proc'[x][q].migrdest # x
  <1>1. /\ proc' \in [Nodes -> [Procs -> ProcRecords]] /\ proc'[n][p] = r
        /\ \A x \in Nodes, q \in Procs : x # n \/ q # p => proc'[x][q] = proc[x][q]
    BY DEF TypeOK
  <1>2. \A x \in Nodes, q \in Procs : proc[x][q].migrdest # x
    BY DEF TypeOK
  <1> QED BY <1>1, <1>2

LEMMA SamePages ==
    ASSUME NEW A, NEW D, Shape(A, D), page' = page
    PROVE  /\ \A x \in Nodes, a \in Addrs : PageOK(A, D, x, a, page'[x][a])
           /\ \A n \in Nodes, p \in Procs : DirectoriesKept(n, p)
           /\ SharedKept
  BY DEF Shape, DirectoriesKept, SharedKept

(* A step of the process p, which is at n, or of the kernel for it. *)
LEMMA OwnStep ==
    ASSUME NEW A, NEW D, Good(A, D), NEW n \in Nodes, NEW p \in Procs, Held(n, p),
           NEW r \in ProcRecords, proc' = [proc EXCEPT ![n][p] = r],
           r.migrdest = proc[n][p].migrdest, r.pml4 = proc[n][p].pml4,
           r.pullpg = proc[n][p].pullpg,
           r.state \in {"READY", "RUN", "PULL"}, r.sv = done'[p],
           NEW A2, NEW D2, Grow(A, D, A2, D2),
           net' = net, pulllist' = pulllist, panicked' = panicked,
           \A x \in Nodes, q \in Procs : rx'[x] = q => rx[x] = q,
           \A q \in Procs \ {p} : done'[q] = done[q],
           \A x \in Nodes, a \in Addrs : PageOK(A2, D2, x, a, page'[x][a]),
           DirectoriesKept(n, p), SharedKept, ProcOK(A2, D2, n, p, r)'
    PROVE  /\ proc' \in [Nodes -> [Procs -> ProcRecords]]
           /\ \A x \in Nodes, q \in Procs : proc'[x][q].migrdest # x
           /\ \E A3, D3 : Shape(A3, D3)'
           /\ \A q \in Procs : Way(q)'
  <1>1. TypeOK /\ Shape(A, D)
    BY DEF Good
  <1>2. r.migrdest # n
    BY <1>1 DEF TypeOK
  <1>3. /\ proc' \in [Nodes -> [Procs -> ProcRecords]] /\ proc'[n][p] = r
        /\ \A x \in Nodes, q \in Procs : x # n \/ q # p => proc'[x][q] = proc[x][q]
        /\ \A x \in Nodes, q \in Procs : proc'[x][q].migrdest # x
    BY <1>1, <1>2, ProcUpdate
  <1>4. \A x \in Nodes : Listed(x)' = Listed(x)
    BY DEF Listed
  <1>5. OthersUntouched(n, p)
    BY <1>3, <1>4 DEF OthersUntouched, Untouched
  <1>6. ProcOK(A2, D2, n, p, proc[n][p])' /\ proc'[n][p].pml4 = proc[n][p].pml4
    BY <1>3
  <1>7. Shape(A2, D2)'
    BY <1>1, <1>5, <1>6, QuietShape
  <1>8. /\ proc'[n][p].state \in {"READY", "RUN", "PULL"} /\ ~DirPull(n, p)'
        /\ proc'[n][p].sv = done'[p]
    BY <1>3, <1>4 DEF Held, DirPull
  <1>9. \A q \in Procs : Way(q)'
    BY <1>5, <1>6, <1>8, QuietWay
  <1> QED BY <1>3, <1>7, <1>9

LEMMA ProcRunStep ==
    ASSUME NEW A, NEW D, Good(A, D), NEW n \in Nodes, NEW p \in Procs, ProcRun(n, p)
    PROVE  StillGood
  <1>1. TypeOK /\ Shape(A, D) /\ proc[n][p] \in ProcRecords /\ Grow(A, D, A, D)
    <2>1. TypeOK /\ Shape(A, D)
      BY DEF Good
    <2>2. proc[n][p] \in ProcRecords
      BY <2>1 DEF TypeOK
    <2>3. Grow(A, D, A, D)
      BY <2>1 DEF Shape
    <2> QED BY <2>1, <2>2, <2>3
  <1>2. PICK r : r = [proc[n][p] EXCEPT !.state = "RUN"]
    OBVIOUS
  <1>3. /\ r \in ProcRecords /\ proc' = [proc EXCEPT ![n][p] = r] /\ r.state = "RUN"
        /\ r.migrdest = proc[n][p].migrdest /\ r.pml4 = proc[n][p].pml4
        /\ r.pullpg = proc[n][p].pullpg /\ r.sv = proc[n][p].sv
    BY <1>1, <1>2 DEF ProcRun, ProcRecords
  <1>4. /\ proc[n][p].state = "READY"
        /\ UNCHANGED <<page, pulllist, rx, panicked, net, budget, done, mem>>
    BY DEF ProcRun, history
  <1>5. ProcOK(A, D, n, p, proc[n][p])
    BY <1>1 DEF Shape
  <1>6. ProcOK(A, D, n, p, r)'
    BY <1>1, <1>3, <1>4, <1>5 DEF ProcOK, PullOK, Listed
  <1>7. Held(n, p)
    BY <1>4, HeldAt DEF Good
  <1>8. r.sv = done'[p]
    BY <1>3, <1>4, <1>7 DEF Held
  <1>9. /\ proc' \in [Nodes -> [Procs -> ProcRecords]]
        /\ \A x \in Nodes, q \in Procs : proc'[x][q].migrdest # x
        /\ \E A3, D3 : Shape(A3, D3)'
        /\ \A q \in Procs : Way(q)'
    BY <1>1, <1>3, <1>4, <1>6, <1>7, <1>8, SamePages, OwnStep
  <1>10. TypeOK'
    BY <1>1, <1>4, <1>9 DEF TypeOK
  <1> QED BY <1>9, <1>10 DEF StillGood

LEMMA WorkStep ==
    ASSUME NEW A, NEW D, Good(A, D), NEW n \in Nodes, NEW p \in Procs, Work(n, p)
    PROVE  StillGood
  <1>1. /\ TypeOK /\ Shape(A, D) /\ proc[n][p] \in ProcRecords /\ Grow(A, D, A, D)
        /\ done \in [Procs -> Nat]
    BY DEF Good, TypeOK, Shape
  <1>2. PICK r : r = [proc[n][p] EXCEPT !.sv = @ + 1]
    OBVIOUS
  <1>3. /\ r \in ProcRecords /\ proc' = [proc EXCEPT ![n][p] = r]
        /\ r.state = proc[n][p].state
        /\ r.migrdest = proc[n][p].migrdest /\ r.pml4 = proc[n][p].pml4
        /\ r.pullpg = proc[n][p].pullpg /\ r.sv = proc[n][p].sv + 1
        /\ r.pullrr = proc[n][p].pullrr /\ r.pullva = proc[n][p].pullva
    BY <1>1, <1>2 DEF Work, ProcRecords
  <1>4. /\ proc[n][p].state = "RUN" /\ done' = [done EXCEPT ![p] = @ + 1]
        /\ UNCHANGED <<page, pulllist, rx, panicked, net, budget, mem>>
    BY DEF Work, Running
  <1>5. ProcOK(A, D, n, p, proc[n][p])
    BY <1>1 DEF Shape
  <1>6. ProcOK(A, D, n, p, r)'
    BY <1>1, <1>3, <1>4, <1>5 DEF ProcOK, PullOK, Listed
  <1>7. Held(n, p)
    BY <1>4, HeldAt DEF Good
  <1>8. /\ r.sv = done'[p] /\ done' \in [Procs -> Nat]
        /\ \A q \in Procs \ {p} : done'[q] = done[q]
    BY <1>1, <1>3, <1>4, <1>7 DEF Held
  <1>9. /\ proc' \in [Nodes -> [Procs -> ProcRecords]]
        /\ \A x \in Nodes, q \in Procs : proc'[x][q].migrdest # x
        /\ \E A3, D3 : Shape(A3, D3)'
        /\ \A q \in Procs : Way(q)'
    BY <1>1, <1>3, <1>4, <1>6, <1>7, <1>8, SamePages, OwnStep
  <1>10. TypeOK'
    BY <1>1, <1>4, <1>8, <1>9 DEF TypeOK
  <1> QED BY <1>9, <1>10 DEF StillGood

LEMMA PullDoneStep ==
    ASSUME NEW A, NEW D, Good(A, D), NEW n \in Nodes, NEW p \in Procs, PullDone(n, p)
    PROVE  StillGood
  <1>1. /\ TypeOK /\ Shape(A, D) /\ proc[n][p] \in ProcRecords /\ Grow(A, D, A, D)
        /\ rx \in [Nodes -> Procs \cup {NoProc}]
    BY DEF Good, TypeOK, Shape
  <1>2. PICK r : r = [proc[n][p] EXCEPT !.state = "READY"]
    OBVIOUS
  <1>3. /\ r \in ProcRecords /\ proc' = [proc EXCEPT ![n][p] = r] /\ r.state = "READY"
        /\ r.migrdest = proc[n][p].migrdest /\ r.pml4 = proc[n][p].pml4
        /\ r.pullpg = proc[n][p].pullpg /\ r.sv = proc[n][p].sv
    BY <1>1, <1>2 DEF PullDone, ProcRecords
  <1>4. /\ rx[n] = p /\ proc[n][p].pullva = NParts /\ rx' = [rx EXCEPT ![n] = NoProc]
        /\ UNCHANGED <<page, pulllist, panicked, net, budget, done, mem>>
    BY DEF PullDone, history
  <1>5. /\ ProcOK(A, D, n, p, proc[n][p]) /\ proc[n][p].state = "PULL"
        /\ p \notin Listed(n)
    BY <1>1, <1>4 DEF Shape, ProcOK
  <1>6. /\ rx' \in [Nodes -> Procs \cup {NoProc}]
        /\ \A x \in Nodes, q \in Procs : rx'[x] = q => rx[x] = q /\ x # n
    BY <1>1, <1>4, NetAssumption DEF NoProc
  <1>7. ProcOK(A, D, n, p, r)'
    <2>1. \A va \in Parts : va < NParts
      BY NetAssumption DEF Parts
    <2>2. p \notin Listed(n)' /\ rx'[n] # p
      BY <1>4, <1>5, <1>6 DEF Listed
    <2> QED BY <1>3, <1>4, <1>5, <2>1, <2>2 DEF ProcOK
  <1>8. Held(n, p)
    BY <1>5, HeldAt DEF Good, DirPull
  <1>9. r.sv = done'[p]
    BY <1>3, <1>4, <1>8 DEF Held
  <1>10. /\ proc' \in [Nodes -> [Procs -> ProcRecords]]
         /\ \A x \in Nodes, q \in Procs : proc'[x][q].migrdest # x
         /\ \E A3, D3 : Shape(A3, D3)'
         /\ \A q \in Procs : Way(q)'
    BY <1>1, <1>3, <1>4, <1>6, <1>7, <1>8, <1>9, SamePages, OwnStep
  <1>11. TypeOK'
    BY <1>1, <1>4, <1>6, <1>10 DEF TypeOK
  <1> QED BY <1>10, <1>11 DEF StillGood

(* A failed assertion. *)
LEMMA PanicStep ==
    ASSUME NEW A, NEW D, Good(A, D), NEW n \in Nodes, Panic(n)
    PROVE  StillGood
  <1>1. TypeOK /\ Shape(A, D)
    BY DEF Good
  <1>2. /\ panicked' = panicked \cup {n}
        /\ UNCHANGED <<proc, page, pulllist, rx, net, budget, done, mem>>
    BY DEF Panic, history
  <1>3. TypeOK'
    BY <1>1, <1>2 DEF TypeOK
  <1>4. Shape(A, D)'
    <2>1. \A x \in Nodes : Listed(x)' = Listed(x)
      BY <1>2 DEF Listed
    <2>2. ASSUME NEW x \in Nodes, NEW q \in Procs
          PROVE  ProcOK(A, D, x, q, proc[x][q])'
      <3>1. ProcOK(A, D, x, q, proc[x][q]) /\ Grow(A, D, A, D)
        BY <1>1 DEF Shape
      <3> QED BY <1>2, <2>1, <3>1, ProcKeeps
    <2>3. (\A x \in Nodes, q \in Procs : ProcOK(A, D, x, q, proc[x][q]))'
      BY <2>2
    <2> QED BY <1>1, <1>2, <2>3 DEF Shape
  <1>5. ASSUME NEW p \in Procs
        PROVE  Way(p)'
    <2>1. NetMove(NoTake, Nothing) /\ Calm(p, NoTake, Nothing)
      BY <1>1, <1>2, SamePages, QuietMove, CalmQuiet
    <2>2. Still(p)
      BY <1>2 DEF Still, Listed
    <2> QED BY <1>1, <2>1, <2>2, WayStays DEF Good
  <1> QED BY <1>3, <1>4, <1>5 DEF StillGood

(* net_pullpte: one turn of the loop that makes word the entry. *)
LEMMA ResolveStep ==
    ASSUME NEW A, NEW D, Good(A, D), NEW n \in Nodes, NEW p \in Procs, Pulling(n, p),
           NEW word \in Words, EntryOK(A, D, n, word), word.k # "remote", NEW a,
           a # 0 => a \in Addrs /\ page[n][a].shared # {}, Resolve(n, p, word, a)
    PROVE  StillGood
  <1>1. TypeOK /\ Shape(A, D) /\ Grow(A, D, A, D)
    BY DEF Good, Shape
  <1>2. PICK dir, va : dir = proc[n][p].pml4 /\ va = proc[n][p].pullva
    OBVIOUS
  <1>3. /\ rx[n] = p /\ va \in Parts /\ va + 1 \in 0 .. NParts /\ proc[n][p] \in ProcRecords
        /\ va \in Nat
    <2>1. proc[n][p] \in ProcRecords
      BY <1>1 DEF TypeOK
    <2> QED BY <1>1, <1>2, <2>1, NetAssumption DEF Pulling, ProcRecords, Parts
  <1>4. /\ ProcOK(A, D, n, p, proc[n][p]) /\ proc[n][p].state = "PULL"
        /\ p \notin Listed(n) /\ dir \in Addrs /\ dir \in D[n]
    <2>1. ProcOK(A, D, n, p, proc[n][p])
      BY <1>1 DEF Shape
    <2>2. proc[n][p].state = "PULL" /\ p \notin Listed(n)
      BY <1>3, <2>1 DEF ProcOK
    <2>3. dir \in Addrs /\ dir \in D[n]
      BY <1>1, <1>2, <2>2, Pml4Type, NetAssumption
    <2> QED BY <2>1, <2>2, <2>3
  <1>5. Held(n, p)
    BY <1>4, HeldAt DEF Good, DirPull
  <1>6a. PICK set : set = [page[n] EXCEPT ![dir].data[va] = word]
    OBVIOUS
  <1>6. PICK pages : pages = IF a = 0 THEN set ELSE [set EXCEPT ![a].ref = @ + 1]
    OBVIOUS
  <1>7. /\ page' = [page EXCEPT ![n] = pages]
        /\ proc' = [proc EXCEPT ![n][p].pullva = va + 1]
        /\ UNCHANGED <<pulllist, rx, panicked, net, budget, done, mem>>
    <2>1. page' = [page EXCEPT ![n] = IF a = 0 THEN set ELSE [set EXCEPT ![a].ref = @ + 1]]
      <3> DEFINE made == [page[n] EXCEPT ![proc[n][p].pml4].data[proc[n][p].pullva] = word]
      <3>1. page' = [page EXCEPT ![n] = IF a = 0 THEN made ELSE [made EXCEPT ![a].ref = @ + 1]]
        BY DEF Resolve
      <3>2. made = set
        BY <1>2, <1>6a
      <3> HIDE DEF made
      <3> QED BY <3>1, <3>2
    <2>2. proc' = [proc EXCEPT ![n][p].pullva = va + 1]
      BY <1>2 DEF Resolve
    <2>3. UNCHANGED <<pulllist, rx, panicked, net, budget, done, mem>>
      BY DEF Resolve, history
    <2> QED BY <1>6, <2>1, <2>2, <2>3
  <1>8. /\ set \in [Addrs -> PageRecords]
        /\ \A b \in Addrs : /\ set[b].home = page[n][b].home
                            /\ set[b].shared = page[n][b].shared
                            /\ set[b].ref = page[n][b].ref
                            /\ b # dir => set[b].data = page[n][b].data
        /\ set[dir].data = [page[n][dir].data EXCEPT ![va] = word]
    <2>1. page[n] \in [Addrs -> PageRecords]
      BY <1>1 DEF TypeOK
    <2>2. PICK q : q = [page[n][dir] EXCEPT !.data[va] = word]
      OBVIOUS
    <2>3. /\ q \in PageRecords /\ q.home = page[n][dir].home /\ q.shared = page[n][dir].shared
          /\ q.ref = page[n][dir].ref /\ q.data = [page[n][dir].data EXCEPT ![va] = word]
      BY <1>3, <1>4, <2>1, <2>2 DEF PageRecords
    <2>4. set = [page[n] EXCEPT ![dir] = q]
      BY <1>6a, <2>2
    <2> QED BY <1>4, <2>1, <2>3, <2>4
  <1>9. /\ pages \in [Addrs -> PageRecords]
        /\ \A b \in Addrs : /\ pages[b].home = page[n][b].home
                            /\ pages[b].shared = page[n][b].shared
                            /\ b # a => pages[b].ref = page[n][b].ref
                            /\ b # dir => pages[b].data = page[n][b].data
        /\ pages[dir].data = [page[n][dir].data EXCEPT ![va] = word]
    <2>1. CASE a = 0
      BY <1>6, <1>8, <2>1
    <2>2. CASE a # 0
      <3>1. PICK q : q = [set[a] EXCEPT !.ref = @ + 1]
        OBVIOUS
      <3>2. /\ q \in PageRecords /\ q.home = set[a].home /\ q.shared = set[a].shared
            /\ q.data = set[a].data
        BY <1>8, <2>2, <3>1 DEF PageRecords
      <3>3. pages = [set EXCEPT ![a] = q]
        BY <1>6, <2>2, <3>1
      <3> QED BY <1>8, <2>2, <3>2, <3>3
    <2> QED BY <2>1, <2>2
  <1>10. /\ page' \in [Nodes -> [Addrs -> PageRecords]] /\ page'[n] = pages
         /\ \A x \in Nodes : x # n => page'[x] = page[x]
    BY <1>1, <1>7, <1>9 DEF TypeOK
  <1>11. SharedKept /\ \A x \in Nodes, b \in Addrs : page'[x][b].shared = page[x][b].shared
    BY <1>9, <1>10 DEF SharedKept
  <1>12. ASSUME NEW x \in Nodes, NEW b \in Addrs
         PROVE  PageOK(A, D, x, b, page'[x][b])
    <2>1. PageOK(A, D, x, b, page[x][b])
      BY <1>1 DEF Shape
    <2>2. CASE x # n
      BY <1>10, <2>1, <2>2
    <2>3. CASE x = n /\ b # dir
      <3>1. b \in A[n] => pages[b].ref # 0 \/ pages[b].shared # {}
        <4>1. CASE b = a
          BY <1>9, <4>1, NetAssumption
        <4>2. CASE b # a
          BY <1>9, <2>1, <2>3, <4>2 DEF PageOK
        <4> QED BY <4>1, <4>2
      <3> QED BY <1>1, <1>9, <1>10, <2>1, <2>3, <3>1, PageKeeps
    <2>4. CASE x = n /\ b = dir
      <3>1. b \in A[n] => pages[b].ref # 0 \/ pages[b].shared # {}
        BY <1>9, <2>1, <2>4, NetAssumption DEF PageOK
      <3>2. \A i \in Parts : EntryOK(A, D, n, pages[b].data[i])
        <4>1. \A i \in Parts : EntryOK(A, D, n, page[n][b].data[i])
          BY <1>4, <2>1, <2>4 DEF PageOK
        <4>2. page[n][b].data \in [Parts -> Words]
          BY <1>1 DEF TypeOK, PageRecords
        <4> QED BY <1>9, <2>4, <4>1, <4>2
      <3> QED BY <1>4, <1>9, <1>10, <2>1, <2>4, <3>1, <3>2 DEF PageOK
    <2> QED BY <2>2, <2>3, <2>4
  <1>13. DirectoriesKept(n, p)
    <2>1. ASSUME NEW x \in Nodes, NEW q \in Procs, x # n \/ q # p, proc[x][q].pml4 # 0
          PROVE  page'[x][proc[x][q].pml4].data = page[x][proc[x][q].pml4].data
      <3>1. proc[x][q].pml4 \in Addrs /\ (x = n => proc[x][q].pml4 # dir)
        BY <1>1, <1>2, <2>1, Pml4Type DEF Shape
      <3> QED BY <1>9, <1>10, <3>1
    <2> QED BY <2>1 DEF DirectoriesKept
  <1>14. PICK r : r = [proc[n][p] EXCEPT !.pullva = va + 1]
    OBVIOUS
  <1>15. /\ r \in ProcRecords /\ proc' = [proc EXCEPT ![n][p] = r]
         /\ r.state = proc[n][p].state
         /\ r.migrdest = proc[n][p].migrdest /\ r.pml4 = proc[n][p].pml4
         /\ r.pullpg = proc[n][p].pullpg /\ r.sv = proc[n][p].sv
         /\ r.pullrr = proc[n][p].pullrr /\ r.pullva = va + 1
    BY <1>3, <1>7, <1>14 DEF ProcRecords
  <1>16. ProcOK(A, D, n, p, r)'
    <2>1. p \notin Listed(n)' /\ rx'[n] = rx[n]
      BY <1>4, <1>7 DEF Listed
    <2>2. ASSUME NEW i \in Parts, i < va + 1
          PROVE  page'[n][dir].data[i].k # "remote"
      <3>1. page[n][dir].data \in [Parts -> Words]
        BY <1>1, <1>4 DEF TypeOK, PageRecords
      <3>2. i \in Nat
        BY NetAssumption DEF Parts
      <3>3. CASE i = va
        BY <1>3, <1>9, <1>10, <3>1, <3>3
      <3>4. CASE i < va
        <4>1. page[n][dir].data[i].k # "remote"
          BY <1>2, <1>4, <3>4 DEF ProcOK
        <4>2. page'[n][dir].data[i] = page[n][dir].data[i]
          BY <1>3, <1>4, <1>9, <1>10, <3>1, <3>2, <3>4
        <4> QED BY <4>1, <4>2
      <3> QED BY <1>3, <2>2, <3>2, <3>3, <3>4
    <2> QED BY <1>2, <1>4, <1>15, <2>1, <2>2 DEF ProcOK
  <1>17. r.sv = done'[p]
    BY <1>5, <1>7, <1>15 DEF Held
  <1>18. /\ proc' \in [Nodes -> [Procs -> ProcRecords]]
         /\ \A x \in Nodes, q \in Procs : proc'[x][q].migrdest # x
         /\ \E A3, D3 : Shape(A3, D3)'
         /\ \A q \in Procs : Way(q)'
    BY <1>1, <1>4, <1>5, <1>7, <1>11, <1>12, <1>13, <1>15, <1>16, <1>17, OwnStep
  <1>19. TypeOK'
    BY <1>1, <1>7, <1>10, <1>11, <1>18 DEF TypeOK
  <1> QED BY <1>18, <1>19 DEF StillGood

(* The entry that the loop is at. *)
LEMMA EntryFacts ==
    ASSUME NEW A, NEW D, Good(A, D), NEW n \in Nodes, NEW p \in Procs, Pulling(n, p)
    PROVE  /\ Entry(n, p) \in Words /\ EntryOK(A, D, n, Entry(n, p))
           /\ proc[n][p].pml4 \in Addrs /\ proc[n][p].pml4 \in D[n]
           /\ proc[n][p].pullva \in Parts
           /\ proc[n][p].state = "PULL" /\ p \notin Listed(n)
  <1>1. TypeOK /\ Shape(A, D)
    BY DEF Good
  <1>2. /\ proc[n][p] \in ProcRecords /\ proc[n][p].state = "PULL" /\ p \notin Listed(n)
    BY <1>1 DEF TypeOK, Pulling, Shape, ProcOK
  <1>3. proc[n][p].pullva \in Parts
    BY <1>2, NetAssumption DEF Pulling, ProcRecords, Parts
  <1>4. proc[n][p].pml4 \in Addrs /\ proc[n][p].pml4 \in D[n]
    BY <1>1, <1>2, Pml4Type, NetAssumption
  <1>5. page[n][proc[n][p].pml4] \in PageRecords
    BY <1>1, <1>4 DEF TypeOK
  <1>6. PageOK(A, D, n, proc[n][p].pml4, page[n][proc[n][p].pml4])
    BY <1>1, <1>4 DEF Shape
  <1> QED BY <1>2, <1>3, <1>4, <1>5, <1>6 DEF Entry, PageRecords, PageOK

LEMMA ResolvedStep ==
    ASSUME NEW A, NEW D, Good(A, D), NEW n \in Nodes, NEW p \in Procs,
           PullLocal(n, p) \/ PullZero(n, p) \/ PullOwn(n, p) \/ PullTracked(n, p)
    PROVE  StillGood
  <1>1. Pulling(n, p)
    BY DEF PullLocal, PullZero, PullOwn, PullTracked
  <1>2. PICK w : w = Entry(n, p)
    OBVIOUS
  <1>3. w \in Words /\ EntryOK(A, D, n, w)
    BY <1>1, <1>2, EntryFacts
  <1>4. CASE PullLocal(n, p)
    BY <1>1, <1>2, <1>3, <1>4, ResolveStep DEF PullLocal
  <1>5. CASE PullZero(n, p)
    <2>1. Zero \in Words /\ EntryOK(A, D, n, Zero) /\ Zero.k # "remote"
      BY DEF Zero, Word, Words, EntryOK
    <2> QED BY <1>1, <1>5, <2>1, ResolveStep DEF PullZero
  <1>6. CASE PullOwn(n, p)
    <2>1. w.k = "remote" /\ w.n = n
      BY <1>2, <1>6 DEF PullOwn
    <2>2. w # ZeroRR /\ w # Zero
      BY <2>1, NetAssumption DEF ZeroRR, RR, Zero, Word
    <2>3. w.a \in A[n] /\ w.a \notin D[n] /\ w.a \in Addrs /\ w.a # 0
      BY <1>3, <2>1, <2>2, NetAssumption DEF EntryOK, RemoteOK, DataRef, Good, Shape, Grow
    <2>4. /\ Local(w.a) \in Words /\ EntryOK(A, D, n, Local(w.a))
          /\ Local(w.a).k # "remote"
      BY <2>3, NetAssumption DEF Local, Word, Words, EntryOK
    <2>5. \/ Panic(n)
          \/ page[n][w.a].shared # {} /\ Resolve(n, p, Local(w.a), w.a)
      BY <1>2, <1>6 DEF PullOwn
    <2> QED BY <1>1, <2>3, <2>4, <2>5, PanicStep, ResolveStep
  <1>7. CASE PullTracked(n, p)
    <2>1. PICK a \in Addrs : /\ page[n][a].home = w
                             /\ \/ Panic(n)
                                \/ page[n][a].shared # {} /\ Resolve(n, p, Local(a), a)
      BY <1>2, <1>7 DEF PullTracked, Tracked
    <2>2. w # NoRR
      BY <1>2, <1>7 DEF PullTracked, NoRR, ZeroRR, RR, Word
    <2>3. a \in A[n] /\ a \notin D[n]
      BY <2>1, <2>2 DEF Good, Shape, PageOK
    <2>4. /\ Local(a) \in Words /\ EntryOK(A, D, n, Local(a)) /\ Local(a).k # "remote"
      BY <2>3, NetAssumption DEF Local, Word, Words, EntryOK
    <2> QED BY <1>1, <2>1, <2>4, PanicStep, ResolveStep
  <1> QED BY <1>4, <1>5, <1>6, <1>7

(* mem_alloc gives a page that was never in use. *)
LEMMA AllocFacts ==
    ASSUME TypeOK, NEW A, NEW D, Shape(A, D), NEW n \in Nodes, FreeAddrs(n) # {}
    PROVE  /\ Alloc(n) \in Addrs /\ Alloc(n) \notin A[n] /\ Alloc(n) # 0
           /\ page[n][Alloc(n)].shared = {}
  <1>1. Alloc(n) \in FreeAddrs(n)
    BY DEF Alloc
  <1> QED BY <1>1, NetAssumption DEF FreeAddrs, Shape, PageOK

LEMMA GrowPage ==
    ASSUME NEW A, NEW D, Grow(A, D, A, D), NEW n \in Nodes, NEW a \in Addrs, a \notin A[n]
    PROVE  /\ Grow(A, D, [A EXCEPT ![n] = @ \cup {a}], D)
           /\ Grow(A, D, [A EXCEPT ![n] = @ \cup {a}], [D EXCEPT ![n] = @ \cup {a}])
  BY DEF Grow

(* The pages of n change. *)
PagesAt(n, pages) ==
    /\ page' \in [Nodes -> [Addrs -> PageRecords]] /\ page'[n] = pages
    /\ \A x \in Nodes : x # n => page'[x] = page[x]

LEMMA PagesUpdate ==
    ASSUME TypeOK, NEW n \in Nodes, NEW pages \in [Addrs -> PageRecords],
           page' = [page EXCEPT ![n] = pages]
    PROVE  PagesAt(n, pages)
  BY DEF TypeOK, PagesAt

(* pages are the pages of n after a has become the entry of va in dir. *)
EntryMade(A, n, dir, va, a, pages) ==
    /\ pages \in [Addrs -> PageRecords]
    /\ pages[dir].home = page[n][dir].home /\ pages[dir].shared = page[n][dir].shared
    /\ pages[dir].ref = page[n][dir].ref
    /\ pages[dir].data = [page[n][dir].data EXCEPT ![va] = Local(a)]
    /\ \A b \in Addrs \ {a, dir} :
         /\ pages[b].home = page[n][b].home /\ pages[b].data = page[n][b].data
         /\ pages[b].shared = page[n][b].shared
         /\ b \in A[n] => pages[b].ref # 0 \/ pages[b].shared # {}

(* A fresh page a becomes the entry of va in the directory of p. *)
LEMMA NewEntry ==
    ASSUME TypeOK, NEW A, NEW D, Shape(A, D), NEW n \in Nodes, NEW p \in Procs,
           proc[n][p].pml4 \in Addrs, proc[n][p].pml4 \in D[n],
           NEW va \in Parts, NEW a \in Addrs, a \notin A[n], page[n][a].shared = {},
           NEW A2, Grow(A, D, A2, D), a \in A2[n],
           \A x \in Nodes, b \in Addrs : b \in A2[x] => b \in A[x] \/ (x = n /\ b = a),
           NEW pages, EntryMade(A, n, proc[n][p].pml4, va, a, pages), PagesAt(n, pages),
           PageOK(A2, D, n, a, pages[a]), n \notin pages[a].shared
    PROVE  /\ \A x \in Nodes, b \in Addrs : x \notin page'[x][b].shared
           /\ \A x \in Nodes, b \in Addrs : PageOK(A2, D, x, b, page'[x][b])
           /\ DirectoriesKept(n, p) /\ SharedKept
  <1> PICK dir : dir = proc[n][p].pml4
    OBVIOUS
  <1>0. dir \in Addrs /\ dir \in D[n] /\ EntryMade(A, n, dir, va, a, pages)
    OBVIOUS
  <1>1. a # dir /\ a \notin D[n] /\ dir \in A[n]
    BY <1>0 DEF Grow
  <1>2. /\ page' \in [Nodes -> [Addrs -> PageRecords]] /\ page'[n] = pages
        /\ \A x \in Nodes : x # n => page'[x] = page[x]
    BY DEF PagesAt
  <1>3. SharedKept /\ \A x \in Nodes, b \in Addrs : x \notin page'[x][b].shared
    <2>1. \A b \in Addrs : b # a => pages[b].shared = page[n][b].shared
      BY <1>0 DEF EntryMade
    <2>2. \A x \in Nodes, b \in Addrs : x \notin page[x][b].shared
      BY DEF TypeOK
    <2> QED BY <1>2, <2>1, <2>2 DEF SharedKept
  <1>4. ASSUME NEW x \in Nodes, NEW b \in Addrs
        PROVE  PageOK(A2, D, x, b, page'[x][b])
    <2>1. PageOK(A, D, x, b, page[x][b])
      BY DEF Shape
    <2>2. CASE x # n
      <3>1. b \in A[x] => page'[x][b].ref # 0 \/ page'[x][b].shared # {}
        BY <1>2, <2>1, <2>2 DEF PageOK
      <3>2. /\ b \in A2[x] => b \in A[x]
            /\ page'[x][b].home = page[x][b].home /\ page'[x][b].data = page[x][b].data
        BY <1>2, <2>2
      <3>3. PICK old, u : old = page[x][b] /\ u = page'[x][b]
        OBVIOUS
      <3>4. /\ PageOK(A, D, x, b, old) /\ u.home = old.home /\ u.data = old.data
            /\ b \in A[x] => u.ref # 0 \/ u.shared # {}
        BY <2>1, <3>1, <3>2, <3>3
      <3>5. PageOK(A2, D, x, b, u)
        BY <3>2, <3>4, PageKeeps
      <3> QED BY <3>3, <3>5
    <2>3. CASE x = n /\ b = a
      BY <1>2, <2>3
    <2>4. CASE x = n /\ b = dir
      <3>1. pages[b].ref # 0 \/ pages[b].shared # {}
        BY <1>0, <1>1, <2>1, <2>4 DEF PageOK, EntryMade
      <3>2. \A i \in Parts : EntryOK(A2, D, n, pages[b].data[i])
        <4>1. \A i \in Parts : EntryOK(A2, D, n, page[n][b].data[i])
          <5>1. \A i \in Parts : EntryOK(A, D, n, page[n][b].data[i])
            BY <1>0, <2>1, <2>4 DEF PageOK
          <5> QED BY <5>1, GrowKeeps
        <4>2. page[n][b].data \in [Parts -> Words]
          BY DEF TypeOK, PageRecords
        <4>3. EntryOK(A2, D, n, Local(a))
          BY <1>1 DEF EntryOK, Local, Word
        <4> QED BY <1>0, <2>4, <4>1, <4>2, <4>3 DEF EntryMade
      <3>3. pages[b].home = NoRR
        BY <1>0, <2>1, <2>4 DEF PageOK, EntryMade
      <3> QED BY <1>0, <1>2, <2>4, <3>1, <3>2, <3>3 DEF PageOK
    <2>5. CASE x = n /\ b # a /\ b # dir
      <3>1. /\ b \in A2[x] => b \in A[x]
            /\ page'[x][b].home = page[x][b].home /\ page'[x][b].data = page[x][b].data
            /\ b \in A[x] => page'[x][b].ref # 0 \/ page'[x][b].shared # {}
        BY <1>1, <1>2, <2>5, <1>0 DEF EntryMade
      <3>2. PICK old, u : old = page[x][b] /\ u = page'[x][b]
        OBVIOUS
      <3>3. /\ PageOK(A, D, x, b, old) /\ u.home = old.home /\ u.data = old.data
            /\ b \in A[x] => u.ref # 0 \/ u.shared # {}
        BY <2>1, <3>1, <3>2
      <3>4. PageOK(A2, D, x, b, u)
        BY <3>1, <3>3, PageKeeps
      <3> QED BY <3>2, <3>4
    <2> QED BY <2>2, <2>3, <2>4, <2>5
  <1>5. DirectoriesKept(n, p)
    <2>1. ASSUME NEW x \in Nodes, NEW q \in Procs, x # n \/ q # p, proc[x][q].pml4 # 0
          PROVE  page'[x][proc[x][q].pml4].data = page[x][proc[x][q].pml4].data
      <3>1. /\ proc[x][q].pml4 \in Addrs /\ proc[x][q].pml4 \in D[x]
            /\ x = n => proc[x][q].pml4 # dir
        <4>1. proc[x][q].pml4 \in Addrs /\ proc[x][q].pml4 \in D[x]
          BY <2>1, Pml4Type
        <4>2. x = n => proc[x][q].pml4 # dir
          BY <2>1 DEF Shape
        <4> QED BY <4>1, <4>2
      <3>2. PICK c : c = proc[x][q].pml4
        OBVIOUS
      <3>3. x = n => pages[c].data = page[n][c].data
        BY <1>0, <1>1, <3>1, <3>2 DEF EntryMade
      <3> QED BY <1>2, <3>2, <3>3
    <2> QED BY <2>1 DEF DirectoriesKept
  <1> QED BY <1>3, <1>4, <1>5

(* A directory is never taken for a page. *)
LEMMA DataNotDir ==
    ASSUME TypeOK, NEW A, NEW D, Shape(A, D), NEW rr, DataRef(A, D, rr)
    PROVE  \A x \in Nodes, q \in Procs : rr # DirRR(x, q)
  <1>1. rr.a # 0
    BY NetAssumption DEF DataRef, Shape, Grow
  <1> QED BY <1>1, Pml4Type DEF DataRef, DirRR, RR, Word

(* The contents of page b of n change. *)
Rewritten(n, b, data) ==
    /\ page' \in [Nodes -> [Addrs -> PageRecords]]
    /\ page'[n][b].home = page[n][b].home /\ page'[n][b].shared = page[n][b].shared
    /\ page'[n][b].ref = page[n][b].ref /\ page'[n][b].data = data
    /\ \A x \in Nodes, c \in Addrs : x # n \/ c # b => page'[x][c] = page[x][c]

LEMMA RewriteFacts ==
    ASSUME TypeOK, NEW n \in Nodes, NEW b \in Addrs, NEW data \in [Parts -> Words],
           page' = [page EXCEPT ![n][b].data = data]
    PROVE  Rewritten(n, b, data)
  <1>1. page \in [Nodes -> [Addrs -> PageRecords]]
    BY DEF TypeOK
  <1>2. PICK old : old = page[n][b]
    OBVIOUS
  <1>3. PICK q : q = [old EXCEPT !.data = data]
    OBVIOUS
  <1>4. old \in PageRecords
    BY <1>1, <1>2
  <1>5. /\ q \in PageRecords /\ q.home = old.home
        /\ q.shared = old.shared /\ q.ref = old.ref /\ q.data = data
    BY <1>3, <1>4 DEF PageRecords
  <1>6. page' = [page EXCEPT ![n][b] = q]
    BY <1>2, <1>3
  <1>7. /\ page' \in [Nodes -> [Addrs -> PageRecords]] /\ page'[n][b] = q
        /\ \A x \in Nodes, c \in Addrs : x # n \/ c # b => page'[x][c] = page[x][c]
    BY <1>1, <1>5, <1>6
  <1> QED BY <1>2, <1>5, <1>7 DEF Rewritten

LEMMA PageRewrite ==
    ASSUME TypeOK, NEW A, NEW D, Shape(A, D), NEW n \in Nodes, NEW b \in Addrs, b \in A[n],
           NEW data, Rewritten(n, b, data),
           \A i \in Parts : IF b \in D[n] THEN EntryOK(A, D, n, data[i]) ELSE Plain(data[i])
    PROVE  /\ \A x \in Nodes, c \in Addrs : x \notin page'[x][c].shared
           /\ \A x \in Nodes, c \in Addrs : PageOK(A, D, x, c, page'[x][c])
           /\ SharedKept
  <1>1. \A x \in Nodes, c \in Addrs : page'[x][c].shared = page[x][c].shared
    BY DEF Rewritten
  <1>2. SharedKept /\ \A x \in Nodes, c \in Addrs : x \notin page'[x][c].shared
    BY <1>1 DEF SharedKept, TypeOK
  <1>3. \A x \in Nodes, c \in Addrs : PageOK(A, D, x, c, page[x][c])
    BY DEF Shape
  <1>4. PageOK(A, D, n, b, page'[n][b])
    BY <1>3 DEF PageOK, Rewritten
  <1> QED BY <1>2, <1>3, <1>4 DEF Rewritten

(* The entries of the directory of a process that runs. *)
MappedPage(A, D, n, dir, word) ==
    /\ dir \in Addrs /\ dir \in D[n]
    /\ \/ word = Zero
       \/ word.k = "local" /\ word.a \in A[n] /\ word.a \notin D[n] /\ word.a \in Addrs

LEMMA RunningEntry ==
    ASSUME NEW A, NEW D, Good(A, D), NEW n \in Nodes, NEW p \in Procs,
           proc[n][p].state \in {"READY", "RUN"}, NEW va \in Parts
    PROVE  MappedPage(A, D, n, proc[n][p].pml4, page[n][proc[n][p].pml4].data[va])
  <1>0. PICK dir : dir = proc[n][p].pml4
    OBVIOUS
  <1>0a. PICK word : word = page[n][dir].data[va]
    OBVIOUS
  <1>1. TypeOK /\ Shape(A, D)
    BY DEF Good
  <1>2. dir \in Addrs /\ dir \in D[n]
    BY <1>0, <1>1, Pml4Type, NetAssumption
  <1>3. EntryOK(A, D, n, word)
    <2>1. PageOK(A, D, n, dir, page[n][dir])
      BY <1>1, <1>2 DEF Shape
    <2> QED BY <1>0a, <1>2, <2>1 DEF PageOK
  <1>4. word.k # "remote"
    <2>1. ProcOK(A, D, n, p, proc[n][p])
      BY <1>1 DEF Shape
    <2> QED BY <1>0, <1>0a, <2>1 DEF ProcOK
  <1>5. A[n] \subseteq Addrs
    BY <1>1 DEF Shape, Grow
  <1>6. ~RemoteOK(A, D, word)
    <2>1. ZeroRR.k = "remote"
      BY DEF ZeroRR, RR, Word
    <2> QED BY <1>4, <2>1 DEF RemoteOK, DataRef
  <1>7. MappedPage(A, D, n, dir, word)
    BY <1>2, <1>3, <1>5, <1>6 DEF EntryOK, MappedPage
  <1> QED BY <1>0, <1>0a, <1>7

(* A store in place. *)
LEMMA WriteInPlace ==
    ASSUME NEW A, NEW D, Good(A, D), NEW n \in Nodes, NEW p \in Procs,
           proc[n][p].state = "RUN", NEW b \in Addrs, b \in A[n], b \notin D[n],
           NEW data, Rewritten(n, b, data), \A i \in Parts : Plain(data[i]),
           mem' \in [Procs -> [Parts -> Nat]],
           UNCHANGED <<proc, pulllist, rx, panicked, net, budget, done>>
    PROVE  StillGood
  <1>1. /\ TypeOK /\ Shape(A, D) /\ proc[n][p] \in ProcRecords /\ Grow(A, D, A, D)
    <2>1. TypeOK /\ Shape(A, D)
      BY DEF Good
    <2>2. proc[n][p] \in ProcRecords
      BY <2>1 DEF TypeOK
    <2>3. Grow(A, D, A, D)
      BY <2>1 DEF Shape
    <2> QED BY <2>1, <2>2, <2>3
  <1>2. /\ page' \in [Nodes -> [Addrs -> PageRecords]]
        /\ \A x \in Nodes, c \in Addrs : x \notin page'[x][c].shared
        /\ \A x \in Nodes, c \in Addrs : PageOK(A, D, x, c, page'[x][c])
        /\ SharedKept
        /\ \A x \in Nodes, c \in Addrs : x # n \/ c # b => page'[x][c] = page[x][c]
    <2>1. /\ \A x \in Nodes, c \in Addrs : x \notin page'[x][c].shared
          /\ \A x \in Nodes, c \in Addrs : PageOK(A, D, x, c, page'[x][c])
          /\ SharedKept
      BY <1>1, PageRewrite
    <2>2. /\ page' \in [Nodes -> [Addrs -> PageRecords]]
          /\ \A x \in Nodes, c \in Addrs : x # n \/ c # b => page'[x][c] = page[x][c]
      BY DEF Rewritten
    <2> QED BY <2>1, <2>2
  <1>3. \A x \in Nodes, q \in Procs : proc[x][q].pml4 # 0 =>
          page'[x][proc[x][q].pml4] = page[x][proc[x][q].pml4]
    BY <1>1, <1>2, Pml4Type
  <1>4. DirectoriesKept(n, p)
    BY <1>3 DEF DirectoriesKept
  <1>5. Held(n, p)
    BY HeldAt DEF Good
  <1>6. PICK r : r = proc[n][p]
    OBVIOUS
  <1>7. proc' = [proc EXCEPT ![n][p] = r]
    BY <1>1, <1>6 DEF TypeOK
  <1>8. ProcOK(A, D, n, p, r)'
    <2>1. ProcOK(A, D, n, p, r)
      BY <1>1, <1>6 DEF Shape
    <2> QED BY <1>3, <1>6, <2>1 DEF ProcOK, PullOK, Listed
  <1>9. /\ proc' \in [Nodes -> [Procs -> ProcRecords]]
        /\ \A x \in Nodes, q \in Procs : proc'[x][q].migrdest # x
        /\ \E A3, D3 : Shape(A3, D3)'
        /\ \A q \in Procs : Way(q)'
    <2>1. r \in ProcRecords /\ r.state \in {"READY", "RUN", "PULL"} /\ r.sv = done'[p]
      BY <1>1, <1>5, <1>6 DEF Held
    <2> QED BY <1>1, <1>2, <1>4, <1>5, <1>6, <1>7, <1>8, <2>1, OwnStep
  <1>10. TypeOK'
    BY <1>1, <1>2, <1>9 DEF TypeOK
  <1> QED BY <1>9, <1>10 DEF StillGood

(* A store after the page has been copied. *)
LEMMA WriteCopy ==
    ASSUME NEW A, NEW D, Good(A, D), NEW n \in Nodes, NEW p \in Procs,
           proc[n][p].state = "RUN", NEW va \in Parts, FreeAddrs(n) # {},
           NEW pages, EntryMade(A, n, proc[n][p].pml4, va, Alloc(n), pages), PagesAt(n, pages),
           pages[Alloc(n)].ref = 1, pages[Alloc(n)].home = NoRR, pages[Alloc(n)].shared = {},
           \A i \in Parts : Plain(pages[Alloc(n)].data[i]),
           mem' \in [Procs -> [Parts -> Nat]],
           UNCHANGED <<proc, pulllist, rx, panicked, net, budget, done>>
    PROVE  StillGood
  <1>1. TypeOK /\ Shape(A, D) /\ proc[n][p] \in ProcRecords /\ Grow(A, D, A, D)
    <2>1. TypeOK /\ Shape(A, D)
      BY DEF Good
    <2>2. proc[n][p] \in ProcRecords
      BY <2>1 DEF TypeOK
    <2> QED BY <2>1, <2>2 DEF Shape
  <1> PICK a, dir : a = Alloc(n) /\ dir = proc[n][p].pml4
    OBVIOUS
  <1>2. a \in Addrs /\ a \notin A[n] /\ page[n][a].shared = {} /\ dir \in D[n] /\ dir \in Addrs
    BY <1>1, AllocFacts, Pml4Type, NetAssumption
  <1>3. PICK A2 : A2 = [A EXCEPT ![n] = @ \cup {a}]
    OBVIOUS
  <1>4. /\ Grow(A, D, A2, D) /\ a \in A2[n] /\ a \notin D[n]
        /\ \A x \in Nodes, b \in Addrs : b \in A2[x] => b \in A[x] \/ (x = n /\ b = a)
    BY <1>1, <1>2, <1>3, GrowPage DEF Grow
  <1>6. PageOK(A2, D, n, a, pages[a]) /\ n \notin pages[a].shared
    BY <1>2, <1>4 DEF PageOK
  <1>7. /\ \A x \in Nodes, b \in Addrs : x \notin page'[x][b].shared
        /\ \A x \in Nodes, b \in Addrs : PageOK(A2, D, x, b, page'[x][b])
        /\ DirectoriesKept(n, p) /\ SharedKept
    BY <1>1, <1>2, <1>4, <1>6, NewEntry
  <1>7a. /\ page'[n][dir].data = [page[n][dir].data EXCEPT ![va] = Local(a)]
         /\ page' \in [Nodes -> [Addrs -> PageRecords]]
    BY DEF PagesAt, EntryMade
  <1>8. Held(n, p)
    BY HeldAt DEF Good
  <1>9. PICK r : r = proc[n][p]
    OBVIOUS
  <1>10. proc' = [proc EXCEPT ![n][p] = r]
    BY <1>1, <1>9 DEF TypeOK
  <1>11. ProcOK(A2, D, n, p, r)'
    <2>1. ProcOK(A, D, n, p, r)
      BY <1>1, <1>9 DEF Shape
    <2>2. ASSUME NEW i \in Parts
          PROVE  page'[n][dir].data[i].k # "remote"
      <3>1. page[n][dir].data \in [Parts -> Words] /\ Local(a).k # "remote"
        BY <1>1, <1>2 DEF TypeOK, PageRecords, Local, Word
      <3>2. page[n][dir].data[i].k # "remote"
        BY <1>9, <2>1 DEF ProcOK
      <3> QED BY <1>7a, <3>1, <3>2
    <2>3. p \notin Listed(n)
      BY <1>9, <2>1 DEF ProcOK, PullOK
    <2>4. p \notin Listed(n)'
      BY <2>3 DEF Listed
    <2> QED BY <1>9, <2>1, <2>2, <2>4 DEF ProcOK
  <1>12. /\ proc' \in [Nodes -> [Procs -> ProcRecords]]
         /\ \A x \in Nodes, q \in Procs : proc'[x][q].migrdest # x
         /\ \E A3, D3 : Shape(A3, D3)'
         /\ \A q \in Procs : Way(q)'
    <2>1. r \in ProcRecords /\ r.state \in {"READY", "RUN", "PULL"} /\ r.sv = done'[p]
      BY <1>1, <1>8, <1>9 DEF Held
    <2> QED BY <1>4, <1>7, <1>8, <1>9, <1>10, <1>11, <2>1, OwnStep
  <1>13. TypeOK'
    BY <1>1, <1>7, <1>7a, <1>12 DEF TypeOK
  <1> QED BY <1>12, <1>13 DEF StillGood

(* The pages of n with the fresh page a as the entry of va. *)
WithEntry(n, dir, va, a, new) ==
    [page[n] EXCEPT ![dir] = [page[n][dir] EXCEPT !.data[va] = Local(a)], ![a] = new]

LEMMA FreshEntry ==
    ASSUME TypeOK, NEW A, NEW D, Shape(A, D), NEW n \in Nodes, NEW dir \in Addrs, dir \in D[n],
           NEW va \in Parts, NEW a \in Addrs, a \notin A[n], NEW new \in PageRecords
    PROVE  LET pages == WithEntry(n, dir, va, a, new) IN
           /\ EntryMade(A, n, dir, va, a, pages) /\ pages[a] = new /\ a # dir
           /\ pages \in [Addrs -> PageRecords]
           /\ \A c \in Addrs \ {a, dir} : pages[c] = page[n][c]
  <1> PICK d : d = [page[n][dir] EXCEPT !.data[va] = Local(a)]
    OBVIOUS
  <1> PICK pages : pages = [page[n] EXCEPT ![dir] = d, ![a] = new]
    OBVIOUS
  <1>0. WithEntry(n, dir, va, a, new) = pages
    BY DEF WithEntry
  <1>1. dir \in A[n] /\ Local(a) \in Words
    BY NetAssumption DEF Shape, Grow, Local, Word, Words
  <1>2. page[n] \in [Addrs -> PageRecords]
    BY DEF TypeOK
  <1>3. PICK old : old = page[n][dir]
    OBVIOUS
  <1>4. old \in PageRecords /\ d = [old EXCEPT !.data[va] = Local(a)]
    BY <1>2, <1>3
  <1>5. /\ d \in PageRecords /\ d.home = old.home /\ d.shared = old.shared
        /\ d.ref = old.ref /\ d.data = [old.data EXCEPT ![va] = Local(a)]
    BY <1>1, <1>4 DEF PageRecords
  <1>6. /\ pages \in [Addrs -> PageRecords] /\ pages[dir] = d /\ pages[a] = new
        /\ \A c \in Addrs \ {a, dir} : pages[c] = page[n][c]
    BY <1>1, <1>2, <1>5
  <1>7. \A c \in Addrs : c \in A[n] => page[n][c].ref # 0 \/ page[n][c].shared # {}
    BY DEF Shape, PageOK
  <1>8. EntryMade(A, n, dir, va, a, pages)
    BY <1>3, <1>5, <1>6, <1>7 DEF EntryMade
  <1>9. a # dir
    BY <1>1
  <1> QED BY <1>0, <1>6, <1>8, <1>9

LEMMA WriteStep ==
    ASSUME NEW A, NEW D, Good(A, D), NEW n \in Nodes, NEW p \in Procs,
           NEW va \in budget.writes, Write(n, p, va)
    PROVE  StillGood
  <1>1. TypeOK /\ Shape(A, D)
    BY DEF Good
  <1>2. va \in Parts /\ proc[n][p].state = "RUN" /\ mem[p][va] \in Nat
    <2>1. budget.writes \subseteq Parts /\ mem \in [Procs -> [Parts -> Nat]]
      BY <1>1 DEF TypeOK
    <2>2. proc[n][p].state = "RUN"
      BY DEF Write, Running
    <2> QED BY <2>1, <2>2
  <1>3. PICK dir : dir = proc[n][p].pml4
    OBVIOUS
  <1>4. PICK word, fill : /\ word = page[n][dir].data[va]
                          /\ fill = [i \in Parts |-> Data(mem[p][va] + 1)]
    OBVIOUS
  <1>5. /\ dir \in Addrs /\ dir \in D[n]
        /\ \/ word = Zero
           \/ word.k = "local" /\ word.a \in A[n] /\ word.a \notin D[n] /\ word.a \in Addrs
    <2>1. MappedPage(A, D, n, proc[n][p].pml4, page[n][proc[n][p].pml4].data[va])
      BY <1>2, RunningEntry
    <2> QED BY <1>3, <1>4, <2>1 DEF MappedPage
  <1>6. fill \in [Parts -> Words] /\ \A i \in Parts : Plain(fill[i])
    <2>1. Data(mem[p][va] + 1) \in Words /\ Plain(Data(mem[p][va] + 1))
      BY <1>2 DEF Data, Word, Words, Plain
    <2> QED BY <1>4, <2>1
  <1>7. PICK a : a = Alloc(n)
    OBVIOUS
  <1>8. PICK new : new = [FreePage EXCEPT !.ref = 1, !.data = fill]
    OBVIOUS
  <1>10. PICK copied : copied = WithEntry(n, dir, va, a, new)
    OBVIOUS
  <1>11. PICK b : b = word.a
    OBVIOUS
  <1>12. \/ Panic(n)
         \/ /\ mem' = [mem EXCEPT ![p][va] = @ + 1]
            /\ UNCHANGED <<proc, pulllist, rx, panicked, net, budget, done>>
            /\ \/ word # Zero /\ page' = [page EXCEPT ![n] = [page[n] EXCEPT ![b].data = fill]]
               \/ /\ FreeAddrs(n) # {} /\ word = Zero
                  /\ page' = [page EXCEPT ![n] = copied]
               \/ /\ FreeAddrs(n) # {} /\ word # Zero /\ ~(page[n][b].ref <= 1)
                  /\ page' = [page EXCEPT ![n] = [copied EXCEPT ![b].ref = @ - 1]]
    BY <1>3, <1>4, <1>7, <1>8, <1>10, <1>11 DEF Write, WithEntry
  <1>13. SUFFICES ASSUME ~Panic(n) PROVE StillGood
    BY PanicStep
  <1>14. mem' \in [Procs -> [Parts -> Nat]]
    <2>1. mem \in [Procs -> [Parts -> Nat]] /\ mem' = [mem EXCEPT ![p][va] = @ + 1]
      BY <1>1, <1>12, <1>13 DEF TypeOK
    <2> QED BY <1>2, <2>1
  <1>15. CASE word # Zero /\ page' = [page EXCEPT ![n] = [page[n] EXCEPT ![b].data = fill]]
    <2>1. page' = [page EXCEPT ![n][b].data = fill]
      BY <1>15
    <2>2. b \in Addrs /\ b \in A[n] /\ b \notin D[n]
      BY <1>5, <1>11, <1>15
    <2>3. Rewritten(n, b, fill)
      BY <1>1, <1>6, <2>1, <2>2, RewriteFacts
    <2> QED BY <1>2, <1>6, <1>12, <1>13, <1>14, <2>2, <2>3, WriteInPlace
  <1>16. ASSUME FreeAddrs(n) # {}
         PROVE  /\ copied \in [Addrs -> PageRecords] /\ a \in Addrs /\ a \notin A[n] /\ a # dir
                /\ EntryMade(A, n, dir, va, a, copied) /\ copied[a] = new
                /\ new.ref = 1 /\ new.home = NoRR /\ new.shared = {} /\ new.data = fill
                /\ \A c \in Addrs \ {a, dir} : copied[c] = page[n][c]
    <2>1. a \in Addrs /\ a \notin A[n]
      BY <1>1, <1>7, <1>16, AllocFacts
    <2>3. /\ new \in PageRecords /\ new.ref = 1 /\ new.home = NoRR /\ new.shared = {}
          /\ new.data = fill
      <3>1. FreePage = [ref |-> 0, home |-> NoRR, shared |-> {}, data |-> Blank]
        BY DEF FreePage
      <3>2. new = [ref |-> 1, home |-> NoRR, shared |-> {}, data |-> fill]
        BY <1>8, <3>1
      <3>3. NoRR \in Words
        BY DEF NoRR, ZeroRR, RR, Word, Words
      <3> QED BY <1>6, <3>2, <3>3 DEF PageRecords
    <2> QED BY <1>1, <1>2, <1>5, <1>10, <2>1, <2>3, FreshEntry
  <1>17. CASE FreeAddrs(n) # {} /\ word = Zero /\ page' = [page EXCEPT ![n] = copied]
    <2>1. PagesAt(n, copied)
      BY <1>1, <1>16, <1>17, PagesUpdate
    <2> QED BY <1>2, <1>3, <1>6, <1>7, <1>12, <1>13, <1>14, <1>16, <1>17, <2>1, WriteCopy
  <1>18. CASE /\ FreeAddrs(n) # {} /\ word # Zero /\ ~(page[n][b].ref <= 1)
              /\ page' = [page EXCEPT ![n] = [copied EXCEPT ![b].ref = @ - 1]]
    <2>1. PICK old : old = copied[b]
      OBVIOUS
    <2>2. PICK q : q = [old EXCEPT !.ref = @ - 1]
      OBVIOUS
    <2>3. PICK pages : pages = [copied EXCEPT ![b] = q]
      OBVIOUS
    <2>4. b \in Addrs /\ b # a /\ b # dir /\ old = page[n][b] /\ old \in PageRecords
      BY <1>5, <1>11, <1>16, <1>18, <2>1
    <2>5. /\ q \in PageRecords /\ q.home = old.home /\ q.shared = old.shared
          /\ q.data = old.data /\ q.ref # 0
      BY <1>18, <2>2, <2>4 DEF PageRecords
    <2>6. /\ pages \in [Addrs -> PageRecords] /\ pages[b] = q
          /\ \A c \in Addrs \ {b} : pages[c] = copied[c]
      BY <1>16, <1>18, <2>3, <2>4, <2>5
    <2>7. EntryMade(A, n, dir, va, a, pages) /\ pages[a] = new
      BY <1>16, <1>18, <1>5, <2>4, <2>5, <2>6 DEF EntryMade
    <2>8. PagesAt(n, pages)
      BY <1>1, <1>18, <2>1, <2>2, <2>3, <2>6, PagesUpdate
    <2> QED BY <1>2, <1>3, <1>6, <1>7, <1>12, <1>13, <1>14, <1>16, <1>18, <2>7, <2>8, WriteCopy
  <1> QED BY <1>12, <1>13, <1>15, <1>17, <1>18

(* A process is put on the pull list, or taken off it. *)
LEMMA PushList ==
    ASSUME TypeOK, NEW A, NEW D, Shape(A, D), NEW n \in Nodes, NEW p \in Procs,
           p \notin Listed(n), pulllist' = [pulllist EXCEPT ![n] = <<p>> \o @]
    PROVE  /\ pulllist' \in [Nodes -> Seq(Procs)] /\ \A x \in Nodes : OnceListed(x)'
           /\ \A x \in Nodes, q \in Procs :
                q \in Listed(x)' <=> q \in Listed(x) \/ (x = n /\ q = p)
  <1>1. pulllist \in [Nodes -> Seq(Procs)] /\ \A x \in Nodes : OnceListed(x)
    BY DEF TypeOK, Shape, OnceListed
  <1>2. PICK s, t : s = pulllist[n] /\ t = pulllist'[n]
    OBVIOUS
  <1>3. /\ s \in Seq(Procs) /\ t = <<p>> \o s /\ p \notin {s[j] : j \in 1 .. Len(s)}
        /\ \A j, k \in 1 .. Len(s) : s[j] = s[k] => j = k
    BY <1>1, <1>2 DEF OnceListed, Listed
  <1>4. /\ t \in Seq(Procs) /\ \A j, k \in 1 .. Len(t) : t[j] = t[k] => j = k
        /\ {t[j] : j \in 1 .. Len(t)} = {s[j] : j \in 1 .. Len(s)} \cup {p}
    BY <1>3, PushElements
  <1>5. \A x \in Nodes : x # n => pulllist'[x] = pulllist[x]
    BY <1>1
  <1>6. pulllist' \in [Nodes -> Seq(Procs)]
    BY <1>1, <1>2, <1>3, <1>4
  <1>7. \A x \in Nodes : OnceListed(x)'
    <2>1. OnceListed(n)'
      BY <1>2, <1>4 DEF OnceListed
    <2>2. \A x \in Nodes : x # n => OnceListed(x)'
      BY <1>1, <1>5 DEF OnceListed
    <2> QED BY <2>1, <2>2
  <1>8. /\ Listed(n)' = Listed(n) \cup {p}
        /\ \A x \in Nodes : x # n => Listed(x)' = Listed(x)
    BY <1>2, <1>4, <1>5 DEF Listed
  <1> QED BY <1>6, <1>7, <1>8

LEMMA StartPullType ==
    ASSUME TypeOK, NEW n \in Nodes, NEW old \in ProcRecords, NEW rr \in Words,
           NEW a \in Addrs, NEW r, r = StartPull(old, n, rr, a)
    PROVE  /\ r \in ProcRecords /\ r.state = "PULL" /\ r.pullrr = rr /\ r.pullpg = a
           /\ r.migrdest = old.migrdest /\ r.pml4 = old.pml4 /\ r.pullva = old.pullva
           /\ r.sv = old.sv
  <1>1. PICK next : next = IF pulllist[n] = <<>> THEN NoProc ELSE Head(pulllist[n])
    OBVIOUS
  <1>2. next \in Procs \cup {NoProc}
    <2>1. pulllist[n] \in Seq(Procs)
      BY DEF TypeOK
    <2> QED BY <1>1, <2>1, HeadTailProperties
  <1>3. r = [old EXCEPT !.state = "PULL", !.pullrr = rr, !.pullpg = a, !.arrived = {},
                        !.pullnext = next]
    BY <1>1 DEF StartPull
  <1> QED BY <1>2, <1>3 DEF ProcRecords

(* A step of p at n that sends one packet. *)
LEMMA SendWay ==
    ASSUME TypeOK, NEW A, NEW D, Shape(A, D), NEW n \in Nodes, NEW p \in Procs,
           NEW c0 \in Channels, NEW out, NEW m,
           \A c \in Channels : \A j \in 1 .. Len(out[c]) : c = c0 /\ out[c][j] = m,
           SharedKept, panicked' = panicked, NEW q \in Procs,
           IsMigrq(m, q) => /\ proc[c0[1]][q].state = "MIGR" /\ proc[c0[1]][q].migrdest = c0[2]
                            /\ m.pml4 = DirRR(c0[1], q) /\ m.sv = proc[c0[1]][q].sv,
           m.type = "PULLRQ" => \A x \in Nodes : m.rr # DirRR(x, q),
           m.type # "PULLRP"
    PROVE  Calm(q, NoTake, out)
  <1>1. \A c \in Channels : NoTake[c] = 0
    BY DEF NoTake
  <1>2. \A x \in Nodes : proc[x][q].pml4 # 0 =>
          page[x][proc[x][q].pml4].shared \subseteq page'[x][proc[x][q].pml4].shared
    BY SharedDirs
  <1>3. ASSUME NEW c \in Channels, NEW j \in 1 .. Len(out[c])
        PROVE  /\ IsMigrq(out[c][j], q) =>
                    /\ proc[c[1]][q].state = "MIGR" /\ proc[c[1]][q].migrdest = c[2]
                    /\ out[c][j].pml4 = DirRR(c[1], q) /\ out[c][j].sv = proc[c[1]][q].sv
               /\ out[c][j].type = "PULLRQ" => \A x \in Nodes : out[c][j].rr # DirRR(x, q)
               /\ out[c][j].type # "PULLRP"
    <2>1. c = c0 /\ out[c][j] = m
      OBVIOUS
    <2> QED BY <2>1
  <1>4. PICK k : k = NoTake
    OBVIOUS
  <1>5. \A c \in Channels : k[c] # 1
    BY <1>1, <1>4
  <1>6. Calm(q, k, out)
    BY <1>2, <1>3, <1>5 DEF Calm
  <1> QED BY <1>4, <1>6

LEMMA PullPageStep ==
    ASSUME NEW A, NEW D, Good(A, D), NEW n \in Nodes, NEW p \in Procs, PullPage(n, p)
    PROVE  StillGood
  <1>1. TypeOK /\ Shape(A, D)
    BY DEF Good
  <1>2. Pulling(n, p)
    BY DEF PullPage
  <1>3. PICK rr, dir, va, a, old : /\ rr = Entry(n, p) /\ dir = proc[n][p].pml4
                                   /\ va = proc[n][p].pullva /\ a = Alloc(n)
                                   /\ old = proc[n][p]
    OBVIOUS
  <1>4. /\ rr \in Words /\ EntryOK(A, D, n, rr) /\ dir \in Addrs /\ dir \in D[n]
        /\ va \in Parts /\ old.state = "PULL" /\ p \notin Listed(n)
    BY <1>2, <1>3, EntryFacts
  <1>5. rr.k = "remote" /\ rr.n # 0 /\ rr.n # n
    BY <1>3 DEF PullPage
  <1>6. DataRef(A, D, rr)
    <2>1. rr # Zero /\ rr # ZeroRR
      BY <1>5 DEF Zero, ZeroRR, RR, Word
    <2> QED BY <1>4, <1>5, <2>1 DEF EntryOK, RemoteOK
  <1>7. PICK to : to = <<n, rr.n>>
    OBVIOUS
  <1>8. rr.n \in Nodes /\ to \in Channels /\ to[1] = n /\ to[2] = rr.n
    BY <1>5, <1>6, <1>7, ChannelPair DEF DataRef
  <1>9. PICK r : r = StartPull(old, n, rr, a)
    OBVIOUS
  <1>10. PICK new : new = [FreePage EXCEPT !.ref = 1, !.home = rr, !.shared = {rr.n}]
    OBVIOUS
  <1>11. PICK m : m = Pullrq(rr, Level(r), {})
    OBVIOUS
  <1>12. SUFFICES ASSUME ~Panic(n) PROVE StillGood
    BY PanicStep
  <1>13. FreeAddrs(n) # {} /\ UNCHANGED <<panicked, budget, done, mem>>
    BY <1>12 DEF PullPage, history
  <1>14. /\ proc' = [proc EXCEPT ![n][p] = r]
         /\ page' = [page EXCEPT ![n] = WithEntry(n, dir, va, a, new)]
         /\ pulllist' = [pulllist EXCEPT ![n] = <<p>> \o @]
         /\ net' = [net EXCEPT ![to] = Append(@, m)]
         /\ rx' = [rx EXCEPT ![n] = NoProc]
    <2>1. /\ pulllist' = [pulllist EXCEPT ![n] = <<p>> \o @]
          /\ rx' = [rx EXCEPT ![n] = NoProc]
          /\ proc' = [proc EXCEPT ![n][p] = r]
      BY <1>3, <1>9, <1>12 DEF PullPage
    <2>2. net' = [net EXCEPT ![to] = Append(@, m)]
      BY <1>3, <1>7, <1>9, <1>11, <1>12 DEF PullPage
    <2>3. page' = [page EXCEPT ![n] = WithEntry(n, dir, va, a, new)]
      <3>1. page' = [page EXCEPT ![n][dir].data[va] = Local(a), ![n][a] = new]
        BY <1>3, <1>10, <1>12 DEF PullPage
      <3> QED BY <3>1 DEF WithEntry
    <2> QED BY <2>1, <2>2, <2>3
  <1>15. /\ a \in Addrs /\ a \notin A[n] /\ page[n][a].shared = {} /\ a # dir
         /\ Grow(A, D, A, D) /\ old \in ProcRecords /\ rr \in Words
    <2>1. a \in Addrs /\ a \notin A[n] /\ page[n][a].shared = {}
      BY <1>1, <1>3, <1>13, AllocFacts
    <2>2. Grow(A, D, A, D) /\ dir \in A[n]
      BY <1>1, <1>4 DEF Shape, Grow
    <2>3. old \in ProcRecords
      BY <1>1, <1>3 DEF TypeOK
    <2> QED BY <1>4, <2>1, <2>2, <2>3
  <1>16. /\ r \in ProcRecords /\ r.state = "PULL" /\ r.pullrr = rr /\ r.pullpg = a
         /\ r.migrdest = old.migrdest /\ r.pml4 = dir /\ r.pullva = va /\ r.sv = old.sv
    BY <1>1, <1>3, <1>9, <1>15, StartPullType
  <1>17. m \in Packets /\ m.type = "PULLRQ" /\ m.rr = rr /\ m.level = "PAGE"
    <2>1. Level(r) = "PAGE"
      BY <1>15, <1>16 DEF Level
    <2> QED BY <1>11, <1>15, <2>1 DEF Pullrq, Need, Packets
  <1>18. PICK A2 : A2 = [A EXCEPT ![n] = @ \cup {a}]
    OBVIOUS
  <1>19. /\ Grow(A, D, A2, D) /\ a \in A2[n] /\ a \notin D[n]
         /\ \A x \in Nodes, b \in Addrs : b \in A2[x] => b \in A[x] \/ (x = n /\ b = a)
    BY <1>15, <1>18, GrowPage DEF Grow
  <1>20. DataRef(A2, D, rr)
    BY <1>6, <1>19, GrowKeeps
  <1>21. new \in PageRecords /\ PageOK(A2, D, n, a, new) /\ n \notin new.shared
    <2>1. new = [ref |-> 1, home |-> rr, shared |-> {rr.n}, data |-> Blank]
      <3>1. FreePage = [ref |-> 0, home |-> NoRR, shared |-> {}, data |-> Blank]
        BY DEF FreePage
      <3> QED BY <1>10, <3>1
    <2>2. Blank \in [Parts -> Words] /\ \A i \in Parts : Plain(Blank[i])
      BY DEF Blank, Zero, Word, Words, Plain
    <2>3. new \in PageRecords
      BY <1>4, <1>8, <2>1, <2>2 DEF PageRecords
    <2> QED BY <1>5, <1>19, <1>20, <2>1, <2>2, <2>3 DEF PageOK
  <1>22. PICK pages : pages = WithEntry(n, dir, va, a, new)
    OBVIOUS
  <1>23. /\ EntryMade(A, n, dir, va, a, pages) /\ pages[a] = new
         /\ pages \in [Addrs -> PageRecords]
    BY <1>1, <1>4, <1>15, <1>21, <1>22, FreshEntry
  <1>24. PagesAt(n, pages)
    BY <1>1, <1>14, <1>22, <1>23, PagesUpdate
  <1>25. /\ \A x \in Nodes, b \in Addrs : x \notin page'[x][b].shared
         /\ \A x \in Nodes, b \in Addrs : PageOK(A2, D, x, b, page'[x][b])
         /\ DirectoriesKept(n, p) /\ SharedKept
    BY <1>1, <1>3, <1>4, <1>15, <1>19, <1>21, <1>23, <1>24, NewEntry
  <1>26. /\ page'[n][dir].data = [page[n][dir].data EXCEPT ![va] = Local(a)]
         /\ page' \in [Nodes -> [Addrs -> PageRecords]]
    BY <1>23, <1>24 DEF PagesAt, EntryMade
  <1>27. /\ pulllist' \in [Nodes -> Seq(Procs)] /\ \A x \in Nodes : OnceListed(x)'
         /\ \A x \in Nodes, q \in Procs :
              q \in Listed(x)' <=> q \in Listed(x) \/ (x = n /\ q = p)
    BY <1>1, <1>4, <1>14, PushList
  <1>28. /\ proc' \in [Nodes -> [Procs -> ProcRecords]] /\ proc'[n][p] = r
         /\ \A x \in Nodes, q \in Procs : x # n \/ q # p => proc'[x][q] = proc[x][q]
         /\ \A x \in Nodes, q \in Procs : proc'[x][q].migrdest # x
    <2>1. old.migrdest # n
      BY <1>1, <1>3 DEF TypeOK
    <2> QED BY <1>1, <1>14, <1>16, <2>1, ProcUpdate
  <1>29. /\ rx' \in [Nodes -> Procs \cup {NoProc}] /\ \A q \in Procs : rx'[n] # q
         /\ \A x \in Nodes : x # n => rx'[x] = rx[x]
    BY <1>1, <1>14, NetAssumption DEF TypeOK, NoProc
  <1>30. OthersUntouched(n, p)
    BY <1>27, <1>28, <1>29 DEF OthersUntouched, Untouched
  <1>31. PICK out : out = Sends(to, m)
    OBVIOUS
  <1>32. /\ NetMove(NoTake, out)
         /\ \A c \in Channels : \A j \in 1 .. Len(out[c]) : c = to /\ out[c][j] = m
    <2>1. net' = [net EXCEPT ![to] = Append(@, m)]
      BY <1>14
    <2>2. /\ NetMove(NoTake, Sends(to, m))
          /\ \A c \in Channels : \A j \in 1 .. Len(Sends(to, m)[c]) :
               c = to /\ Sends(to, m)[c][j] = m
      BY <1>1, <1>8, <1>17, <2>1, SendMove
    <2> QED BY <1>31, <2>2
  <1>33. \A c \in Channels : \A j \in 1 .. Len(out[c]) : PacketOK(A2, D, c, out[c][j])
    <2>1. PacketOK(A2, D, to, m)
      BY <1>5, <1>8, <1>17, <1>20 DEF PacketOK, DataRef
    <2> QED BY <1>32, <2>1
  <1>34. ProcOK(A2, D, n, p, proc[n][p])'
    <2>1. ProcOK(A, D, n, p, old)
      BY <1>1, <1>3 DEF Shape
    <2>2. PullOK(A2, D, n, r)
      BY <1>5, <1>8, <1>16, <1>19, <1>20 DEF PullOK, DataRef
    <2>3. ASSUME NEW i \in Parts, i < va
          PROVE  page'[n][dir].data[i].k # "remote"
      <3>1. page[n][dir].data \in [Parts -> Words]
        BY <1>1, <1>4 DEF TypeOK, PageRecords
      <3>2. page[n][dir].data[i].k # "remote"
        BY <1>3, <1>4, <2>1, <2>3 DEF ProcOK
      <3>3. i # va
        BY <1>4, <2>3, NetAssumption DEF Parts
      <3> QED BY <1>26, <3>1, <3>2, <3>3
    <2>4. dir # 0
      BY <1>4, NetAssumption
    <2> QED BY <1>4, <1>16, <1>28, <1>29, <2>2, <2>3, <2>4 DEF ProcOK
  <1>35. Shape(A2, D)'
    <2>1. proc'[n][p].pml4 = proc[n][p].pml4
      BY <1>3, <1>16, <1>28
    <2> QED BY <1>1, <1>19, <1>25, <1>27, <1>30, <1>32, <1>33, <1>34, <2>1, ShapeStep
  <1>36. \A q \in Procs : Calm(q, NoTake, out)
    <2>1. \A x \in Nodes, q \in Procs : rr # DirRR(x, q)
      BY <1>1, <1>6, DataNotDir
    <2> SUFFICES ASSUME NEW q \in Procs PROVE Calm(q, NoTake, out)
      OBVIOUS
    <2>2. ~IsMigrq(m, q) /\ m.type # "PULLRP" /\ \A x \in Nodes : m.rr # DirRR(x, q)
      BY <1>17, <2>1 DEF IsMigrq
    <2> QED BY <1>1, <1>8, <1>13, <1>25, <1>32, <2>2, SendWay
  <1>37. Way(p)'
    <2>1. Held(n, p)
      BY <1>3, <1>4, HeldAt DEF Good, DirPull
    <2>2. /\ proc'[n][p].state \in {"READY", "RUN", "PULL"} /\ ~DirPull(n, p)'
          /\ proc'[n][p].sv = done'[p] /\ proc'[n][p].pml4 = proc[n][p].pml4
      BY <1>3, <1>13, <1>15, <1>16, <1>28, <2>1 DEF DirPull, Held
    <2> QED BY <1>1, <1>30, <1>32, <1>36, <2>1, <2>2, OwnWay
  <1>38. \A q \in Procs \ {p} : Way(q)'
    BY <1>1, <1>13, <1>30, <1>32, <1>36, OthersWay DEF Good
  <1>39. TypeOK'
    <2>1. net' \in [Channels -> Seq(Packets)]
      BY <1>32 DEF NetMove
    <2> QED BY <1>1, <1>13, <1>25, <1>26, <1>27, <1>28, <1>29, <2>1 DEF TypeOK
  <1> QED BY <1>35, <1>37, <1>38, <1>39 DEF StillGood

LEMMA MigrateStep ==
    ASSUME NEW A, NEW D, Good(A, D), NEW n \in Nodes, NEW p \in Procs, NEW dst \in Nodes,
           Migrate(n, p, dst)
    PROVE  StillGood
  <1>1. TypeOK /\ Shape(A, D) /\ Grow(A, D, A, D)
    BY DEF Good, Shape
  <1>2. PICK old, to : old = proc[n][p] /\ to = <<n, dst>>
    OBVIOUS
  <1>3. PICK r : r = Leaving(old, dst)
    OBVIOUS
  <1>4. PICK m : m = Migrq(p, n, r)
    OBVIOUS
  <1>5. SUFFICES ASSUME ~Panic(n) PROVE StillGood
    BY PanicStep
  <1>6. /\ old.state = "RUN" /\ dst # n /\ budget.migr > 0
        /\ proc' = [proc EXCEPT ![n][p] = r]
        /\ net' = [net EXCEPT ![to] = Append(@, m)]
        /\ budget' = [budget EXCEPT !.migr = @ - 1]
        /\ UNCHANGED <<page, pulllist, rx, panicked, done, mem>>
    BY <1>2, <1>3, <1>4, <1>5 DEF Migrate, Running, history
  <1>7. /\ to \in Channels /\ to[1] = n /\ to[2] = dst
    BY <1>2, <1>6, ChannelPair
  <1>8. /\ ProcOK(A, D, n, p, old) /\ old \in ProcRecords /\ old.pml4 \in D[n] /\ old.pml4 # 0
        /\ p \notin Listed(n) /\ rx[n] # p
    <2>1. ProcOK(A, D, n, p, old) /\ old \in ProcRecords
      BY <1>1, <1>2 DEF Shape, TypeOK
    <2> QED BY <1>6, <2>1 DEF ProcOK, PullOK
  <1>9. /\ r \in ProcRecords /\ r.state = "MIGR" /\ r.migrdest = dst /\ r.pml4 = old.pml4
        /\ r.sv = old.sv
    BY <1>3, <1>8 DEF Leaving, ProcRecords
  <1>10. /\ m \in Packets /\ m.type = "MIGRQ" /\ m.p = p /\ m.sv = r.sv
         /\ m.pml4 = RR(n, r.pml4) /\ m.pml4.k = "remote" /\ m.pml4.n = n
         /\ m.pml4.a = r.pml4
    <2>1. m = [type |-> "MIGRQ", p |-> p, pml4 |-> RR(n, r.pml4), sv |-> r.sv]
      BY <1>4 DEF Migrq
    <2>2. RR(n, r.pml4) = [k |-> "remote", n |-> n, a |-> r.pml4]
      BY DEF RR, Word
    <2>3. RR(n, r.pml4) \in Words /\ r.sv \in Nat
      <3>1. r.pml4 \in Nat /\ r.sv \in Nat
        <4>1. r.pml4 \in Addrs \cup {0} /\ r.sv \in Nat
          BY <1>9 DEF ProcRecords
        <4> QED BY <4>1, AddrNat
      <3> QED BY <2>2, <3>1 DEF Words
    <2> QED BY <2>1, <2>2, <2>3 DEF Packets
  <1>11. /\ proc' \in [Nodes -> [Procs -> ProcRecords]] /\ proc'[n][p] = r
         /\ \A x \in Nodes, q \in Procs : x # n \/ q # p => proc'[x][q] = proc[x][q]
         /\ \A x \in Nodes, q \in Procs : proc'[x][q].migrdest # x
    BY <1>1, <1>6, <1>9, ProcUpdate
  <1>12. \A x \in Nodes : Listed(x)' = Listed(x)
    BY <1>6 DEF Listed
  <1>13. OthersUntouched(n, p)
    BY <1>6, <1>11, <1>12 DEF OthersUntouched, Untouched
  <1>14. PICK out : out = Sends(to, m)
    OBVIOUS
  <1>15. /\ NetMove(NoTake, out)
         /\ \A c \in Channels : \A j \in 1 .. Len(out[c]) : c = to /\ out[c][j] = m
    <2>1. net' = [net EXCEPT ![to] = Append(@, m)]
      BY <1>6
    <2>2. /\ NetMove(NoTake, Sends(to, m))
          /\ \A c \in Channels : \A j \in 1 .. Len(Sends(to, m)[c]) :
               c = to /\ Sends(to, m)[c][j] = m
      BY <1>1, <1>7, <1>10, <2>1, SendMove
    <2> QED BY <1>14, <2>2
  <1>16. Shape(A, D)'
    <2>1. \A c \in Channels : \A j \in 1 .. Len(out[c]) : PacketOK(A, D, c, out[c][j])
      <3>1. PacketOK(A, D, to, m)
        BY <1>7, <1>8, <1>9, <1>10 DEF PacketOK
      <3> QED BY <1>15, <3>1
    <2>2. ProcOK(A, D, n, p, proc[n][p])'
      BY <1>6, <1>8, <1>9, <1>11, <1>12 DEF ProcOK
    <2>3. proc'[n][p].pml4 = proc[n][p].pml4 /\ \A x \in Nodes : OnceListed(x)'
      BY <1>1, <1>2, <1>6, <1>9, <1>11 DEF Shape, OnceListed
    <2>4. (\A x \in Nodes, a \in Addrs : PageOK(A, D, x, a, page'[x][a])) /\ DirectoriesKept(n, p)
      BY <1>1, <1>6, SamePages
    <2> QED BY <1>1, <1>13, <1>15, <2>1, <2>2, <2>3, <2>4, ShapeStep
  <1>17. ASSUME NEW q \in Procs, q # p
         PROVE  Way(q)'
    <2>1. ~IsMigrq(m, q) /\ m.type # "PULLRP" /\ m.type # "PULLRQ" /\ SharedKept
      BY <1>1, <1>6, <1>10, <1>17, SamePages DEF IsMigrq
    <2>2. Calm(q, NoTake, out)
      BY <1>1, <1>6, <1>7, <1>15, <2>1, SendWay
    <2> QED BY <1>1, <1>6, <1>13, <1>15, <1>17, <2>2, OthersWay DEF Good
  <1>18. Way(p)'
    <2>1. Held(n, p)
      BY <1>2, <1>6, HeldAt DEF Good
    <2>2. /\ Sent(n, dst, p)' /\ proc'[n][p].sv = done'[p]
          /\ \A x \in Nodes \ {n} : Gone(x, p)'
      BY <1>2, <1>6, <1>8, <1>9, <1>11, <2>1 DEF Sent, Held, Gone
    <2>3. DirRR(n, p)' = DirRR(n, p) /\ m.pml4 = DirRR(n, p) /\ m.sv = done'[p]
      BY <1>2, <1>9, <1>10, <1>11, <2>2 DEF DirRR
    <2>4. ASSUME NEW c \in Channels, NEW i \in 1 .. Len(net'[c])
          PROVE  \/ \E j \in 1 .. Len(net[c]) : net'[c][i] = net[c][j]
                 \/ c = to /\ net'[c][i] = m
      <3>1. NoTake[c] = 0
        BY DEF NoTake
      <3> QED BY <1>1, <1>15, <3>1, Packet
    <2>5. ASSUME NEW c \in Channels, NEW i \in 1 .. Len(net'[c]), IsMigrq(net'[c][i], p)
          PROVE  c = to /\ net'[c][i] = m
      BY <2>1, <2>4, <2>5 DEF Held, NoMigrq
    <2>6. Unasked(DirRR(n, p))'
      <3>1. ~Asks(m, DirRR(n, p)) /\ ~Brings(m, DirRR(n, p))
        BY <1>10 DEF Asks, Brings
      <3>2. ASSUME NEW c \in Channels, NEW i \in 1 .. Len(net'[c])
            PROVE  ~Asks(net'[c][i], DirRR(n, p)) /\ ~Brings(net'[c][i], DirRR(n, p))
        BY <2>1, <2>4, <3>1 DEF Held, Unasked
      <3> QED BY <2>3, <3>2 DEF Unasked, Asks, Brings
    <2>7. \E i \in 1 .. Len(net'[to]) : IsMigrq(net'[to][i], p)
      <3>1. net[to] \in Seq(Packets) /\ net'[to] = Append(net[to], m)
        BY <1>1, <1>6, <1>7 DEF TypeOK
      <3>2. /\ Len(net'[to]) = Len(net[to]) + 1 /\ Len(net[to]) \in Nat
            /\ net'[to][Len(net[to]) + 1] = m
        BY <1>10, <3>1, AppendProperties, LenProperties
      <3>3. Len(net[to]) + 1 \in 1 .. Len(net'[to]) /\ IsMigrq(m, p)
        BY <1>10, <3>2 DEF IsMigrq
      <3> QED BY <3>2, <3>3
    <2>8. InTransit(n, dst, p)'
      BY <1>2, <2>2, <2>3, <2>5, <2>6, <2>7 DEF InTransit, IsMigrq
    <2> QED BY <2>8 DEF Way
  <1>19. TypeOK'
    <2>1. net' \in [Channels -> Seq(Packets)]
      BY <1>15 DEF NetMove
    <2>2. budget' \in [dests : SUBSET Nodes, writes : SUBSET Parts, migr : Nat, loss : Nat,
                       queue : Nat]
      <3>1. PICK b : b = budget
        OBVIOUS
      <3>2. b \in [dests : SUBSET Nodes, writes : SUBSET Parts, migr : Nat, loss : Nat,
                   queue : Nat]
        BY <1>1, <3>1 DEF TypeOK
      <3>3. budget' = [b EXCEPT !.migr = b.migr - 1] /\ b.migr - 1 \in Nat
        BY <1>6, <3>1, <3>2
      <3> QED BY <3>2, <3>3
    <2> QED BY <1>1, <1>6, <1>11, <2>1, <2>2 DEF TypeOK
  <1> QED BY <1>16, <1>17, <1>18, <1>19 DEF StillGood

-----------------------------------------------------------------------------
(* Receiving packets *)

LEMMA PacketFields ==
    ASSUME NEW m \in Packets
    PROVE  /\ m.type = "MIGRQ" => m.p \in Procs /\ m.pml4 \in Words /\ m.sv \in Nat
           /\ m.type = "MIGRP" => m.p \in Procs
           /\ m.type = "PULLRQ" => /\ m.rr \in Words /\ m.level \in {"PDIR", "PAGE"}
                                   /\ m.need \in SUBSET Parts
           /\ m.type = "PULLRP" => m.rr \in Words /\ m.part \in Parts /\ m.data \in Words
  BY DEF Packets

(* m, from s, is the first packet for n. *)
Received(A, D, s, n, type, m) ==
    /\ s # n /\ <<s, n>> \in Channels /\ <<n, s>> \in Channels /\ net[<<s, n>>] # <<>>
    /\ m \in Packets /\ m.type = type /\ m = net[<<s, n>>][1]
    /\ 1 \in 1 .. Len(net[<<s, n>>]) /\ PacketOK(A, D, <<s, n>>, m)
    /\ rx[n] = NoProc /\ n \notin panicked

LEMMA ReceiveFacts ==
    ASSUME NEW A, NEW D, Good(A, D), NEW s \in Nodes, NEW n \in Nodes, NEW type,
           Receives(s, n, type)
    PROVE  Received(A, D, s, n, type, Head(net[<<s, n>>]))
  <1>1. TypeOK /\ Shape(A, D)
    BY DEF Good
  <1>2. PICK c, m : c = <<s, n>> /\ m = Head(net[<<s, n>>])
    OBVIOUS
  <1>3. c \in Channels /\ net[c] # <<>> /\ m.type = type /\ rx[n] = NoProc /\ n \notin panicked
    BY <1>2 DEF Receives
  <1>4. s # n /\ <<n, s>> \in Channels
    BY <1>2, <1>3 DEF Channels
  <1>5. net[c] \in Seq(Packets)
    BY <1>1, <1>3 DEF TypeOK
  <1>6. 1 \in 1 .. Len(net[c]) /\ m = net[c][1]
    BY <1>2, <1>3, <1>5, LenProperties, EmptySeq
  <1>7. m \in Packets
    BY <1>5, <1>6, ElementOfSeq
  <1>8. PacketOK(A, D, c, m)
    BY <1>1, <1>3, <1>6 DEF Shape
  <1> QED BY <1>2, <1>3, <1>4, <1>6, <1>7, <1>8 DEF Received

(* What n may answer to m for q to stay where it is. *)
CalmAnswer(n, m, o, q) ==
    /\ \A j \in 1 .. Len(o) :
         /\ o[j].type # "MIGRQ"
         /\ o[j].type = "PULLRQ" => \A x \in Nodes : o[j].rr # DirRR(x, q)
         /\ o[j].type = "PULLRP" => Asks(m, o[j].rr) /\ page'[n][o[j].rr.a].shared # {}
    /\ IsMigrp(m, q) => proc'[n][q].state # "MIGR"
    /\ IsMigrq(m, q) => ~IsAway(proc[n][q].state) \/ panicked' # {}

LEMMA ExchangeCalm ==
    ASSUME TypeOK, NEW A, NEW D, Shape(A, D), NEW s \in Nodes, NEW n \in Nodes, s # n,
           net[<<s, n>>] # <<>>, NEW o \in Seq(Packets), Exchange(s, n, s, o),
           SharedKept, panicked \subseteq panicked', NEW q \in Procs,
           CalmAnswer(n, Head(net[<<s, n>>]), o, q)
    PROVE  Calm(q, Take(s, n), Answer(s, n, o))
  <1>1. PICK in, back, k, out, m : /\ in = <<s, n>> /\ back = <<n, s>> /\ k = Take(s, n)
                                   /\ out = Answer(s, n, o) /\ m = Head(net[<<s, n>>])
    OBVIOUS
  <1>2. /\ \A c \in Channels : k[c] = 1 => c = in
        /\ k[in] = 1 /\ m = net[in][1] /\ 1 <= Len(net[in])
        /\ \A c \in Channels : \A j \in 1 .. Len(out[c]) :
             c = back /\ j \in 1 .. Len(o) /\ out[c][j] = o[j]
    <2>1. Exchanged(s, n, o, k, out)
      BY <1>1, ExchangeMove
    <2> QED BY <1>1, <2>1 DEF Exchanged
  <1>3. /\ in \in Channels /\ back \in Channels /\ in[1] = s /\ in[2] = n /\ back[1] = n
        /\ back[2] = s /\ <<back[2], back[1]>> = in
    BY <1>1, ChannelPair
  <1>4. CalmAnswer(n, m, o, q)
    BY <1>1
  <1>5. \A x \in Nodes : proc[x][q].pml4 # 0 =>
          page[x][proc[x][q].pml4].shared \subseteq page'[x][proc[x][q].pml4].shared
    BY SharedDirs
  <1>6. ASSUME NEW c \in Channels, NEW j \in 1 .. Len(out[c])
        PROVE  /\ ~IsMigrq(out[c][j], q)
               /\ out[c][j].type = "PULLRQ" => \A x \in Nodes : out[c][j].rr # DirRR(x, q)
               /\ out[c][j].type = "PULLRP" =>
                    /\ k[<<c[2], c[1]>>] = 1 /\ Asks(net[<<c[2], c[1]>>][1], out[c][j].rr)
                    /\ 1 <= Len(net[<<c[2], c[1]>>])
                    /\ page'[c[1]][out[c][j].rr.a].shared # {}
    <2>1. c = back /\ j \in 1 .. Len(o) /\ out[c][j] = o[j]
      BY <1>2
    <2>2. PICK u : u = o[j]
      OBVIOUS
    <2>3. /\ u.type # "MIGRQ"
          /\ u.type = "PULLRQ" => \A x \in Nodes : u.rr # DirRR(x, q)
          /\ u.type = "PULLRP" => Asks(m, u.rr) /\ page'[n][u.rr.a].shared # {}
      BY <1>4, <2>1, <2>2 DEF CalmAnswer
    <2>4. out[c][j] = u /\ <<c[2], c[1]>> = in /\ c[1] = n
      BY <1>3, <2>1, <2>2
    <2>5. ~IsMigrq(u, q)
      BY <2>3 DEF IsMigrq
    <2>6. u.type = "PULLRP" => /\ k[in] = 1 /\ Asks(net[in][1], u.rr) /\ 1 <= Len(net[in])
                               /\ page'[n][u.rr.a].shared # {}
      BY <1>2, <2>3
    <2> QED BY <2>3, <2>4, <2>5, <2>6
  <1>7. ASSUME NEW c \in Channels, k[c] = 1
        PROVE  /\ IsMigrp(net[c][1], q) => proc'[c[2]][q].state # "MIGR"
               /\ IsMigrq(net[c][1], q) => ~IsAway(proc[c[2]][q].state) \/ panicked' # {}
    BY <1>2, <1>3, <1>4, <1>7 DEF CalmAnswer
  <1>8. Calm(q, k, out)
    BY <1>5, <1>6, <1>7 DEF Calm
  <1> QED BY <1>1, <1>8

(* n answers m with o and changes no process. *)
LEMMA AnswerStep ==
    ASSUME NEW A, NEW D, Good(A, D), NEW s \in Nodes, NEW n \in Nodes, s # n,
           net[<<s, n>>] # <<>>, NEW o \in Seq(Packets), Exchange(s, n, s, o),
           \A j \in 1 .. Len(o) : PacketOK(A, D, <<n, s>>, o[j]),
           page' \in [Nodes -> [Addrs -> PageRecords]],
           \A x \in Nodes, a \in Addrs : x \notin page'[x][a].shared,
           \A x \in Nodes, a \in Addrs : PageOK(A, D, x, a, page'[x][a]),
           \A x \in Nodes, a \in Addrs : page'[x][a].data = page[x][a].data,
           SharedKept, panicked \subseteq panicked', panicked' \subseteq Nodes,
           UNCHANGED <<proc, pulllist, rx, budget, done, mem>>,
           \A q \in Procs : CalmAnswer(n, Head(net[<<s, n>>]), o, q)
    PROVE  StillGood
  <1>1. TypeOK /\ Shape(A, D) /\ Grow(A, D, A, D)
    BY DEF Good, Shape
  <1>2. PICK k, out : k = Take(s, n) /\ out = Answer(s, n, o)
    OBVIOUS
  <1>3. NetMove(k, out) /\ \A c \in Channels : \A j \in 1 .. Len(out[c]) : PacketOK(A, D, c, out[c][j])
    <2>1. /\ NetMove(k, out)
          /\ \A c \in Channels : \A j \in 1 .. Len(out[c]) :
               c = <<n, s>> /\ j \in 1 .. Len(o) /\ out[c][j] = o[j]
      <3>1. TypeOK
        BY <1>1
      <3>2. Exchanged(s, n, o, k, out)
        BY <1>2, <3>1, ExchangeMove
      <3> QED BY <3>2 DEF Exchanged
    <2>2. ASSUME NEW c \in Channels, NEW j \in 1 .. Len(out[c])
          PROVE  PacketOK(A, D, c, out[c][j])
      BY <2>1
    <2> QED BY <2>1, <2>2
  <1>4. \A q \in Procs : Calm(q, k, out)
    BY <1>1, <1>2, ExchangeCalm
  <1>5. \A x \in Nodes : Listed(x)' = Listed(x)
    BY DEF Listed
  <1>6. \A q \in Procs : Way(q)'
    <2>1. \A q \in Procs : Still(q)
      BY <1>5 DEF Still
    <2> QED BY <1>1, <1>3, <1>4, <2>1, WayStays DEF Good
  <1>7. \A c \in Channels : \A i \in 1 .. Len(net'[c]) : PacketOK(A, D, c, net'[c][i])
    BY <1>1, <1>3, PacketsKeep
  <1>8. ASSUME NEW x \in Nodes, NEW q \in Procs
        PROVE  ProcOK(A, D, x, q, proc[x][q])'
    <2>1. ProcOK(A, D, x, q, proc[x][q])
      BY <1>1 DEF Shape
    <2>2. proc[x][q].pml4 # 0 =>
            page'[x][proc[x][q].pml4].data = page[x][proc[x][q].pml4].data
      BY <1>1, Pml4Type
    <2>3. q \in Listed(x)' <=> q \in Listed(x)
      BY <1>5
    <2> QED BY <1>1, <2>1, <2>2, <2>3, ProcKeeps
  <1>9. Shape(A, D)'
    <2>1. (\A c \in Channels : \A i \in 1 .. Len(net[c]) : PacketOK(A, D, c, net[c][i]))'
      BY <1>7
    <2>2. (\A x \in Nodes, a \in Addrs : PageOK(A, D, x, a, page[x][a]))'
      OBVIOUS
    <2>3. (\A x \in Nodes, q \in Procs : ProcOK(A, D, x, q, proc[x][q]))'
      BY <1>8
    <2> QED BY <1>1, <2>1, <2>2, <2>3 DEF Shape
  <1>10. TypeOK'
    <2>1. net' \in [Channels -> Seq(Packets)]
      BY <1>3 DEF NetMove
    <2> QED BY <1>1, <2>1 DEF TypeOK
  <1> QED BY <1>6, <1>9, <1>10 DEF StillGood

LEMMA MigrpPacket ==
    ASSUME NEW p \in Procs, NEW A, NEW D, NEW c
    PROVE  /\ Migrp(p) \in Packets /\ Migrp(p).type = "MIGRP" /\ Migrp(p).p = p
           /\ PacketOK(A, D, c, Migrp(p))
           /\ <<Migrp(p)>> \in Seq(Packets)
           /\ \A j \in 1 .. Len(<<Migrp(p)>>) : <<Migrp(p)>>[j] = Migrp(p)
  <1>1. Migrp(p) \in Packets /\ Migrp(p).type = "MIGRP" /\ Migrp(p).p = p
    BY DEF Migrp, Packets
  <1> QED BY <1>1 DEF PacketOK

LEMMA KeptPages ==
    ASSUME TypeOK, NEW A, NEW D, Shape(A, D), page' = page
    PROVE  /\ page' \in [Nodes -> [Addrs -> PageRecords]]
           /\ \A x \in Nodes, a \in Addrs : x \notin page'[x][a].shared
           /\ \A x \in Nodes, a \in Addrs : PageOK(A, D, x, a, page'[x][a])
           /\ \A x \in Nodes, a \in Addrs : page'[x][a].data = page[x][a].data
           /\ SharedKept
  BY SamePages DEF TypeOK

LEMMA RxMigrqDuplicateStep ==
    ASSUME NEW A, NEW D, Good(A, D), NEW s \in Nodes, NEW n \in Nodes, RxMigrqDuplicate(s, n)
    PROVE  StillGood
  <1>1. TypeOK /\ Shape(A, D)
    BY DEF Good
  <1>2. PICK m : m = Head(net[<<s, n>>])
    OBVIOUS
  <1>3. /\ Receives(s, n, "MIGRQ") /\ ~IsAway(proc[n][m.p].state)
        /\ Exchange(s, n, s, <<Migrp(m.p)>>)
        /\ UNCHANGED <<proc, page, pulllist, rx, panicked, budget, done, mem>>
    BY <1>2 DEF RxMigrqDuplicate, history
  <1>4. s # n /\ net[<<s, n>>] # <<>> /\ m \in Packets /\ m.type = "MIGRQ"
    <2>1. Receives(s, n, "MIGRQ")
      BY <1>3
    <2>2. Received(A, D, s, n, "MIGRQ", m)
      BY <1>2, <2>1, ReceiveFacts, Zenon
    <2> QED BY <2>2 DEF Received
  <1>5. m.p \in Procs
    BY <1>4, PacketFields
  <1>6. PICK o : o = <<Migrp(m.p)>>
    OBVIOUS
  <1>7. /\ o \in Seq(Packets) /\ \A j \in 1 .. Len(o) : o[j].type = "MIGRP"
        /\ \A j \in 1 .. Len(o) : PacketOK(A, D, <<n, s>>, o[j])
    BY <1>5, <1>6, MigrpPacket
  <1>8. \A q \in Procs : CalmAnswer(n, m, o, q)
    BY <1>3, <1>4, <1>7 DEF CalmAnswer, IsMigrp, IsMigrq
  <1>9. panicked' \subseteq Nodes
    BY <1>1, <1>3 DEF TypeOK
  <1> QED BY <1>1, <1>2, <1>3, <1>4, <1>6, <1>7, <1>8, <1>9, KeptPages, AnswerStep

LEMMA RxPullrpStaleStep ==
    ASSUME NEW A, NEW D, Good(A, D), NEW s \in Nodes, NEW n \in Nodes, RxPullrpStale(s, n)
    PROVE  StillGood
  <1>1. TypeOK /\ Shape(A, D)
    BY DEF Good
  <1>2. PICK m : m = Head(net[<<s, n>>])
    OBVIOUS
  <1>3. /\ Receives(s, n, "PULLRP") /\ Exchange(s, n, s, <<>>)
        /\ UNCHANGED <<proc, page, pulllist, rx, panicked, budget, done, mem>>
    BY <1>2 DEF RxPullrpStale, history
  <1>4. s # n /\ net[<<s, n>>] # <<>> /\ m.type = "PULLRP"
    <2>1. Receives(s, n, "PULLRP")
      BY <1>3
    <2>2. Received(A, D, s, n, "PULLRP", m)
      BY <1>2, <2>1, ReceiveFacts, Zenon
    <2> QED BY <2>2 DEF Received
  <1>5. PICK o : o = <<>>
    OBVIOUS
  <1>6. o \in Seq(Packets) /\ 1 .. Len(o) = {}
    BY <1>5, EmptySeq
  <1>7. \A q \in Procs : CalmAnswer(n, m, o, q)
    BY <1>4, <1>6 DEF CalmAnswer, IsMigrp, IsMigrq
  <1>8. panicked' \subseteq Nodes
    BY <1>1, <1>3 DEF TypeOK
  <1> QED BY <1>1, <1>2, <1>3, <1>4, <1>5, <1>6, <1>7, <1>8, KeptPages, AnswerStep

LEMMA RxMigrpStep ==
    ASSUME NEW A, NEW D, Good(A, D), NEW s \in Nodes, NEW n \in Nodes, RxMigrp(s, n)
    PROVE  StillGood
  <1>1. TypeOK /\ Shape(A, D) /\ Grow(A, D, A, D)
    BY DEF Good, Shape
  <1>2. PICK m : m = Head(net[<<s, n>>])
    OBVIOUS
  <1>3. PICK p, o : p = m.p /\ o = <<>>
    OBVIOUS
  <1>4. /\ Receives(s, n, "MIGRP") /\ Exchange(s, n, s, o)
        /\ UNCHANGED <<page, pulllist, rx, panicked, budget, done, mem>>
        /\ proc' = IF proc[n][p].state = "MIGR"
                   THEN [proc EXCEPT ![n][p].state = "AWAY", ![n][p].migrdest = 0]
                   ELSE proc
    BY <1>2, <1>3 DEF RxMigrp, history
  <1>5. Received(A, D, s, n, "MIGRP", m)
    <2>1. Receives(s, n, "MIGRP")
      BY <1>4
    <2> QED BY <1>2, <2>1, ReceiveFacts, Zenon
  <1>6. s # n /\ net[<<s, n>>] # <<>> /\ m \in Packets /\ m.type = "MIGRP" /\ rx[n] = NoProc
    BY <1>5 DEF Received
  <1>7. p \in Procs
    BY <1>3, <1>6, PacketFields
  <1>8. PICK old : old = proc[n][p]
    OBVIOUS
  <1>9. PICK r : r = IF old.state = "MIGR" THEN [old EXCEPT !.state = "AWAY", !.migrdest = 0]
                     ELSE old
    OBVIOUS
  <1>10. old \in ProcRecords /\ old.migrdest # n /\ ProcOK(A, D, n, p, old)
    BY <1>1, <1>7, <1>8 DEF TypeOK, Shape
  <1>11. /\ r \in ProcRecords /\ r.migrdest # n /\ r.pml4 = old.pml4 /\ r.sv = old.sv
         /\ r.pullrr = old.pullrr /\ r.pullpg = old.pullpg /\ r.pullva = old.pullva
         /\ \/ r = old /\ r.state # "MIGR"
            \/ old.state = "MIGR" /\ r.state = "AWAY"
    BY <1>9, <1>10, NetAssumption DEF ProcRecords
  <1>12. proc' = [proc EXCEPT ![n][p] = r]
    <2>1. proc \in [Nodes -> [Procs -> ProcRecords]]
      BY <1>1 DEF TypeOK
    <2>2. CASE old.state = "MIGR"
      BY <1>4, <1>7, <1>8, <1>9, <2>1, <2>2
    <2>3. CASE old.state # "MIGR"
      BY <1>4, <1>7, <1>8, <1>9, <2>1, <2>3
    <2> QED BY <2>2, <2>3
  <1>13. /\ proc' \in [Nodes -> [Procs -> ProcRecords]] /\ proc'[n][p] = r
         /\ \A x \in Nodes, q \in Procs : x # n \/ q # p => proc'[x][q] = proc[x][q]
         /\ \A x \in Nodes, q \in Procs : proc'[x][q].migrdest # x
    BY <1>1, <1>7, <1>11, <1>12, ProcUpdate
  <1>14. \A x \in Nodes : Listed(x)' = Listed(x)
    BY <1>4 DEF Listed
  <1>15. PICK k, out : k = Take(s, n) /\ out = Answer(s, n, o)
    OBVIOUS
  <1>16. o \in Seq(Packets) /\ 1 .. Len(o) = {}
    BY <1>3, EmptySeq
  <1>17. Exchanged(s, n, o, k, out)
    BY <1>1, <1>4, <1>6, <1>15, <1>16, ExchangeMove
  <1>18. NetMove(k, out) /\ \A c \in Channels : 1 .. Len(out[c]) = {}
    BY <1>16, <1>17 DEF Exchanged
  <1>19. ASSUME NEW q \in Procs
         PROVE  Way(q)'
    <2>1. CalmAnswer(n, m, o, q)
      BY <1>3, <1>6, <1>7, <1>11, <1>13, <1>16 DEF CalmAnswer, IsMigrp, IsMigrq
    <2>2. SharedKept
      BY <1>1, <1>4, SamePages
    <2>3. CalmAnswer(n, Head(net[<<s, n>>]), o, q) /\ Exchange(s, n, s, o) /\ panicked' = panicked
      BY <1>2, <1>4, <2>1
    <2>4. Calm(q, k, out)
      BY <1>1, <1>6, <1>15, <1>16, <2>2, <2>3, ExchangeCalm
    <2>5. Still(q)
      <3>1. ASSUME NEW x \in Nodes, x # n \/ q # p
            PROVE  proc'[x][q] = proc[x][q] /\ (q \in Listed(x)' <=> q \in Listed(x))
        BY <1>13, <1>14, <3>1
      <3>2. CASE q # p
        BY <1>4, <3>1, <3>2 DEF Still
      <3>3. CASE q = p
        <4>1. /\ proc'[n][q].pml4 = proc[n][q].pml4 /\ proc'[n][q].sv = proc[n][q].sv
              /\ proc'[n][q].pullrr = proc[n][q].pullrr
              /\ proc'[n][q].pullpg = proc[n][q].pullpg
              /\ \/ /\ proc'[n][q].state = proc[n][q].state
                    /\ proc'[n][q].migrdest = proc[n][q].migrdest
                 \/ proc[n][q].state = "MIGR" /\ proc'[n][q].state = "AWAY"
          BY <1>8, <1>11, <1>13, <3>3
        <4> QED BY <1>4, <1>14, <3>1, <4>1 DEF Still
      <3> QED BY <3>2, <3>3
    <2> QED BY <1>1, <1>18, <2>4, <2>5, WayStays DEF Good
  <1>20. Shape(A, D)'
    <2>1. OthersUntouched(n, p)
      BY <1>4, <1>13, <1>14 DEF OthersUntouched, Untouched
    <2>2. ProcOK(A, D, n, p, proc[n][p])'
      <3>1. CASE r = old
        <4>1. ProcOK(A, D, n, p, proc[n][p])
          BY <1>8, <1>10
        <4>2. proc'[n][p] = proc[n][p]
          BY <1>8, <1>13, <3>1
        <4> QED BY <1>1, <1>4, <1>7, <1>14, <4>1, <4>2, ProcKeeps
      <3>2. CASE old.state = "MIGR" /\ r.state = "AWAY"
        <4>1. p \notin Listed(n) /\ rx[n] # p
          BY <1>10, <3>2 DEF ProcOK, PullOK
        <4> QED BY <1>4, <1>10, <1>11, <1>13, <1>14, <3>2, <4>1 DEF ProcOK
      <3> QED BY <1>11, <3>1, <3>2
    <2>3. proc'[n][p].pml4 = proc[n][p].pml4 /\ \A x \in Nodes : OnceListed(x)'
      BY <1>1, <1>4, <1>8, <1>11, <1>13 DEF Shape, OnceListed
    <2>4. (\A x \in Nodes, a \in Addrs : PageOK(A, D, x, a, page'[x][a])) /\ DirectoriesKept(n, p)
      BY <1>1, <1>4, <1>7, SamePages
    <2>5. \A c \in Channels : \A j \in 1 .. Len(out[c]) : PacketOK(A, D, c, out[c][j])
      BY <1>18
    <2> QED BY <1>1, <1>7, <1>18, <2>1, <2>2, <2>3, <2>4, <2>5, ShapeStep
  <1>21. TypeOK'
    <2>1. net' \in [Channels -> Seq(Packets)]
      BY <1>18 DEF NetMove
    <2> QED BY <1>1, <1>4, <1>13, <2>1 DEF TypeOK
  <1> QED BY <1>19, <1>20, <1>21 DEF StillGood

(* The words of a directory are sent as remote references to pages. *)
LEMMA ToRemoteOK ==
    ASSUME TypeOK, NEW A, NEW D, Shape(A, D), NEW n \in Nodes, NEW w \in Words,
           EntryOK(A, D, n, w)
    PROVE  ToRemote(n, w) \in Words /\ RemoteOK(A, D, ToRemote(n, w))
  <1>1. ZeroRR \in Words /\ ZeroRR.k = "remote" /\ Zero.k = "zero"
    BY DEF ZeroRR, RR, Word, Words, Zero
  <1>2. CASE w = Zero
    <2>1. ToRemote(n, w) = ZeroRR
      BY <1>1, <1>2 DEF ToRemote
    <2> QED BY <1>1, <2>1 DEF RemoteOK
  <1>3. CASE RemoteOK(A, D, w)
    <2>1. w.k = "remote"
      BY <1>1, <1>3 DEF RemoteOK, DataRef
    <2>2. ToRemote(n, w) = w
      BY <2>1 DEF ToRemote
    <2> QED BY <1>3, <2>2
  <1>4. CASE w.k = "local" /\ w.a \in A[n] /\ w.a \notin D[n]
    <2>1. PICK a : a = w.a
      OBVIOUS
    <2>2. a \in Addrs /\ page[n][a] \in PageRecords /\ PageOK(A, D, n, a, page[n][a])
      <3>1. a \in Addrs
        BY <1>4, <2>1 DEF Shape, Grow
      <3> QED BY <3>1 DEF TypeOK, Shape
    <2>3. ToRemote(n, w) = IF page[n][a].home # NoRR THEN page[n][a].home ELSE RR(n, a)
      BY <1>4, <2>1 DEF ToRemote
    <2>4. CASE page[n][a].home # NoRR
      BY <2>2, <2>3, <2>4 DEF PageOK, RemoteOK, PageRecords
    <2>5. CASE page[n][a].home = NoRR
      <3>1. RR(n, a) = [k |-> "remote", n |-> n, a |-> a] /\ a \in Nat
        BY <2>2, AddrNat DEF RR, Word
      <3>2. RR(n, a) \in Words /\ DataRef(A, D, RR(n, a))
        BY <1>4, <2>1, <3>1 DEF Words, DataRef
      <3> QED BY <2>3, <2>5, <3>2 DEF RemoteOK
    <2> QED BY <2>4, <2>5
  <1> QED BY <1>2, <1>3, <1>4 DEF EntryOK

(* Sorted parts are a sequence. *)
LEMMA InOrderType ==
    ASSUME NEW S \in SUBSET Parts, NEW f \in InOrder(S)
    PROVE  Cardinality(S) \in Nat /\ f \in [1 .. Cardinality(S) -> S]
  <1>1. IsFiniteSet(Parts)
    BY NetAssumption, FS_Interval DEF Parts
  <1>2. IsFiniteSet(S)
    BY <1>1, FS_Subset
  <1> QED BY <1>2, FS_CardinalityType DEF InOrder

LEMMA SharePage ==
    ASSUME TypeOK, NEW A, NEW D, Shape(A, D), NEW s \in Nodes, NEW n \in Nodes, s # n,
           NEW a \in Addrs, page' = [page EXCEPT ![n][a] = Share(@, s)]
    PROVE  /\ page' \in [Nodes -> [Addrs -> PageRecords]]
           /\ \A x \in Nodes, b \in Addrs : x \notin page'[x][b].shared
           /\ \A x \in Nodes, b \in Addrs : PageOK(A, D, x, b, page'[x][b])
           /\ \A x \in Nodes, b \in Addrs : page'[x][b].data = page[x][b].data
           /\ SharedKept /\ page'[n][a].shared # {}
  <1>1. page \in [Nodes -> [Addrs -> PageRecords]]
    BY DEF TypeOK
  <1>2. PICK old : old = page[n][a]
    OBVIOUS
  <1>3. PICK q : q = Share(old, s)
    OBVIOUS
  <1>4. old \in PageRecords /\ n \notin old.shared /\ PageOK(A, D, n, a, old)
    BY <1>2 DEF TypeOK, Shape
  <1>5. /\ q \in PageRecords /\ q.home = old.home /\ q.ref = old.ref /\ q.data = old.data
        /\ q.shared = old.shared \cup {s}
    BY <1>3, <1>4 DEF Share, PageRecords
  <1>6. page' = [page EXCEPT ![n][a] = q]
    BY <1>2, <1>3
  <1>7. /\ page' \in [Nodes -> [Addrs -> PageRecords]] /\ page'[n][a] = q
        /\ \A x \in Nodes, b \in Addrs : x # n \/ b # a => page'[x][b] = page[x][b]
    BY <1>1, <1>5, <1>6
  <1>8. PageOK(A, D, n, a, q)
    BY <1>4, <1>5 DEF PageOK
  <1>9. /\ \A x \in Nodes, b \in Addrs : PageOK(A, D, x, b, page[x][b])
        /\ \A x \in Nodes, b \in Addrs : x \notin page[x][b].shared
    BY DEF Shape, TypeOK
  <1>10. \A x \in Nodes, b \in Addrs : PageOK(A, D, x, b, page'[x][b])
    BY <1>7, <1>8, <1>9
  <1>11. \A x \in Nodes, b \in Addrs : page'[x][b].data = page[x][b].data
    BY <1>2, <1>5, <1>7
  <1>12. SharedKept /\ page'[n][a].shared # {}
    BY <1>2, <1>5, <1>7 DEF SharedKept
  <1>13. \A x \in Nodes, b \in Addrs : x \notin page'[x][b].shared
    BY <1>4, <1>5, <1>7, <1>9
  <1> QED BY <1>7, <1>10, <1>11, <1>12, <1>13

LEMMA RxPullrqStep ==
    ASSUME NEW A, NEW D, Good(A, D), NEW s \in Nodes, NEW n \in Nodes, RxPullrq(s, n)
    PROVE  StillGood
  <1>1. TypeOK /\ Shape(A, D)
    BY DEF Good
  <1>2. PICK m : m = Head(net[<<s, n>>])
    OBVIOUS
  <1>3. PICK a : a = m.rr.a
    OBVIOUS
  <1>4. PICK pg : pg = page[n][a]
    OBVIOUS
  <1> DEFINE word(i) == IF m.level = "PDIR" THEN ToRemote(n, pg.data[i]) ELSE pg.data[i]
  <1>5. /\ Receives(s, n, "PULLRQ")
        /\ UNCHANGED <<proc, pulllist, rx, panicked, budget, done, mem>>
        /\ \/ Exchange(s, n, s, <<>>) /\ UNCHANGED page
           \/ /\ \E parts \in InOrder(m.need) :
                   Exchange(s, n, s, [j \in DOMAIN parts |->
                                       Pullrp(m.rr, parts[j], word(parts[j]))])
              /\ page' = [page EXCEPT ![n][a] = Share(@, s)]
    BY <1>2, <1>3, <1>4 DEF RxPullrq, history
  <1>6. Received(A, D, s, n, "PULLRQ", m)
    <2>1. Receives(s, n, "PULLRQ")
      BY <1>5
    <2> QED BY <1>2, <2>1, ReceiveFacts, Zenon
  <1>7. s # n /\ net[<<s, n>>] # <<>> /\ m \in Packets /\ m.type = "PULLRQ"
    BY <1>6 DEF Received
  <1>8. panicked' \subseteq Nodes /\ panicked' = panicked
    BY <1>1, <1>5 DEF TypeOK
  <1>9. CASE Exchange(s, n, s, <<>>) /\ UNCHANGED page
    <2>1. PICK o : o = <<>>
      OBVIOUS
    <2>2. o \in Seq(Packets) /\ 1 .. Len(o) = {}
      BY <2>1, EmptySeq
    <2>3. \A q \in Procs : CalmAnswer(n, m, o, q)
      BY <1>7, <2>2 DEF CalmAnswer, IsMigrp, IsMigrq
    <2> QED BY <1>1, <1>2, <1>5, <1>7, <1>8, <1>9, <2>1, <2>2, <2>3, KeptPages, AnswerStep
  <1>10. ASSUME NEW parts \in InOrder(m.need),
                Exchange(s, n, s, [j \in DOMAIN parts |->
                                    Pullrp(m.rr, parts[j], word(parts[j]))]),
                page' = [page EXCEPT ![n][a] = Share(@, s)]
         PROVE  StillGood
    <2>1. PICK o : o = [j \in DOMAIN parts |-> Pullrp(m.rr, parts[j], word(parts[j]))]
      OBVIOUS
    <2>2. m.rr \in Words /\ m.need \in SUBSET Parts
      BY <1>7, PacketFields
    <2>3. /\ m.rr.k = "remote" /\ m.rr.n = n /\ a \in A[n]
          /\ m.level = "PDIR" <=> a \in D[n]
      <3>1. PacketOK(A, D, <<s, n>>, m)
        BY <1>6 DEF Received
      <3> QED BY <1>3, <1>7, <3>1, ChannelPair DEF PacketOK
    <2>4. a \in Addrs /\ pg \in PageRecords /\ PageOK(A, D, n, a, pg)
      <3>1. a \in Addrs
        BY <1>1, <2>3 DEF Shape, Grow
      <3> QED BY <1>1, <1>4, <3>1 DEF TypeOK, Shape
    <2>5. PICK l : l = Cardinality(m.need)
      OBVIOUS
    <2>6. l \in Nat /\ parts \in [1 .. l -> Parts]
      BY <2>2, <2>5, InOrderType
    <2>7. ASSUME NEW i \in Parts
          PROVE  word(i) \in Words /\ IF a \in D[n] THEN RemoteOK(A, D, word(i)) ELSE Plain(word(i))
      <3>1. pg.data[i] \in Words
        BY <2>4 DEF PageRecords
      <3>2. CASE a \in D[n]
        <4>1. EntryOK(A, D, n, pg.data[i])
          BY <2>4, <3>2 DEF PageOK
        <4>2. word(i) = ToRemote(n, pg.data[i])
          BY <2>3, <3>2
        <4> QED BY <1>1, <3>1, <3>2, <4>1, <4>2, ToRemoteOK
      <3>3. CASE a \notin D[n]
        <4>1. word(i) = pg.data[i] /\ Plain(pg.data[i])
          BY <2>3, <2>4, <3>3 DEF PageOK
        <4> QED BY <3>1, <3>3, <4>1
      <3> QED BY <3>2, <3>3
    <2> HIDE DEF word
    <2>8. ASSUME NEW j \in 1 .. l
          PROVE  /\ o[j] \in Packets /\ o[j].type = "PULLRP" /\ o[j].rr = m.rr
                 /\ o[j].data = word(parts[j]) /\ parts[j] \in Parts
      <3>1. parts[j] \in Parts /\ word(parts[j]) \in Words
        BY <2>6, <2>7
      <3>2. o[j] = [type |-> "PULLRP", rr |-> m.rr, part |-> parts[j], data |-> word(parts[j])]
        BY <2>1, <2>6 DEF Pullrp
      <3> QED BY <2>2, <3>1, <3>2 DEF Packets
    <2>9. o \in Seq(Packets) /\ Len(o) = l
      <3>1. o \in [1 .. l -> Packets]
        BY <2>1, <2>6, <2>8
      <3> QED BY <2>6, <3>1, FunctionSeq
    <2>10. ASSUME NEW j \in 1 .. Len(o)
           PROVE  PacketOK(A, D, <<n, s>>, o[j])
      <3>1. /\ o[j].type = "PULLRP" /\ o[j].rr = m.rr /\ o[j].data = word(parts[j])
            /\ parts[j] \in Parts
        BY <2>8, <2>9
      <3>2. <<n, s>>[1] = n
        OBVIOUS
      <3>3. IF a \in D[n] THEN RemoteOK(A, D, o[j].data) ELSE Plain(o[j].data)
        BY <2>7, <3>1
      <3> QED BY <1>3, <2>3, <3>1, <3>2, <3>3 DEF PacketOK
    <2>11. /\ page' \in [Nodes -> [Addrs -> PageRecords]]
           /\ \A x \in Nodes, b \in Addrs : x \notin page'[x][b].shared
           /\ \A x \in Nodes, b \in Addrs : PageOK(A, D, x, b, page'[x][b])
           /\ \A x \in Nodes, b \in Addrs : page'[x][b].data = page[x][b].data
           /\ SharedKept /\ page'[n][a].shared # {}
      BY <1>1, <1>7, <1>10, <2>4, SharePage
    <2>12. \A q \in Procs : CalmAnswer(n, m, o, q)
      BY <1>3, <1>7, <2>8, <2>9, <2>11 DEF CalmAnswer, IsMigrp, IsMigrq, Asks
    <2>13. Exchange(s, n, s, o)
      BY <1>10, <2>1
    <2> QED BY <1>2, <1>5, <1>7, <1>8, <2>9, <2>10, <2>11, <2>12, <2>13, AnswerStep
  <1> QED BY <1>5, <1>9, <1>10

LEMMA RemoveList ==
    ASSUME TypeOK, NEW A, NEW D, Shape(A, D), NEW n \in Nodes, NEW i \in 1 .. Len(pulllist[n]),
           pulllist' = [pulllist EXCEPT ![n] = RemoveAt(@, i)]
    PROVE  /\ pulllist' \in [Nodes -> Seq(Procs)] /\ \A x \in Nodes : OnceListed(x)'
           /\ \A x \in Nodes, q \in Procs :
                q \in Listed(x)' <=> q \in Listed(x) /\ ~(x = n /\ q = pulllist[n][i])
  <1>1. pulllist \in [Nodes -> Seq(Procs)] /\ \A x \in Nodes : OnceListed(x)
    BY DEF TypeOK, Shape, OnceListed
  <1>2. PICK s, t : s = pulllist[n] /\ t = pulllist'[n]
    OBVIOUS
  <1>3. /\ s \in Seq(Procs) /\ t = RemoveAt(s, i) /\ i \in 1 .. Len(s)
        /\ \A j, k \in 1 .. Len(s) : s[j] = s[k] => j = k
    BY <1>1, <1>2 DEF OnceListed
  <1>4. /\ t \in Seq(Procs) /\ \A j, k \in 1 .. Len(t) : t[j] = t[k] => j = k
        /\ {t[j] : j \in 1 .. Len(t)} = {s[j] : j \in 1 .. Len(s)} \ {s[i]}
    <2>1. Without(Procs, s, i, RemoveAt(s, i))
      BY <1>3, RemoveAtElements
    <2>2. Without(Procs, s, i, t)
      BY <1>3, <2>1
    <2> QED BY <2>2 DEF Without
  <1>5. \A x \in Nodes : x # n => pulllist'[x] = pulllist[x]
    BY <1>1
  <1>6. pulllist' \in [Nodes -> Seq(Procs)]
    BY <1>1, <1>2, <1>3, <1>4
  <1>7. \A x \in Nodes : OnceListed(x)'
    <2>1. OnceListed(n)'
      BY <1>2, <1>4 DEF OnceListed
    <2>2. \A x \in Nodes : x # n => OnceListed(x)'
      BY <1>1, <1>5 DEF OnceListed
    <2> QED BY <2>1, <2>2
  <1>8. /\ Listed(n)' = Listed(n) \ {pulllist[n][i]}
        /\ \A x \in Nodes : x # n => Listed(x)' = Listed(x)
    <2>1. Listed(n)' = {t[j] : j \in 1 .. Len(t)} /\ Listed(n) = {s[j] : j \in 1 .. Len(s)}
      BY <1>2 DEF Listed
    <2>2. \A x \in Nodes : x # n => Listed(x)' = Listed(x)
      BY <1>5 DEF Listed
    <2> QED BY <1>2, <1>4, <2>1, <2>2
  <1> QED BY <1>6, <1>7, <1>8

(* Who pulls a directory has accepted the process, from the node it pulls from. *)
LEMMA ArrivingAt ==
    ASSUME NEW A, NEW D, Good(A, D), NEW n \in Nodes, NEW p \in Procs, DirPull(n, p)
    PROVE  \E s \in Nodes : Arriving(s, n, p) /\ proc[n][p].pullrr = DirRR(s, p)
  <1>1. proc[n][p].state = "PULL" /\ Way(p)
    BY DirPullState DEF Good
  <1>2. ASSUME NEW m \in Nodes, Held(m, p)
        PROVE  FALSE
    BY <1>1, <1>2 DEF Held, Gone, IsAway
  <1>3. ASSUME NEW s \in Nodes, NEW d \in Nodes, InTransit(s, d, p)
        PROVE  FALSE
    BY <1>1, <1>3 DEF InTransit, Sent, Gone, IsAway
  <1>4. ASSUME NEW s \in Nodes, NEW d \in Nodes, Arriving(s, d, p)
        PROVE  d = n /\ proc[n][p].pullrr = DirRR(s, p)
    BY <1>1, <1>4 DEF Arriving, Sent, Gone, IsAway
  <1> QED BY <1>1, <1>2, <1>3, <1>4 DEF Way

(* The last part of the directory: no request is left. *)
LEMMA DirectoryArrived ==
    ASSUME NEW A, NEW D, Good(A, D), NEW s \in Nodes, NEW n \in Nodes, NEW p \in Procs,
           NEW m, Received(A, D, s, n, "PULLRP", m), DirPull(n, p), proc[n][p].pullrr = m.rr,
           NEW k, NEW out, NetMove(k, out), k[<<s, n>>] = 1,
           \A c \in Channels : 1 .. Len(out[c]) = {},
           SharedKept, done' = done, ~DirPull(n, p)',
           \A x \in Nodes : /\ proc'[x][p].state = proc[x][p].state
                            /\ proc'[x][p].sv = proc[x][p].sv
                            /\ proc'[x][p].pml4 = proc[x][p].pml4
    PROVE  Held(n, p)'
  <1>1. TypeOK /\ Shape(A, D)
    BY DEF Good
  <1>2. PICK u \in Nodes : Arriving(u, n, p) /\ m.rr = DirRR(u, p)
    BY ArrivingAt
  <1>3. PICK go : go = <<s, n>>
    OBVIOUS
  <1>4. /\ s # n /\ go \in Channels /\ m = net[go][1] /\ 1 \in 1 .. Len(net[go])
        /\ m.type = "PULLRP" /\ PacketOK(A, D, go, m) /\ go[1] = s /\ k[go] = 1
    BY <1>3, ChannelPair DEF Received
  <1>5. u = s
    BY <1>2, <1>4 DEF PacketOK, DirRR, RR, Word
  <1>6. Brings(net[go][1], DirRR(s, p))
    BY <1>2, <1>4, <1>5 DEF Brings
  <1>7. proc[s][p].state = "AWAY" /\ page[s][proc[s][p].pml4].shared # {} /\ proc[s][p].pml4 # 0
    BY <1>2, <1>3, <1>4, <1>5, <1>6 DEF Arriving, Sent
  <1>8. \A x \in Nodes \ {n} : Gone(x, p)
    BY <1>2, <1>5, <1>7 DEF Arriving, Gone, IsAway
  <1>9. \A x \in Nodes : proc[x][p].pml4 # 0 =>
          page[x][proc[x][p].pml4].shared \subseteq page'[x][proc[x][p].pml4].shared
    BY <1>1, SharedDirs
  <1>10. \A x \in Nodes \ {n} : Gone(x, p)'
    BY <1>8, <1>9 DEF Gone, IsAway
  <1>11. ASSUME NEW c \in Channels, NEW i \in 1 .. Len(net'[c])
         PROVE  i + k[c] \in 1 .. Len(net[c]) /\ net'[c][i] = net[c][i + k[c]]
    <2>1. \/ i + k[c] \in 1 .. Len(net[c]) /\ net'[c][i] = net[c][i + k[c]]
          \/ \E j \in 1 .. Len(out[c]) : net'[c][i] = out[c][j]
      BY <1>1, Packet
    <2> QED BY <2>1
  <1>12. ASSUME NEW c \in Channels, NEW i \in 1 .. Len(net'[c])
         PROVE  ~IsMigrq(net'[c][i], p)
    <2> SUFFICES ASSUME IsMigrq(net'[c][i], p) PROVE FALSE
      OBVIOUS
    <2>1. i + k[c] \in 1 .. Len(net[c]) /\ IsMigrq(net[c][i + k[c]], p)
      BY <1>11
    <2>2. c = go
      BY <1>2, <1>3, <1>5, <2>1 DEF Arriving
    <2>3. 1 < i + 1 /\ i + k[go] = i + 1 /\ i + 1 \in 1 .. Len(net[go])
      BY <1>1, <1>4, <2>1, <2>2, Packet
    <2> QED BY <1>2, <1>3, <1>4, <1>5, <1>6, <2>1, <2>2, <2>3 DEF Arriving
  <1>13. NoMigrq(p)'
    BY <1>12 DEF NoMigrq, IsMigrq
  <1>14. Unasked(DirRR(n, p))'
    <2>1. DirRR(n, p)' = DirRR(n, p)
      BY DEF DirRR
    <2>2. ASSUME NEW c \in Channels, NEW i \in 1 .. Len(net'[c])
          PROVE  ~Asks(net'[c][i], DirRR(n, p)) /\ ~Brings(net'[c][i], DirRR(n, p))
      BY <1>2, <1>11 DEF Arriving, Unasked
    <2> QED BY <2>1, <2>2 DEF Unasked, Asks, Brings
  <1>15. /\ proc'[n][p].state \in {"READY", "RUN", "PULL"}
         /\ proc'[n][p].sv = done'[p]
    BY <1>2 DEF Arriving
  <1> QED BY <1>10, <1>13, <1>14, <1>15 DEF Held

(* Only the list of parts that have arrived and the links of the pull list change. *)
Unmoved(x, q) ==
    /\ proc'[x][q].state = proc[x][q].state /\ proc'[x][q].pml4 = proc[x][q].pml4
    /\ proc'[x][q].sv = proc[x][q].sv /\ proc'[x][q].migrdest = proc[x][q].migrdest
    /\ proc'[x][q].pullrr = proc[x][q].pullrr /\ proc'[x][q].pullpg = proc[x][q].pullpg
    /\ proc'[x][q].pullva = proc[x][q].pullva

PartStored(n, p, arrived, prev) ==
    \/ proc' = [proc EXCEPT ![n] = [q \in Procs |->
         IF q = p THEN [proc[n][p] EXCEPT !.arrived = arrived]
         ELSE IF q \in prev THEN [proc[n][q] EXCEPT !.pullnext = proc[n][p].pullnext]
         ELSE proc[n][q]]]
    \/ proc' = [proc EXCEPT ![n][p].arrived = arrived]

LEMMA PartArrives ==
    ASSUME TypeOK, NEW n \in Nodes, NEW p \in Procs, NEW arrived \in SUBSET Parts, NEW prev,
           PartStored(n, p, arrived, prev)
    PROVE  /\ proc' \in [Nodes -> [Procs -> ProcRecords]]
           /\ \A x \in Nodes, q \in Procs : proc'[x][q].migrdest # x
           /\ \A x \in Nodes, q \in Procs : Unmoved(x, q)
  <1>1. proc \in [Nodes -> [Procs -> ProcRecords]] /\ proc[n][p] \in ProcRecords
        /\ \A x \in Nodes, q \in Procs : proc[x][q].migrdest # x
    BY DEF TypeOK
  <1>2. PICK old, r : old = proc[n][p] /\ r = [proc[n][p] EXCEPT !.arrived = arrived]
    OBVIOUS
  <1>3. /\ r \in ProcRecords /\ r.state = old.state /\ r.pml4 = old.pml4 /\ r.sv = old.sv
        /\ r.migrdest = old.migrdest /\ r.pullrr = old.pullrr /\ r.pullpg = old.pullpg
        /\ r.pullva = old.pullva
    BY <1>1, <1>2 DEF ProcRecords
  <1>4. CASE proc' = [proc EXCEPT ![n][p].arrived = arrived]
    <2>1. proc' = [proc EXCEPT ![n][p] = r]
      BY <1>2, <1>4
    <2>2. /\ proc' \in [Nodes -> [Procs -> ProcRecords]] /\ proc'[n][p] = r
          /\ \A x \in Nodes, q \in Procs : x # n \/ q # p => proc'[x][q] = proc[x][q]
      BY <1>1, <1>3, <2>1
    <2>3. \A x \in Nodes, q \in Procs : Unmoved(x, q)
      BY <1>2, <1>3, <2>2 DEF Unmoved
    <2> QED BY <1>1, <2>2, <2>3 DEF Unmoved
  <1>5. CASE proc' = [proc EXCEPT ![n] = [q \in Procs |->
                IF q = p THEN [proc[n][p] EXCEPT !.arrived = arrived]
                ELSE IF q \in prev THEN [proc[n][q] EXCEPT !.pullnext = proc[n][p].pullnext]
                ELSE proc[n][q]]]
    <2>1. PICK next : next = proc[n][p].pullnext
      OBVIOUS
    <2>2. next \in Procs \cup {NoProc}
      BY <1>1, <2>1 DEF ProcRecords
    <2>3. PICK f : f = [q \in Procs |->
                         IF q = p THEN r
                         ELSE IF q \in prev THEN [proc[n][q] EXCEPT !.pullnext = next]
                         ELSE proc[n][q]]
      OBVIOUS
    <2>4. proc' = [proc EXCEPT ![n] = f]
      BY <1>2, <1>5, <2>1, <2>3
    <2>5. ASSUME NEW q \in Procs
          PROVE  /\ f[q] \in ProcRecords /\ f[q].state = proc[n][q].state
                 /\ f[q].pml4 = proc[n][q].pml4 /\ f[q].sv = proc[n][q].sv
                 /\ f[q].migrdest = proc[n][q].migrdest /\ f[q].pullrr = proc[n][q].pullrr
                 /\ f[q].pullpg = proc[n][q].pullpg /\ f[q].pullva = proc[n][q].pullva
      <3>1. CASE q = p
        BY <1>2, <1>3, <2>3, <3>1
      <3>2. CASE q # p /\ q \in prev
        <4>1. PICK u, v : u = proc[n][q] /\ v = f[q]
          OBVIOUS
        <4>2. u \in ProcRecords /\ v = [u EXCEPT !.pullnext = next]
          BY <1>1, <2>3, <3>2, <4>1
        <4>3. /\ v \in ProcRecords /\ v.state = u.state /\ v.pml4 = u.pml4 /\ v.sv = u.sv
              /\ v.migrdest = u.migrdest /\ v.pullrr = u.pullrr /\ v.pullpg = u.pullpg
              /\ v.pullva = u.pullva
          BY <2>2, <4>2 DEF ProcRecords
        <4> QED BY <4>1, <4>3
      <3>3. CASE q # p /\ q \notin prev
        BY <1>1, <2>3, <3>3
      <3> QED BY <3>1, <3>2, <3>3
    <2>6. /\ proc' \in [Nodes -> [Procs -> ProcRecords]] /\ proc'[n] = f
          /\ \A x \in Nodes : x # n => proc'[x] = proc[x]
      <3>1. f \in [Procs -> ProcRecords]
        BY <2>3, <2>5
      <3> QED BY <1>1, <2>4, <3>1
    <2>7. ASSUME NEW x \in Nodes, NEW q \in Procs
          PROVE  Unmoved(x, q)
      <3>1. CASE x = n
        BY <2>5, <2>6, <3>1 DEF Unmoved
      <3>2. CASE x # n
        BY <2>6, <3>2 DEF Unmoved
      <3> QED BY <3>1, <3>2
    <2> QED BY <1>1, <2>6, <2>7 DEF Unmoved
  <1> QED BY <1>4, <1>5 DEF PartStored

LEMMA RxPullrpStep ==
    ASSUME NEW A, NEW D, Good(A, D), NEW s \in Nodes, NEW n \in Nodes,
           NEW i \in DOMAIN pulllist[n], RxPullrp(s, n, i)
    PROVE  StillGood
  <1>1. TypeOK /\ Shape(A, D) /\ Grow(A, D, A, D)
    BY DEF Good, Shape
  <1>2. PICK m : m = Head(net[<<s, n>>])
    OBVIOUS
  <1>3. PICK p, o : p = pulllist[n][i] /\ o = <<>>
    OBVIOUS
  <1>4. PICK old : old = proc[n][p]
    OBVIOUS
  <1>5. PICK b, arrived, prev :
          /\ b = old.pullpg /\ arrived = old.arrived \cup {m.part}
          /\ prev = {q \in Range(pulllist[n]) : proc[n][q].pullnext = p}
    OBVIOUS
  <1>6. /\ Receives(s, n, "PULLRP") /\ i \in Pullers(n, m.rr)
        /\ page' = [page EXCEPT ![n][b].data[m.part] = m.data]
        /\ Exchange(s, n, s, o)
        /\ UNCHANGED <<panicked, budget, done, mem>>
    BY <1>2, <1>3, <1>4, <1>5 DEF RxPullrp, IsFirst, history
  <1>7. \/ /\ pulllist' = [pulllist EXCEPT ![n] = RemoveAt(@, i)]
           /\ rx' = [rx EXCEPT ![n] = p]
           /\ proc' = [proc EXCEPT ![n] = [q \in Procs |->
                IF q = p THEN [proc[n][p] EXCEPT !.arrived = arrived]
                ELSE IF q \in prev THEN [proc[n][q] EXCEPT !.pullnext = proc[n][p].pullnext]
                ELSE proc[n][q]]]
        \/ /\ UNCHANGED <<pulllist, rx>>
           /\ proc' = [proc EXCEPT ![n][p].arrived = arrived]
    BY <1>2, <1>3, <1>4, <1>5 DEF RxPullrp
  <1>8. Received(A, D, s, n, "PULLRP", m)
    <2>1. Receives(s, n, "PULLRP")
      BY <1>6
    <2> QED BY <1>2, <2>1, ReceiveFacts, Zenon
  <1>9. /\ s # n /\ net[<<s, n>>] # <<>> /\ m \in Packets /\ m.type = "PULLRP"
        /\ PacketOK(A, D, <<s, n>>, m) /\ rx[n] = NoProc
    BY <1>8 DEF Received
  <1>10. m.rr \in Words /\ m.part \in Parts /\ m.data \in Words
    BY <1>9, PacketFields
  <1>11. /\ pulllist[n] \in Seq(Procs) /\ i \in 1 .. Len(pulllist[n]) /\ p \in Procs
         /\ p \in Listed(n)
    <2>1. pulllist[n] \in Seq(Procs)
      BY <1>1 DEF TypeOK
    <2>2. i \in 1 .. Len(pulllist[n])
      BY <2>1, LenProperties
    <2> QED BY <1>3, <2>1, <2>2, ElementOfSeq DEF Listed
  <1>12. old.pullrr = m.rr
    BY <1>3, <1>4, <1>6 DEF Pullers
  <1>13. ProcOK(A, D, n, p, old) /\ PullOK(A, D, n, old) /\ old \in ProcRecords
    <2>1. ProcOK(A, D, n, p, old) /\ old \in ProcRecords
      BY <1>1, <1>4, <1>11 DEF Shape, TypeOK
    <2> QED BY <1>11, <2>1 DEF ProcOK
  <1>14. /\ old.state = "PULL" /\ old.pml4 \in D[n] /\ old.pml4 # 0
         /\ \/ b = old.pml4 /\ m.rr.a \in D[m.rr.n] /\ old.pullva = 0
            \/ b \in A[n] /\ b \notin D[n] /\ m.rr.a \notin D[m.rr.n]
    BY <1>5, <1>12, <1>13 DEF ProcOK, PullOK
  <1>15. b \in A[n] /\ b \in Addrs
    BY <1>1, <1>14 DEF Grow
  <1>16. IF m.rr.a \in D[m.rr.n] THEN RemoteOK(A, D, m.data) ELSE Plain(m.data)
    BY <1>9 DEF PacketOK
  <1>17. PICK was : was = page[n][b].data
    OBVIOUS
  <1>18. PICK data : data = [was EXCEPT ![m.part] = m.data]
    OBVIOUS
  <1>19. /\ data \in [Parts -> Words]
         /\ \A j \in Parts : IF b \in D[n] THEN EntryOK(A, D, n, data[j]) ELSE Plain(data[j])
    <2>1. was \in [Parts -> Words]
      BY <1>1, <1>15, <1>17 DEF TypeOK, PageRecords
    <2>2. \A j \in Parts : IF b \in D[n] THEN EntryOK(A, D, n, was[j]) ELSE Plain(was[j])
      <3>1. PageOK(A, D, n, b, page[n][b])
        BY <1>1, <1>15 DEF Shape
      <3> QED BY <1>17, <3>1 DEF PageOK
    <2>3. IF b \in D[n] THEN EntryOK(A, D, n, m.data) ELSE Plain(m.data)
      BY <1>14, <1>16 DEF EntryOK
    <2> QED BY <1>10, <1>18, <2>1, <2>2, <2>3
  <1>20. Rewritten(n, b, data)
    <2>1. page' = [page EXCEPT ![n][b].data = data]
      BY <1>6, <1>17, <1>18
    <2> QED BY <1>1, <1>15, <1>19, <2>1, RewriteFacts
  <1>21. /\ \A x \in Nodes, c \in Addrs : x \notin page'[x][c].shared
         /\ \A x \in Nodes, c \in Addrs : PageOK(A, D, x, c, page'[x][c])
         /\ SharedKept
    BY <1>1, <1>15, <1>19, <1>20, PageRewrite
  <1>22. /\ page' \in [Nodes -> [Addrs -> PageRecords]]
         /\ \A x \in Nodes, c \in Addrs : x # n \/ c # b => page'[x][c] = page[x][c]
    BY <1>20 DEF Rewritten
  <1>23. arrived \in SUBSET Parts
    BY <1>5, <1>10, <1>13 DEF ProcRecords
  <1>24. /\ proc' \in [Nodes -> [Procs -> ProcRecords]]
         /\ \A x \in Nodes, q \in Procs : proc'[x][q].migrdest # x
         /\ \A x \in Nodes, q \in Procs : Unmoved(x, q)
    <2>1. PartStored(n, p, arrived, prev)
      BY <1>7 DEF PartStored
    <2> QED BY <1>1, <1>11, <1>23, <2>1, PartArrives
  <1>25. \/ /\ pulllist' \in [Nodes -> Seq(Procs)] /\ \A x \in Nodes : OnceListed(x)'
            /\ \A x \in Nodes, q \in Procs :
                 q \in Listed(x)' <=> q \in Listed(x) /\ ~(x = n /\ q = p)
            /\ rx' = [rx EXCEPT ![n] = p]
         \/ pulllist' = pulllist /\ rx' = rx
    BY <1>1, <1>3, <1>7, <1>11, RemoveList
  <1>26. /\ pulllist' \in [Nodes -> Seq(Procs)] /\ \A x \in Nodes : OnceListed(x)'
         /\ rx' \in [Nodes -> Procs \cup {NoProc}]
         /\ \A x \in Nodes, q \in Procs : x # n \/ q # p =>
              (q \in Listed(x)' <=> q \in Listed(x)) /\ (rx'[x] = q => rx[x] = q)
         /\ \/ p \notin Listed(n)'
            \/ pulllist' = pulllist /\ rx' = rx /\ \A x \in Nodes : Listed(x)' = Listed(x)
    <2>1. rx \in [Nodes -> Procs \cup {NoProc}]
      BY <1>1 DEF TypeOK
    <2>2. CASE pulllist' = pulllist /\ rx' = rx
      <3>1. pulllist' \in [Nodes -> Seq(Procs)] /\ \A x \in Nodes : OnceListed(x)'
        BY <1>1, <2>2 DEF TypeOK, Shape, OnceListed
      <3>2. \A x \in Nodes : Listed(x)' = Listed(x)
        BY <2>2 DEF Listed
      <3> QED BY <2>1, <2>2, <3>1, <3>2
    <2>3. CASE /\ pulllist' \in [Nodes -> Seq(Procs)] /\ \A x \in Nodes : OnceListed(x)'
               /\ \A x \in Nodes, q \in Procs :
                    q \in Listed(x)' <=> q \in Listed(x) /\ ~(x = n /\ q = p)
               /\ rx' = [rx EXCEPT ![n] = p]
      <3>1. rx' \in [Nodes -> Procs \cup {NoProc}] /\ rx'[n] = p /\ \A x \in Nodes \ {n} : rx'[x] = rx[x]
        BY <1>11, <2>1, <2>3
      <3> QED BY <1>11, <2>3, <3>1
    <2> QED BY <1>25, <2>2, <2>3
  <1>27. OthersUntouched(n, p)
    BY <1>24, <1>26 DEF OthersUntouched, Untouched, Unmoved
  <1>28. DirectoriesKept(n, p)
    <2>1. ASSUME NEW x \in Nodes, NEW q \in Procs, x # n \/ q # p, proc[x][q].pml4 # 0
          PROVE  page'[x][proc[x][q].pml4].data = page[x][proc[x][q].pml4].data
      <3>1. proc[x][q].pml4 \in Addrs /\ proc[x][q].pml4 \in D[x]
        BY <1>1, <2>1, Pml4Type
      <3>2. x = n => proc[x][q].pml4 # old.pml4
        BY <1>1, <1>4, <1>11, <2>1 DEF Shape
      <3>3. x # n \/ proc[x][q].pml4 # b
        BY <1>14, <3>1, <3>2
      <3> QED BY <1>22, <3>1, <3>3
    <2> QED BY <2>1 DEF DirectoriesKept
  <1>29. ProcOK(A, D, n, p, proc[n][p])'
    <2>1. PICK r : r = proc'[n][p]
      OBVIOUS
    <2>2. /\ r.state = "PULL" /\ r.pml4 = old.pml4 /\ r.migrdest = old.migrdest
          /\ r.pullrr = old.pullrr /\ r.pullpg = old.pullpg /\ r.pullva = old.pullva
      BY <1>4, <1>11, <1>14, <1>24, <2>1 DEF Unmoved
    <2>3. rx'[n] = p => p \notin Listed(n)'
      <3>1. rx[n] # p
        BY <1>9, <1>11, NetAssumption DEF NoProc
      <3> QED BY <1>26, <3>1
    <2>4. PullOK(A, D, n, r)
      BY <1>13, <2>2 DEF PullOK
    <2>5. ASSUME NEW va \in Parts, va < r.pullva
          PROVE  page'[n][r.pml4].data[va].k # "remote"
      <3>1. va \in Nat
        BY NetAssumption DEF Parts
      <3>2. b # old.pml4
        BY <1>14, <2>2, <2>5, <3>1
      <3>3. page'[n][old.pml4] = page[n][old.pml4]
        BY <1>1, <1>14, <1>22, <3>2 DEF Grow
      <3>4. page[n][old.pml4].data[va].k # "remote"
        BY <1>13, <1>14, <2>2, <2>5 DEF ProcOK
      <3> QED BY <2>2, <3>3, <3>4
    <2> QED BY <1>14, <2>1, <2>2, <2>3, <2>4, <2>5 DEF ProcOK
  <1>30. PICK k, out : k = Take(s, n) /\ out = Answer(s, n, o)
    OBVIOUS
  <1>31. o \in Seq(Packets) /\ 1 .. Len(o) = {}
    BY <1>3, EmptySeq
  <1>32. Exchanged(s, n, o, k, out)
    BY <1>1, <1>6, <1>9, <1>30, <1>31, ExchangeMove
  <1>33. NetMove(k, out) /\ k[<<s, n>>] = 1 /\ \A c \in Channels : 1 .. Len(out[c]) = {}
    BY <1>31, <1>32 DEF Exchanged
  <1>34. ASSUME NEW q \in Procs
         PROVE  Calm(q, k, out)
    <2>1. CalmAnswer(n, m, o, q)
      BY <1>9, <1>31 DEF CalmAnswer, IsMigrp, IsMigrq
    <2>2. CalmAnswer(n, Head(net[<<s, n>>]), o, q) /\ Exchange(s, n, s, o) /\ panicked' = panicked
      BY <1>2, <1>6, <2>1
    <2> QED BY <1>1, <1>9, <1>21, <1>30, <1>31, <2>2, ExchangeCalm
  <1>35. Shape(A, D)'
    <2>1. proc'[n][p].pml4 = proc[n][p].pml4
      BY <1>11, <1>24 DEF Unmoved
    <2>2. \A c \in Channels : \A j \in 1 .. Len(out[c]) : PacketOK(A, D, c, out[c][j])
      BY <1>33
    <2>3. \A x \in Nodes : OnceListed(x)'
      BY <1>26
    <2>4. \A x \in Nodes, a \in Addrs : PageOK(A, D, x, a, page'[x][a])
      BY <1>21
    <2>5. NetMove(k, out)
      BY <1>33
    <2> QED BY <1>1, <1>11, <1>27, <1>28, <1>29, <2>1, <2>2, <2>3, <2>4, <2>5, ShapeStep
  <1>36. \A q \in Procs \ {p} : Way(q)'
    <2>1. \A q \in Procs : done'[q] = done[q]
      BY <1>6
    <2> QED BY <1>1, <1>11, <1>27, <1>33, <1>34, <2>1, OthersWay DEF Good
  <1>37. Way(p)'
    <2>1. CASE p \notin Listed(n)' /\ DirPull(n, p)
      <3>1. ~DirPull(n, p)' /\ proc[n][p].pullrr = m.rr /\ done' = done
        BY <1>4, <1>6, <1>12, <2>1 DEF DirPull
      <3>2. \A x \in Nodes : /\ proc'[x][p].state = proc[x][p].state
                             /\ proc'[x][p].sv = proc[x][p].sv
                             /\ proc'[x][p].pml4 = proc[x][p].pml4
        BY <1>11, <1>24 DEF Unmoved
      <3>3. Held(n, p)'
        BY <1>8, <1>11, <1>21, <1>33, <2>1, <3>1, <3>2, DirectoryArrived
      <3> QED BY <3>3 DEF Way
    <2>2. CASE p \notin Listed(n)' /\ ~DirPull(n, p)
      <3>1. Held(n, p)
        BY <1>4, <1>11, <1>14, <2>2, HeldAt DEF Good
      <3>2. /\ proc'[n][p].state \in {"READY", "RUN", "PULL"} /\ ~DirPull(n, p)'
            /\ proc'[n][p].sv = done'[p] /\ proc'[n][p].pml4 = proc[n][p].pml4
        BY <1>4, <1>6, <1>11, <1>14, <1>24, <2>2, <3>1 DEF Unmoved, Held, DirPull
      <3> QED BY <1>1, <1>11, <1>27, <1>33, <1>34, <3>1, <3>2, OwnWay
    <2>3. CASE \A x \in Nodes : Listed(x)' = Listed(x)
      <3>1. Still(p)
        BY <1>6, <1>11, <1>24, <2>3 DEF Still, Unmoved
      <3> QED BY <1>1, <1>11, <1>33, <1>34, <3>1, WayStays DEF Good
    <2> QED BY <1>26, <2>1, <2>2, <2>3
  <1>38. TypeOK'
    <2>1. net' \in [Channels -> Seq(Packets)]
      BY <1>33 DEF NetMove
    <2> QED BY <1>1, <1>6, <1>21, <1>22, <1>24, <1>26, <2>1 DEF TypeOK
  <1> QED BY <1>35, <1>36, <1>37, <1>38 DEF StillGood

(* A request for a process that is away comes from the node the process left. *)
LEMMA RequestInTransit ==
    ASSUME NEW A, NEW D, Good(A, D), NEW s \in Nodes, NEW n \in Nodes, NEW m,
           Received(A, D, s, n, "MIGRQ", m), m.p \in Procs, IsAway(proc[n][m.p].state)
    PROVE  InTransit(s, n, m.p) /\ m.pml4 = DirRR(s, m.p) /\ m.sv = done[m.p]
  <1>1. PICK p, go : p = m.p /\ go = <<s, n>>
    OBVIOUS
  <1>2. /\ go \in Channels /\ 1 \in 1 .. Len(net[go]) /\ IsMigrq(net[go][1], p)
        /\ m = net[go][1] /\ p \in Procs /\ IsAway(proc[n][p].state)
    BY <1>1 DEF Received, IsMigrq
  <1>3. Way(p)
    BY <1>2 DEF Good
  <1>4. \A x \in Nodes : ~Held(x, p)
    BY <1>2 DEF Held, NoMigrq
  <1>5. ASSUME NEW u \in Nodes, NEW d \in Nodes, Arriving(u, d, p)
        PROVE  FALSE
    <2>1. go = <<u, d>>
      BY <1>2, <1>5 DEF Arriving
    <2>2. d = n
      BY <1>1, <2>1
    <2> QED BY <1>2, <1>5, <2>2 DEF Arriving, IsAway
  <1>6. PICK u \in Nodes, d \in Nodes : InTransit(u, d, p)
    BY <1>3, <1>4, <1>5 DEF Way
  <1>7. go = <<u, d>> /\ m.pml4 = DirRR(u, p) /\ m.sv = done[p]
    BY <1>2, <1>6 DEF InTransit
  <1>8. u = s /\ d = n
    BY <1>1, <1>7
  <1> QED BY <1>1, <1>6, <1>7, <1>8

(* The old page directory is kept for the nodes that refer to it, and a fresh
   one is allocated. *)
DirectoryMade(n, p, a) ==
    page' = [page EXCEPT ![n] =
              [DropPmap(page[n], proc[n][p].pml4) EXCEPT ![a] = [FreePage EXCEPT !.ref = 1]]]

LEMMA NewDirectory ==
    ASSUME TypeOK, NEW A, NEW D, Shape(A, D), NEW n \in Nodes, NEW p \in Procs,
           NEW A2, NEW D2, Grow(A, D, A2, D2), NEW a \in Addrs, a \notin A[n],
           page[n][a].shared = {}, a \in A2[n], a \in D2[n],
           \A x \in Nodes, b \in Addrs : b \in A2[x] => b \in A[x] \/ (x = n /\ b = a),
           proc[n][p].pml4 = 0 \/ page[n][proc[n][p].pml4].shared # {}, DirectoryMade(n, p, a)
    PROVE  /\ page' \in [Nodes -> [Addrs -> PageRecords]]
           /\ \A x \in Nodes, b \in Addrs : x \notin page'[x][b].shared
           /\ \A x \in Nodes, b \in Addrs : PageOK(A2, D2, x, b, page'[x][b])
           /\ \A q \in Procs : DirectoriesKept(n, q)
           /\ SharedKept
  <1>1. PICK dir : dir = proc[n][p].pml4
    OBVIOUS
  <1>2. PICK dropped : dropped = DropPmap(page[n], dir)
    OBVIOUS
  <1>3. PICK new : new = [FreePage EXCEPT !.ref = 1]
    OBVIOUS
  <1>4. page \in [Nodes -> [Addrs -> PageRecords]] /\ page[n] \in [Addrs -> PageRecords]
    BY DEF TypeOK
  <1>5. dir = 0 \/ (dir \in Addrs /\ dir \in A[n] /\ page[n][dir].shared # {})
    <2>1. dir = 0 \/ (dir \in Addrs /\ dir \in D[n])
      BY <1>1, Pml4Type
    <2> QED BY <1>1, <2>1 DEF Grow
  <1>6. /\ dropped \in [Addrs -> PageRecords]
        /\ \A b \in Addrs : /\ dropped[b].home = page[n][b].home
                            /\ dropped[b].shared = page[n][b].shared
                            /\ dropped[b].data = page[n][b].data
                            /\ b # dir => dropped[b].ref = page[n][b].ref
    <2>1. CASE dir = 0
      <3>1. dropped = page[n]
        BY <1>2, <2>1 DEF DropPmap
      <3> QED BY <1>4, <3>1
    <2>2. CASE dir # 0
      <3>1. dir \in Addrs /\ page[n][dir].shared # {}
        BY <1>5, <2>2
      <3>2. PICK old : old = page[n][dir]
        OBVIOUS
      <3>3. PICK q : q = [old EXCEPT !.ref = @ - 1]
        OBVIOUS
      <3>4. old \in PageRecords
        BY <1>4, <3>1, <3>2
      <3>5. q \in PageRecords /\ q.home = old.home /\ q.shared = old.shared /\ q.data = old.data
        BY <3>3, <3>4 DEF PageRecords
      <3>6. dropped = [page[n] EXCEPT ![dir] = q]
        BY <1>2, <2>2, <3>1, <3>2, <3>3 DEF DropPmap
      <3> QED BY <1>4, <3>1, <3>2, <3>5, <3>6
    <2> QED BY <2>1, <2>2
  <1>7. /\ new \in PageRecords /\ new.ref = 1 /\ new.home = NoRR /\ new.shared = {}
        /\ new.data = Blank
    <2>1. FreePage = [ref |-> 0, home |-> NoRR, shared |-> {}, data |-> Blank]
      BY DEF FreePage
    <2>2. new = [ref |-> 1, home |-> NoRR, shared |-> {}, data |-> Blank]
      BY <1>3, <2>1
    <2>3. NoRR \in Words /\ Blank \in [Parts -> Words]
      BY DEF NoRR, ZeroRR, RR, Word, Words, Blank, Zero
    <2> QED BY <2>2, <2>3 DEF PageRecords
  <1>8. PICK pages : pages = [dropped EXCEPT ![a] = new]
    OBVIOUS
  <1>9. /\ pages \in [Addrs -> PageRecords] /\ pages[a] = new
        /\ \A b \in Addrs : b # a => pages[b] = dropped[b]
    BY <1>6, <1>7, <1>8
  <1>10. page' = [page EXCEPT ![n] = pages]
    BY <1>1, <1>2, <1>3, <1>8 DEF DirectoryMade
  <1>11. PagesAt(n, pages)
    BY <1>9, <1>10, PagesUpdate
  <1>12. /\ page' \in [Nodes -> [Addrs -> PageRecords]] /\ page'[n] = pages
         /\ \A x \in Nodes : x # n => page'[x] = page[x]
    BY <1>11 DEF PagesAt
  <1>13. SharedKept /\ \A x \in Nodes, b \in Addrs : x \notin page'[x][b].shared
    <2>1. \A x \in Nodes, b \in Addrs : x \notin page[x][b].shared
      BY DEF TypeOK
    <2>2. \A b \in Addrs : b # a => pages[b].shared = page[n][b].shared
      BY <1>6, <1>9
    <2>3. ASSUME NEW x \in Nodes, NEW b \in Addrs
          PROVE  page[x][b].shared \subseteq page'[x][b].shared /\ x \notin page'[x][b].shared
      <3>1. CASE x # n
        <4>1. page'[x][b] = page[x][b]
          BY <1>12, <3>1
        <4> QED BY <2>1, <4>1
      <3>2. CASE x = n /\ b = a
        <4>1. page'[x][b] = new
          BY <1>9, <1>12, <3>2
        <4> QED BY <1>7, <3>2, <4>1
      <3>3. CASE x = n /\ b # a
        <4>1. page'[x][b].shared = page[x][b].shared
          BY <1>12, <2>2, <3>3
        <4> QED BY <2>1, <4>1
      <3> QED BY <3>1, <3>2, <3>3
    <2> QED BY <2>3 DEF SharedKept
  <1>14. ASSUME NEW x \in Nodes, NEW b \in Addrs
         PROVE  PageOK(A2, D2, x, b, page'[x][b])
    <2>1. PICK old, u : old = page[x][b] /\ u = page'[x][b]
      OBVIOUS
    <2>2. PageOK(A, D, x, b, old)
      BY <2>1 DEF Shape
    <2>3. CASE x # n \/ b # a
      <3>1. u.home = old.home /\ u.data = old.data /\ (b \in A2[x] => b \in A[x])
        BY <1>6, <1>9, <1>12, <2>1, <2>3
      <3>2. b \in A[x] => u.ref # 0 \/ u.shared # {}
        <4>1. CASE x = n /\ b = dir
          <5>1. u.shared = old.shared /\ old.shared # {}
            BY <1>5, <1>6, <1>9, <1>12, <2>1, <2>3, <4>1, NetAssumption
          <5> QED BY <5>1
        <4>2. CASE x # n \/ b # dir
          <5>1. u.ref = old.ref /\ u.shared = old.shared
            BY <1>6, <1>9, <1>12, <2>1, <2>3, <4>2
          <5> QED BY <2>2, <5>1 DEF PageOK
        <4> QED BY <4>1, <4>2
      <3>3. PageOK(A2, D2, x, b, u)
        BY <2>2, <3>1, <3>2, PageKeeps
      <3> QED BY <2>1, <3>3
    <2>4. CASE x = n /\ b = a
      <3>1. \A i \in Parts : EntryOK(A2, D2, n, Blank[i])
        BY DEF Blank, EntryOK
      <3>2. page'[x][b] = new
        BY <1>9, <1>12, <2>4
      <3>3. PageOK(A2, D2, n, a, new)
        BY <1>7, <3>1 DEF PageOK
      <3> QED BY <2>4, <3>2, <3>3
    <2> QED BY <2>3, <2>4
  <1>15. ASSUME NEW q \in Procs
         PROVE  DirectoriesKept(n, q)
    <2>1. ASSUME NEW x \in Nodes, NEW v \in Procs, proc[x][v].pml4 # 0
          PROVE  page'[x][proc[x][v].pml4].data = page[x][proc[x][v].pml4].data
      <3>1. PICK c : c = proc[x][v].pml4
        OBVIOUS
      <3>2. c \in Addrs /\ c \in A[x]
        BY <2>1, <3>1, Pml4Type DEF Grow
      <3>3. page'[x][c].data = page[x][c].data
        BY <1>6, <1>9, <1>12, <3>2
      <3> QED BY <3>1, <3>3
    <2> QED BY <2>1 DEF DirectoriesKept
  <1> QED BY <1>12, <1>13, <1>14, <1>15

(* n accepts the process that s has sent. *)
LEMMA Accepted ==
    ASSUME NEW A, NEW D, Good(A, D), NEW s \in Nodes, NEW n \in Nodes, s # n, NEW p \in Procs,
           InTransit(s, n, p), NEW k, NEW out, NEW o, Exchanged(s, n, o, k, out),
           out[<<n, s>>] = o, Len(o) = 2, IsMigrp(o[1], p), Asks(o[2], DirRR(s, p)),
           SharedKept, done' = done,
           \A x \in Nodes \ {n} : /\ proc'[x][p].state = proc[x][p].state
                                  /\ proc'[x][p].migrdest = proc[x][p].migrdest
                                  /\ proc'[x][p].pml4 = proc[x][p].pml4,
           proc'[n][p].state = "PULL", DirPull(n, p)', proc'[n][p].pullrr = DirRR(s, p),
           proc'[n][p].sv = done[p], proc'[n][p].pml4 \notin A[n]
    PROVE  Way(p)'
  <1>1. TypeOK /\ Shape(A, D)
    BY DEF Good
  <1>2. PICK go, back : go = <<s, n>> /\ back = <<n, s>>
    OBVIOUS
  <1>3. go \in Channels /\ back \in Channels /\ go # back
    BY <1>2, ChannelPair
  <1>4. /\ NetMove(k, out) /\ k[back] = 0
        /\ \A c \in Channels : \A j \in 1 .. Len(out[c]) : c = back /\ (out[c][j] = o[1] \/ out[c][j] = o[2])
    <2>1. NetMove(k, out) /\ k[back] \in {0, 1} /\ k[back] # 1
      BY <1>2, <1>3 DEF Exchanged, NetMove
    <2>2. ASSUME NEW c \in Channels, NEW j \in 1 .. Len(out[c])
          PROVE  c = back /\ (out[c][j] = o[1] \/ out[c][j] = o[2])
      <3>1. c = back /\ j \in 1 .. 2 /\ out[c][j] = o[j]
        BY <1>2 DEF Exchanged
      <3>2. j = 1 \/ j = 2
        BY <3>1
      <3> QED BY <3>1, <3>2
    <2> QED BY <2>1, <2>2
  <1>5. /\ o[1].type = "MIGRP" /\ o[1].p = p /\ o[2].type = "PULLRQ" /\ o[2].rr = DirRR(s, p)
        /\ DirRR(s, p)' = DirRR(s, p)
    BY DEF IsMigrp, Asks, DirRR
  <1>6. ASSUME NEW c \in Channels, NEW i \in 1 .. Len(net'[c])
        PROVE  \/ \E j \in 1 .. Len(net[c]) : net'[c][i] = net[c][j]
               \/ c = back /\ (net'[c][i] = o[1] \/ net'[c][i] = o[2])
    <2>1. CASE i + k[c] \in 1 .. Len(net[c]) /\ net'[c][i] = net[c][i + k[c]]
      BY <2>1
    <2> QED BY <1>1, <1>4, <2>1, Packet
  <1>7. Sent(s, n, p)' /\ \A x \in Nodes \ {s, n} : Gone(x, p)'
    <2>1. Sent(s, n, p) /\ \A x \in Nodes \ {s} : Gone(x, p)
      BY DEF InTransit
    <2>2. Sent(s, n, p)'
      BY <2>1 DEF Sent
    <2>3. ASSUME NEW x \in Nodes \ {s, n}
          PROVE  Gone(x, p)'
      <3>1. /\ IsAway(proc'[x][p].state) /\ proc'[x][p].pml4 = proc[x][p].pml4
            /\ proc[x][p].pml4 = 0 \/ page[x][proc[x][p].pml4].shared # {}
        BY <2>1 DEF Gone
      <3>2. proc[x][p].pml4 # 0 =>
              page[x][proc[x][p].pml4].shared \subseteq page'[x][proc[x][p].pml4].shared
        BY <1>1, SharedDirs
      <3> QED BY <3>1, <3>2 DEF Gone
    <2> QED BY <2>2, <2>3
  <1>8. ASSUME NEW c \in Channels, NEW i \in 1 .. Len(net'[c]), IsMigrq(net'[c][i], p)
        PROVE  c = go
    BY <1>2, <1>5, <1>6, <1>8 DEF InTransit, IsMigrq
  <1>9. ASSUME NEW c \in Channels, NEW i \in 1 .. Len(net'[c])
        PROVE  ~Brings(net'[c][i], DirRR(s, p))
    BY <1>5, <1>6 DEF InTransit, Unasked, Brings
  <1>10. \E i \in 1 .. Len(net'[back]) :
           /\ IsMigrp(net'[back][i], p)
           /\ \A j \in 1 .. i : ~Asks(net'[back][j], DirRR(s, p))
    <2>1. Moves(net[back], 0, o, net'[back]) /\ Len(net[back]) \in Nat
      BY <1>1, <1>2, <1>3, <1>4, Packet DEF NetMove
    <2>2. PICK l, t, u : l = Len(net[back]) /\ t = net'[back] /\ u = net[back]
      OBVIOUS
    <2>3. Len(t) = l + 2 /\ l \in Nat
      BY <2>1, <2>2 DEF Moves
    <2>4. \A j \in 1 .. l : t[j] = u[j]
      BY <2>1, <2>2, <2>3 DEF Moves
    <2>5. t[l + 1] = o[1] /\ l + 1 \in 1 .. Len(t)
      BY <2>1, <2>2, <2>3 DEF Moves
    <2>6. ASSUME NEW j \in 1 .. l + 1
          PROVE  ~Asks(t[j], DirRR(s, p))
      <3>1. CASE j \in 1 .. l
        <4>1. ~Asks(u[j], DirRR(s, p))
          BY <1>3, <2>2, <3>1 DEF InTransit, Unasked
        <4> QED BY <2>4, <3>1, <4>1
      <3>2. CASE j = l + 1
        BY <1>5, <2>5, <3>2 DEF Asks
      <3> QED BY <2>3, <3>1, <3>2
    <2> QED BY <2>2, <2>5, <2>6
  <1>11. Unasked(DirRR(n, p))'
    <2>1. PICK a : a = proc'[n][p].pml4
      OBVIOUS
    <2>2. /\ DirRR(n, p)' = RR(n, a) /\ RR(n, a).n = n /\ RR(n, a).a = a /\ a \notin A[n]
          /\ DirRR(s, p).n = s
      BY <2>1 DEF DirRR, RR, Word
    <2>3. ASSUME NEW c \in Channels, NEW j \in 1 .. Len(net[c])
          PROVE  ~Asks(net[c][j], RR(n, a)) /\ ~Brings(net[c][j], RR(n, a))
      <3>1. PacketOK(A, D, c, net[c][j])
        BY <1>1 DEF Shape
      <3> QED BY <2>2, <3>1 DEF PacketOK, Asks, Brings
    <2>4. ~Asks(o[1], RR(n, a)) /\ ~Brings(o[1], RR(n, a))
      BY <1>5 DEF Asks, Brings
    <2>5. ~Asks(o[2], RR(n, a)) /\ ~Brings(o[2], RR(n, a))
      BY <1>5, <2>2 DEF Asks, Brings
    <2>6. ASSUME NEW c \in Channels, NEW i \in 1 .. Len(net'[c])
          PROVE  ~Asks(net'[c][i], RR(n, a)) /\ ~Brings(net'[c][i], RR(n, a))
      BY <1>6, <2>3, <2>4, <2>5
    <2> QED BY <2>2, <2>6 DEF Unasked, Asks, Brings
  <1>12. Arriving(s, n, p)'
    <2>1. (\A c \in Channels : \A i \in 1 .. Len(net[c]) : IsMigrq(net[c][i], p) => c = <<s, n>>)'
      BY <1>2, <1>8 DEF IsMigrq
    <2>2. (\A i \in 1 .. Len(net[<<s, n>>]) : ~Brings(net[<<s, n>>][i], DirRR(s, p)))'
      BY <1>2, <1>3, <1>5, <1>9 DEF Brings
    <2>3. (\E i \in 1 .. Len(net[<<n, s>>]) :
              /\ IsMigrp(net[<<n, s>>][i], p)
              /\ \A j \in 1 .. i : ~Asks(net[<<n, s>>][j], DirRR(s, p)))'
      BY <1>2, <1>5, <1>10 DEF IsMigrp, Asks
    <2>4. proc'[n][p].pullrr = DirRR(s, p)' /\ proc'[n][p].sv = done'[p]
      BY <1>5
    <2> QED BY <1>7, <1>11, <2>1, <2>2, <2>3, <2>4 DEF Arriving
  <1> QED BY <1>12 DEF Way

(* n has no page for the process, or its record is in use. *)
LEMMA RxMigrqRefused ==
    ASSUME NEW A, NEW D, Good(A, D), NEW s \in Nodes, NEW n \in Nodes, NEW m,
           Received(A, D, s, n, "MIGRQ", m), m = Head(net[<<s, n>>]),
           Exchange(s, n, s, <<Migrp(m.p)>>), panicked' = panicked \cup {n},
           UNCHANGED <<proc, page, pulllist, rx, budget, done, mem>>
    PROVE  StillGood
  <1>1. TypeOK /\ Shape(A, D)
    BY DEF Good
  <1>2. s # n /\ net[<<s, n>>] # <<>> /\ m \in Packets /\ m.type = "MIGRQ"
    BY DEF Received
  <1>3. m.p \in Procs
    BY <1>2, PacketFields
  <1>4. PICK o : o = <<Migrp(m.p)>>
    OBVIOUS
  <1>5. /\ o \in Seq(Packets) /\ \A j \in 1 .. Len(o) : o[j].type = "MIGRP"
        /\ \A j \in 1 .. Len(o) : PacketOK(A, D, <<n, s>>, o[j])
    BY <1>3, <1>4, MigrpPacket
  <1>6. panicked' \subseteq Nodes /\ panicked \subseteq panicked' /\ panicked' # {}
    BY <1>1 DEF TypeOK
  <1>7. \A q \in Procs : CalmAnswer(n, m, o, q)
    BY <1>2, <1>5, <1>6 DEF CalmAnswer, IsMigrp, IsMigrq
  <1>8. \A q \in Procs : CalmAnswer(n, Head(net[<<s, n>>]), o, q)
    BY <1>7
  <1>9. Exchange(s, n, s, o)
    BY <1>4
  <1> QED BY <1>1, <1>2, <1>5, <1>6, <1>8, <1>9, KeptPages, AnswerStep

LEMMA RxMigrqStep ==
    ASSUME NEW A, NEW D, Good(A, D), NEW s \in Nodes, NEW n \in Nodes, RxMigrq(s, n)
    PROVE  StillGood
  <1>1. TypeOK /\ Shape(A, D) /\ Grow(A, D, A, D)
    BY DEF Good, Shape
  <1>2. PICK m : m = Head(net[<<s, n>>])
    OBVIOUS
  <1>3. PICK p : p = m.p
    OBVIOUS
  <1>4. PICK old, a : old = proc[n][p] /\ a = Alloc(n)
    OBVIOUS
  <1>5. PICK came : came = Arrive(old, m, a)
    OBVIOUS
  <1>6. PICK r : r = StartPull(came, n, m.pml4, a)
    OBVIOUS
  <1>7. PICK o : o = <<Migrp(p), Pullrq(m.pml4, Level(r), {})>>
    OBVIOUS
  <1>8. Receives(s, n, "MIGRQ") /\ IsAway(old.state)
    BY <1>2, <1>3, <1>4 DEF RxMigrq
  <1>9. Received(A, D, s, n, "MIGRQ", m)
    <2>1. Receives(s, n, "MIGRQ")
      BY <1>8
    <2> QED BY <1>2, <2>1, ReceiveFacts, Zenon
  <1>10. /\ s # n /\ net[<<s, n>>] # <<>> /\ m \in Packets /\ m.type = "MIGRQ"
         /\ rx[n] = NoProc
    BY <1>9 DEF Received
  <1>11. m.p \in Procs /\ p \in Procs /\ m.pml4 \in Words /\ m.sv \in Nat
    BY <1>3, <1>10, PacketFields
  <1>12. InTransit(s, n, p) /\ m.pml4 = DirRR(s, p) /\ m.sv = done[p]
    <2>1. IsAway(proc[n][m.p].state)
      BY <1>3, <1>4, <1>8
    <2> QED BY <1>3, <1>9, <1>11, <2>1, RequestInTransit
  <1>13. CASE FreeAddrs(n) = {} \/ old.pullnext # NoProc
    <2>1. /\ panicked' = panicked \cup {n} /\ Exchange(s, n, s, <<Migrp(m.p)>>)
          /\ UNCHANGED <<proc, page, pulllist, rx, budget, done, mem>>
      BY <1>2, <1>3, <1>4, <1>13 DEF RxMigrq, history
    <2> QED BY <1>2, <1>9, <2>1, RxMigrqRefused
  <1>14. SUFFICES ASSUME ~(FreeAddrs(n) = {} \/ old.pullnext # NoProc)
                  PROVE  StillGood
    BY <1>13
  <1>15. /\ proc' = [proc EXCEPT ![n][p] = r] /\ DirectoryMade(n, p, a)
         /\ pulllist' = [pulllist EXCEPT ![n] = <<p>> \o @]
         /\ Exchange(s, n, s, o) /\ UNCHANGED <<rx, panicked, budget, done, mem>>
    BY <1>2, <1>3, <1>4, <1>5, <1>6, <1>7, <1>14 DEF RxMigrq, history, DirectoryMade
  <1>16. /\ a \in Addrs /\ a \notin A[n] /\ a # 0 /\ page[n][a].shared = {}
    BY <1>1, <1>4, <1>14, AllocFacts
  <1>17. /\ old \in ProcRecords /\ old.migrdest # n /\ ProcOK(A, D, n, p, old)
         /\ p \notin Listed(n) /\ (\A q \in Procs : rx[n] # q)
    <2>1. old \in ProcRecords /\ old.migrdest # n
      BY <1>1, <1>4, <1>11 DEF TypeOK
    <2>2. ProcOK(A, D, n, p, old)
      BY <1>1, <1>4, <1>11 DEF Shape
    <2>3. p \notin Listed(n)
      BY <1>8, <2>2 DEF ProcOK, PullOK, IsAway
    <2> QED BY <1>10, <2>1, <2>2, <2>3, NetAssumption DEF NoProc
  <1>18. /\ came \in ProcRecords /\ came.migrdest = old.migrdest /\ came.pml4 = a
         /\ came.pullva = 0 /\ came.sv = m.sv
    <2>1. 0 \in 0 .. NParts
      BY NetAssumption
    <2> QED BY <1>5, <1>11, <1>16, <1>17, <2>1 DEF Arrive, ProcRecords
  <1>19. /\ r \in ProcRecords /\ r.state = "PULL" /\ r.pullrr = m.pml4 /\ r.pullpg = a
         /\ r.migrdest = old.migrdest /\ r.pml4 = a /\ r.pullva = 0 /\ r.sv = m.sv
    BY <1>1, <1>6, <1>11, <1>16, <1>18, StartPullType
  <1>20. PICK ask : ask = Pullrq(m.pml4, Level(r), {})
    OBVIOUS
  <1>21. /\ ask \in Packets /\ ask.type = "PULLRQ" /\ ask.rr = m.pml4 /\ ask.level = "PDIR"
    <2>1. Level(r) = "PDIR"
      BY <1>19 DEF Level
    <2> QED BY <1>11, <1>20, <2>1 DEF Pullrq, Need, Packets
  <1>22. /\ o \in Seq(Packets) /\ Len(o) = 2 /\ o[1] = Migrp(p) /\ o[2] = ask
         /\ \A j \in 1 .. Len(o) : o[j] = Migrp(p) \/ o[j] = ask
    <2>1. Migrp(p) \in Packets
      BY <1>11, MigrpPacket
    <2>2. o = <<Migrp(p), ask>>
      BY <1>7, <1>20
    <2> QED BY <1>21, <2>1, <2>2
  <1>23. PICK A2, D2 : A2 = [A EXCEPT ![n] = @ \cup {a}] /\ D2 = [D EXCEPT ![n] = @ \cup {a}]
    OBVIOUS
  <1>24. /\ Grow(A, D, A2, D2) /\ a \in A2[n] /\ a \in D2[n]
         /\ \A x \in Nodes, b \in Addrs : b \in A2[x] => b \in A[x] \/ (x = n /\ b = a)
    <2>1. Grow(A, D, A2, D2)
      BY <1>1, <1>16, <1>23, GrowPage
    <2>2. A \in [Nodes -> SUBSET Addrs] /\ D \in [Nodes -> SUBSET Addrs]
      BY <1>1 DEF Grow
    <2> QED BY <1>23, <2>1, <2>2
  <1>25. /\ page' \in [Nodes -> [Addrs -> PageRecords]]
         /\ \A x \in Nodes, b \in Addrs : x \notin page'[x][b].shared
         /\ \A x \in Nodes, b \in Addrs : PageOK(A2, D2, x, b, page'[x][b])
         /\ \A q \in Procs : DirectoriesKept(n, q)
         /\ SharedKept
    <2>1. proc[n][p].pml4 = 0 \/ page[n][proc[n][p].pml4].shared # {}
      BY <1>10, <1>12 DEF InTransit, Gone
    <2>2. TypeOK /\ Shape(A, D) /\ p \in Procs /\ DirectoryMade(n, p, a)
      BY <1>1, <1>11, <1>15
    <2>3. a \in Addrs /\ a \notin A[n] /\ page[n][a].shared = {}
      BY <1>16
    <2> QED BY <1>24, <2>1, <2>2, <2>3, NewDirectory
  <1>26. /\ pulllist' \in [Nodes -> Seq(Procs)] /\ \A x \in Nodes : OnceListed(x)'
         /\ \A x \in Nodes, q \in Procs :
              q \in Listed(x)' <=> q \in Listed(x) \/ (x = n /\ q = p)
    BY <1>1, <1>11, <1>15, <1>17, PushList
  <1>27. /\ proc' \in [Nodes -> [Procs -> ProcRecords]] /\ proc'[n][p] = r
         /\ \A x \in Nodes, q \in Procs : x # n \/ q # p => proc'[x][q] = proc[x][q]
         /\ \A x \in Nodes, q \in Procs : proc'[x][q].migrdest # x
    BY <1>1, <1>11, <1>15, <1>17, <1>19, ProcUpdate
  <1>28. OthersUntouched(n, p)
    BY <1>15, <1>26, <1>27 DEF OthersUntouched, Untouched
  <1>29. PICK k, out : k = Take(s, n) /\ out = Answer(s, n, o)
    OBVIOUS
  <1>30. Exchanged(s, n, o, k, out) /\ out[<<n, s>>] = o
    <2>1. Exchanged(s, n, o, Take(s, n), Answer(s, n, o))
      BY <1>1, <1>10, <1>15, <1>22, ExchangeMove
    <2>2. <<n, s>> \in Channels
      BY <1>10, ChannelPair
    <2> QED BY <1>29, <2>1, <2>2 DEF Answer, Nothing
  <1>31. NetMove(k, out)
    BY <1>30 DEF Exchanged
  <1>32. DirRR(s, p).k = "remote" /\ DirRR(s, p).n = s /\ DirRR(s, p).a \in D[s]
    <2>1. PacketOK(A, D, <<s, n>>, m)
      BY <1>9 DEF Received
    <2>2. m.pml4.a \in D[<<s, n>>[1]]
      BY <1>10, <2>1 DEF PacketOK
    <2> QED BY <1>12, <2>2 DEF DirRR, RR, Word
  <1>33. DirRR(s, p).a \in A2[s] /\ DirRR(s, p).a \in D2[s]
    BY <1>24, <1>32 DEF Grow
  <1>34. \A c \in Channels : \A j \in 1 .. Len(out[c]) : PacketOK(A2, D2, c, out[c][j])
    <2>1. PacketOK(A2, D2, <<n, s>>, Migrp(p))
      BY <1>11, MigrpPacket
    <2>2. PacketOK(A2, D2, <<n, s>>, ask)
      BY <1>12, <1>21, <1>32, <1>33 DEF PacketOK
    <2>3. ASSUME NEW c \in Channels, NEW j \in 1 .. Len(out[c])
          PROVE  PacketOK(A2, D2, c, out[c][j])
      <3>1. c = <<n, s>> /\ j \in 1 .. Len(o) /\ out[c][j] = o[j]
        BY <1>30 DEF Exchanged
      <3> QED BY <1>22, <2>1, <2>2, <3>1
    <2> QED BY <2>3
  <1>35. ProcOK(A2, D2, n, p, proc[n][p])'
    <2>1. PullOK(A2, D2, n, r)
      BY <1>10, <1>12, <1>19, <1>32, <1>33 DEF PullOK
    <2>2. \A i \in Parts : ~(i < 0)
      BY NetAssumption DEF Parts
    <2>3. rx'[n] # p
      BY <1>11, <1>15, <1>17
    <2> QED BY <1>16, <1>19, <1>24, <1>27, <2>1, <2>2, <2>3 DEF ProcOK
  <1>36. Shape(A2, D2)'
    <2>1. proc'[n][p].pml4 \notin A[n] \cup {0}
      BY <1>16, <1>19, <1>27
    <2>2. DirectoriesKept(n, p)
      BY <1>11, <1>25
    <2> QED BY <1>1, <1>11, <1>24, <1>25, <1>26, <1>28, <1>31, <1>34, <1>35, <2>1, <2>2, ShapeStep
  <1>37. ASSUME NEW q \in Procs, q # p
         PROVE  Way(q)'
    <2>1. \A x \in Nodes : m.pml4 # DirRR(x, q)
      <3>1. ASSUME NEW x \in Nodes, DirRR(s, p) = DirRR(x, q)
            PROVE  FALSE
        <4>1. x = s /\ proc[s][p].pml4 = proc[s][q].pml4
          BY <3>1 DEF DirRR, RR, Word
        <4>2. proc[s][p].pml4 # 0
          BY <1>12 DEF InTransit, Sent
        <4> QED BY <1>1, <1>11, <1>37, <4>1, <4>2 DEF Shape
      <3> QED BY <1>12, <3>1
    <2>2. CalmAnswer(n, m, o, q)
      <3>1. Migrp(p).type = "MIGRP"
        BY <1>11, MigrpPacket
      <3>2. ~IsMigrp(m, q) /\ ~IsMigrq(m, q)
        BY <1>3, <1>10, <1>37 DEF IsMigrp, IsMigrq
      <3> QED BY <1>21, <1>22, <2>1, <3>1, <3>2 DEF CalmAnswer
    <2>3. Calm(q, k, out)
      BY <1>1, <1>2, <1>10, <1>15, <1>22, <1>25, <1>29, <2>2, ExchangeCalm
    <2> QED BY <1>1, <1>11, <1>15, <1>28, <1>31, <1>37, <2>3, OthersWay DEF Good
  <1>38. Way(p)'
    <2>1. IsMigrp(o[1], p) /\ Asks(o[2], DirRR(s, p))
      BY <1>11, <1>12, <1>21, <1>22, MigrpPacket DEF IsMigrp, Asks
    <2>2. DirPull(n, p)'
      BY <1>11, <1>19, <1>26, <1>27 DEF DirPull
    <2>3. /\ proc'[n][p].state = "PULL" /\ proc'[n][p].pullrr = DirRR(s, p)
          /\ proc'[n][p].sv = done[p] /\ proc'[n][p].pml4 \notin A[n]
      BY <1>12, <1>16, <1>19, <1>27
    <2>4. \A x \in Nodes \ {n} : /\ proc'[x][p].state = proc[x][p].state
                                 /\ proc'[x][p].migrdest = proc[x][p].migrdest
                                 /\ proc'[x][p].pml4 = proc[x][p].pml4
      BY <1>11, <1>27
    <2>5. done' = done /\ SharedKept
      BY <1>15, <1>25
    <2> QED BY <1>10, <1>11, <1>12, <1>22, <1>30, <2>1, <2>2, <2>3, <2>4, <2>5, Accepted
  <1>39. TypeOK'
    <2>1. net' \in [Channels -> Seq(Packets)]
      BY <1>31 DEF NetMove
    <2> QED BY <1>1, <1>15, <1>25, <1>26, <1>27, <2>1 DEF TypeOK
  <1>40. \E A3, D3 : Shape(A3, D3)'
    BY <1>36
  <1> QED BY <1>37, <1>38, <1>39, <1>40 DEF StillGood

-----------------------------------------------------------------------------
(* The clock *)

Repeated(n, d, m) ==
    \/ \E p \in Procs : /\ proc[n][p].state = "MIGR" /\ proc[n][p].migrdest = d
                        /\ m = Migrq(p, n, proc[n][p])
    \/ \E p \in Procs : /\ p \in Listed(n) /\ proc[n][p].pullrr.n = d
                        /\ m = Pullrq(proc[n][p].pullrr, Level(proc[n][p]), proc[n][p].arrived)

LEMMA RequestTypes ==
    ASSUME TypeOK, NEW n \in Nodes, NEW p \in Procs
    PROVE  /\ Migrq(p, n, proc[n][p]) \in Packets
           /\ Pullrq(proc[n][p].pullrr, Level(proc[n][p]), proc[n][p].arrived) \in Packets
  <1>1. PICK r : r = proc[n][p]
    OBVIOUS
  <1>2. /\ r.pml4 \in Addrs \cup {0} /\ r.sv \in Nat /\ r.pullrr \in Words
        /\ Level(r) \in {"PDIR", "PAGE"}
    BY <1>1 DEF TypeOK, ProcRecords, Level
  <1>3. RR(n, r.pml4) \in Words
    BY <1>2, AddrNat DEF RR, Word, Words
  <1>4. Migrq(p, n, r) \in Packets
    BY <1>2, <1>3 DEF Migrq, Packets
  <1>5. Pullrq(r.pullrr, Level(r), r.arrived) \in Packets
    BY <1>2 DEF Pullrq, Need, Packets
  <1> QED BY <1>1, <1>4, <1>5

LEMMA RetransmitsFacts ==
    ASSUME TypeOK, NEW n \in Nodes, NEW d \in Nodes
    PROVE  /\ Retransmits(n, d) \in Seq(Packets)
           /\ \A j \in 1 .. Len(Retransmits(n, d)) : Repeated(n, d, Retransmits(n, d)[j])
  <1>1. PICK S, T : /\ S = {p \in Procs : proc[n][p].state = "MIGR" /\ proc[n][p].migrdest = d}
                    /\ T = {p \in Range(pulllist[n]) : proc[n][p].pullrr.n = d}
    OBVIOUS
  <1>2. \A p \in Range(pulllist[n]) : p \in Procs /\ p \in Listed(n)
    <2>1. pulllist[n] \in Seq(Procs)
      BY DEF TypeOK
    <2>2. DOMAIN pulllist[n] = 1 .. Len(pulllist[n])
      BY <2>1
    <2>3. \A i \in 1 .. Len(pulllist[n]) : pulllist[n][i] \in Procs
      BY <2>1
    <2> QED BY <2>2, <2>3 DEF Range, Listed
  <1>3. S \subseteq Procs /\ T \subseteq Procs
    BY <1>1, <1>2
  <1>4. IsFiniteSet(S) /\ IsFiniteSet(T)
    BY <1>3, FS_Subset, NetAssumption
  <1>5. PICK migr, pull : migr = SetToSeq(S) /\ pull = SetToSeq(T)
    OBVIOUS
  <1>6. migr \in Seq(S) /\ pull \in Seq(T)
    BY <1>4, <1>5, SetToSeqType
  <1>7. PICK i, j : i = Len(migr) /\ j = Len(pull)
    OBVIOUS
  <1>8. /\ i \in Nat /\ j \in Nat /\ (\A x \in 1 .. i : migr[x] \in S)
        /\ \A x \in 1 .. j : pull[x] \in T
    BY <1>6, <1>7, LenProperties, ElementOfSeq
  <1>9. PICK f, g : /\ f = [x \in 1 .. i |-> Migrq(migr[x], n, proc[n][migr[x]])]
                    /\ g = [x \in 1 .. j |-> Pullrq(proc[n][pull[x]].pullrr, Level(proc[n][pull[x]]),
                                                    proc[n][pull[x]].arrived)]
    OBVIOUS
  <1>10. ASSUME NEW x \in 1 .. i
         PROVE  f[x] \in Packets /\ Repeated(n, d, f[x])
    <2>1. PICK p : p = migr[x]
      OBVIOUS
    <2>2. p \in Procs /\ proc[n][p].state = "MIGR" /\ proc[n][p].migrdest = d
      BY <1>1, <1>8, <1>10, <2>1
    <2>3. f[x] = Migrq(p, n, proc[n][p])
      BY <1>9, <1>10, <2>1
    <2> QED BY <2>2, <2>3, RequestTypes DEF Repeated
  <1>11. ASSUME NEW x \in 1 .. j
         PROVE  g[x] \in Packets /\ Repeated(n, d, g[x])
    <2>1. PICK p : p = pull[x]
      OBVIOUS
    <2>2. p \in Procs /\ p \in Listed(n) /\ proc[n][p].pullrr.n = d
      BY <1>1, <1>2, <1>8, <1>11, <2>1
    <2>3. g[x] = Pullrq(proc[n][p].pullrr, Level(proc[n][p]), proc[n][p].arrived)
      BY <1>9, <1>11, <2>1
    <2> QED BY <2>2, <2>3, RequestTypes DEF Repeated
  <1>12. f \in [1 .. i -> Packets] /\ g \in [1 .. j -> Packets]
    <2>1. f = [x \in 1 .. i |-> f[x]] /\ g = [x \in 1 .. j |-> g[x]]
      BY <1>9
    <2> QED BY <1>10, <1>11, <2>1
  <1>13. f \in Seq(Packets) /\ Len(f) = i /\ g \in Seq(Packets) /\ Len(g) = j
    BY <1>8, <1>12, FunctionSeq
  <1>14. Retransmits(n, d) = f \o g
    BY <1>1, <1>5, <1>7, <1>9 DEF Retransmits
  <1>15. /\ f \o g \in Seq(Packets) /\ Len(f \o g) = i + j
         /\ \A x \in 1 .. i + j : (f \o g)[x] = IF x <= i THEN f[x] ELSE g[x - i]
    BY <1>8, <1>13, ConcatProperties
  <1>16. ASSUME NEW x \in 1 .. i + j
         PROVE  Repeated(n, d, (f \o g)[x])
    <2>1. CASE x <= i
      <3>1. x \in 1 .. i
        BY <1>8, <2>1
      <3> QED BY <1>10, <1>15, <2>1, <3>1
    <2>2. CASE ~(x <= i)
      <3>1. x - i \in 1 .. j
        BY <1>8, <2>2
      <3> QED BY <1>11, <1>15, <2>2, <3>1
    <2> QED BY <2>1, <2>2
  <1> QED BY <1>14, <1>15, <1>16

LEMMA RepeatedPacket ==
    ASSUME NEW A, NEW D, Good(A, D), NEW c \in Channels, NEW m, Repeated(c[1], c[2], m)
    PROVE  /\ PacketOK(A, D, c, m) /\ m.type # "PULLRP"
           /\ \A q \in Procs : IsMigrq(m, q) =>
                /\ proc[c[1]][q].state = "MIGR" /\ proc[c[1]][q].migrdest = c[2]
                /\ m.pml4 = DirRR(c[1], q) /\ m.sv = proc[c[1]][q].sv
           /\ \A q \in Procs, x \in Nodes : Asks(m, DirRR(x, q)) =>
                DirPull(c[1], q) /\ proc[c[1]][q].pullrr = m.rr
  <1>1. TypeOK /\ Shape(A, D) /\ Grow(A, D, A, D)
    BY DEF Good, Shape
  <1>2. PICK n, d : n = c[1] /\ d = c[2]
    OBVIOUS
  <1>3. n \in Nodes /\ d \in Nodes /\ n # d
    BY <1>2, ChannelPair
  <1>4. ASSUME NEW p \in Procs, proc[n][p].state = "MIGR", proc[n][p].migrdest = d,
               m = Migrq(p, n, proc[n][p])
        PROVE  /\ PacketOK(A, D, c, m) /\ m.type = "MIGRQ" /\ m.p = p
               /\ m.pml4 = DirRR(n, p) /\ m.sv = proc[n][p].sv
    <2>1. PICK r : r = proc[n][p]
      OBVIOUS
    <2>2. m = [type |-> "MIGRQ", p |-> p, pml4 |-> RR(n, r.pml4), sv |-> r.sv]
      BY <1>4, <2>1 DEF Migrq
    <2>3. /\ m.type = "MIGRQ" /\ m.p = p /\ m.pml4 = RR(n, r.pml4) /\ m.sv = r.sv
          /\ m.pml4.k = "remote" /\ m.pml4.n = n /\ m.pml4.a = r.pml4
      BY <2>2 DEF RR, Word
    <2>4. r.pml4 \in D[n]
      BY <1>1, <1>3, <1>4, <2>1, Pml4Type, NetAssumption
    <2>5. PacketOK(A, D, c, m)
      BY <1>2, <2>3, <2>4 DEF PacketOK
    <2> QED BY <2>1, <2>3, <2>5 DEF DirRR
  <1>5. ASSUME NEW p \in Procs, p \in Listed(n), proc[n][p].pullrr.n = d,
               m = Pullrq(proc[n][p].pullrr, Level(proc[n][p]), proc[n][p].arrived)
        PROVE  /\ PacketOK(A, D, c, m) /\ m.type = "PULLRQ"
               /\ \A q \in Procs, x \in Nodes : m.rr = DirRR(x, q) => q = p /\ DirPull(n, p)
               /\ proc[n][p].pullrr = m.rr
    <2>1. PICK r : r = proc[n][p]
      OBVIOUS
    <2>2. m.type = "PULLRQ" /\ m.rr = r.pullrr /\ m.level = Level(r)
      BY <1>5, <2>1 DEF Pullrq
    <2>3. ProcOK(A, D, n, p, r) /\ PullOK(A, D, n, r)
      <3>1. ProcOK(A, D, n, p, r)
        BY <1>1, <1>3, <2>1 DEF Shape
      <3> QED BY <1>5, <3>1 DEF ProcOK
    <2>4. /\ r.pml4 \in D[n] /\ r.pullrr.k = "remote" /\ r.pullrr.n = d /\ r.pullrr.a \in A[d]
          /\ Level(r) = "PDIR" <=> r.pullrr.a \in D[d]
      <3>1. r.state = "PULL" /\ r.pullrr.k = "remote" /\ r.pullrr.a \in A[d]
        BY <1>5, <2>1, <2>3 DEF PullOK
      <3>2. r.pml4 \in D[n]
        BY <2>3, <3>1 DEF ProcOK
      <3>3. r.pullpg = r.pml4 <=> r.pullrr.a \in D[d]
        BY <1>5, <2>1, <2>3, <3>2 DEF PullOK
      <3> QED BY <1>5, <2>1, <3>1, <3>2, <3>3 DEF Level
    <2>5. PacketOK(A, D, c, m)
      BY <1>2, <2>2, <2>4 DEF PacketOK
    <2>6. ASSUME NEW q \in Procs, NEW x \in Nodes, m.rr = DirRR(x, q)
          PROVE  q = p /\ DirPull(n, p)
      <3>1. x = d /\ r.pullrr.a = proc[x][q].pml4
        BY <2>2, <2>4, <2>6 DEF DirRR, RR, Word
      <3>2. proc[x][q].pml4 # 0
        <4>1. r.pullrr.a \in Addrs
          BY <1>1, <1>3, <2>4 DEF Grow
        <4> QED BY <3>1, <4>1, NetAssumption
      <3>3. r.pullrr.a \in D[d]
        BY <1>1, <1>3, <3>1, <3>2, Pml4Type
      <3>4. DirPull(n, p)
        BY <1>5, <2>1, <2>4, <3>3 DEF DirPull, Level
      <3>5. PICK s \in Nodes : proc[n][p].pullrr = DirRR(s, p)
        BY <1>3, <3>4, ArrivingAt
      <3>6. s = x /\ proc[x][p].pml4 = proc[x][q].pml4
        <4>1. DirRR(s, p) = DirRR(x, q)
          BY <2>1, <2>2, <2>6, <3>5
        <4>2. DirRR(s, p).n = DirRR(x, q).n /\ DirRR(s, p).a = DirRR(x, q).a
          BY <4>1
        <4> QED BY <4>2 DEF DirRR, RR, Word
      <3>7. q = p
        BY <1>1, <3>2, <3>6 DEF Shape
      <3> QED BY <3>4, <3>7
    <2> QED BY <2>1, <2>2, <2>5, <2>6
  <1>6. CASE \E p \in Procs : /\ proc[n][p].state = "MIGR" /\ proc[n][p].migrdest = d
                              /\ m = Migrq(p, n, proc[n][p])
    <2>1. PICK p \in Procs : /\ proc[n][p].state = "MIGR" /\ proc[n][p].migrdest = d
                             /\ m = Migrq(p, n, proc[n][p])
      BY <1>6
    <2>2. /\ PacketOK(A, D, c, m) /\ m.type = "MIGRQ" /\ m.p = p
          /\ m.pml4 = DirRR(n, p) /\ m.sv = proc[n][p].sv
      BY <1>4, <2>1
    <2> QED BY <1>2, <2>1, <2>2 DEF IsMigrq, Asks
  <1>7. CASE \E p \in Procs :
               /\ p \in Listed(n) /\ proc[n][p].pullrr.n = d
               /\ m = Pullrq(proc[n][p].pullrr, Level(proc[n][p]), proc[n][p].arrived)
    <2>1. PICK p \in Procs :
               /\ p \in Listed(n) /\ proc[n][p].pullrr.n = d
               /\ m = Pullrq(proc[n][p].pullrr, Level(proc[n][p]), proc[n][p].arrived)
      BY <1>7
    <2>2. /\ PacketOK(A, D, c, m) /\ m.type = "PULLRQ"
          /\ \A q \in Procs, x \in Nodes : m.rr = DirRR(x, q) => q = p /\ DirPull(n, p)
          /\ proc[n][p].pullrr = m.rr
      BY <1>5, <2>1
    <2> QED BY <1>2, <2>2 DEF IsMigrq, Asks
  <1> QED BY <1>2, <1>6, <1>7 DEF Repeated

Repeats(n) == [c \in Channels |-> IF c[1] = n THEN Retransmits(n, c[2]) ELSE <<>>]

LEMMA TickMove ==
    ASSUME TypeOK, NEW n \in Nodes, Tick(n)
    PROVE  /\ NetMove(NoTake, Repeats(n))
           /\ \A c \in Channels : \A j \in 1 .. Len(Repeats(n)[c]) :
                Repeated(c[1], c[2], Repeats(n)[c][j])
  <1>1. PICK out : out = Repeats(n)
    OBVIOUS
  <1>2. ASSUME NEW c \in Channels
        PROVE  /\ out[c] \in Seq(Packets) /\ net'[c] = net[c] \o out[c]
               /\ \A j \in 1 .. Len(out[c]) : Repeated(c[1], c[2], out[c][j])
    <2>1. c[2] \in Nodes /\ net[c] \in Seq(Packets)
      BY ChannelPair DEF TypeOK
    <2>2. CASE c[1] = n
      <3>1. out[c] = Retransmits(n, c[2]) /\ net'[c] = net[c] \o Retransmits(n, c[2])
        BY <1>1, <2>2 DEF Repeats, Tick
      <3>2. /\ Retransmits(n, c[2]) \in Seq(Packets)
            /\ \A j \in 1 .. Len(Retransmits(n, c[2])) :
                 Repeated(n, c[2], Retransmits(n, c[2])[j])
        BY <2>1, RetransmitsFacts
      <3> QED BY <2>2, <3>1, <3>2
    <2>3. CASE c[1] # n
      <3>1. out[c] = <<>> /\ net'[c] = net[c]
        BY <1>1, <2>3 DEF Repeats, Tick
      <3> QED BY <2>1, <3>1, EmptySeq, ConcatEmptySeq
    <2> QED BY <2>2, <2>3
  <1>3. ASSUME NEW c \in Channels
        PROVE  net'[c] \in Seq(Packets) /\ Moves(net[c], 0, out[c], net'[c])
    <2>1. net[c] \in Seq(Packets) /\ out[c] \in Seq(Packets) /\ net'[c] = net[c] \o out[c]
      BY <1>2 DEF TypeOK
    <2> QED BY <2>1, AppendMoves
  <1>4. net' \in [Channels -> Seq(Packets)] /\ out \in [Channels -> Seq(Packets)]
    <2>1. /\ net' = [c \in Channels |-> net'[c]]
          /\ out = [c \in Channels |-> out[c]]
      BY <1>1 DEF Tick, Repeats
    <2> QED BY <1>2, <1>3, <2>1
  <1>5. NetMove(NoTake, out)
    BY <1>3, <1>4 DEF NetMove, NoTake
  <1> QED BY <1>1, <1>2, <1>5

LEMMA TickStep ==
    ASSUME NEW A, NEW D, Good(A, D), NEW n \in Nodes, Tick(n)
    PROVE  StillGood
  <1>1. TypeOK /\ Shape(A, D) /\ Grow(A, D, A, D)
    BY DEF Good, Shape
  <1>2. UNCHANGED <<proc, page, pulllist, rx, panicked, budget, done, mem>>
    BY DEF Tick, history
  <1>3. PICK out : out = Repeats(n)
    OBVIOUS
  <1>4. /\ NetMove(NoTake, out)
        /\ \A c \in Channels : \A j \in 1 .. Len(out[c]) : Repeated(c[1], c[2], out[c][j])
    BY <1>1, <1>3, TickMove
  <1>5. SharedKept /\ \A x \in Nodes : Listed(x)' = Listed(x)
    BY <1>2 DEF SharedKept, Listed
  <1>6. ASSUME NEW q \in Procs
        PROVE  Calm(q, NoTake, out)
    <2>1. \A x \in Nodes : proc[x][q].pml4 # 0 =>
            page[x][proc[x][q].pml4].shared \subseteq page'[x][proc[x][q].pml4].shared
      BY <1>2
    <2>2. ASSUME NEW c \in Channels, NEW j \in 1 .. Len(out[c])
          PROVE  /\ IsMigrq(out[c][j], q) =>
                      /\ proc[c[1]][q].state = "MIGR" /\ proc[c[1]][q].migrdest = c[2]
                      /\ out[c][j].pml4 = DirRR(c[1], q) /\ out[c][j].sv = proc[c[1]][q].sv
                 /\ out[c][j].type = "PULLRQ" =>
                      \A x \in Nodes : out[c][j].rr = DirRR(x, q) =>
                        DirPull(c[1], q) /\ proc[c[1]][q].pullrr = out[c][j].rr
                 /\ out[c][j].type # "PULLRP"
      <3>1. PICK m : m = out[c][j]
        OBVIOUS
      <3>2. Repeated(c[1], c[2], m)
        BY <1>4, <3>1
      <3>3. /\ m.type # "PULLRP"
            /\ IsMigrq(m, q) =>
                 /\ proc[c[1]][q].state = "MIGR" /\ proc[c[1]][q].migrdest = c[2]
                 /\ m.pml4 = DirRR(c[1], q) /\ m.sv = proc[c[1]][q].sv
            /\ \A x \in Nodes : Asks(m, DirRR(x, q)) =>
                 DirPull(c[1], q) /\ proc[c[1]][q].pullrr = m.rr
        BY <3>2, RepeatedPacket
      <3> QED BY <3>1, <3>3 DEF Asks
    <2>3. \A c \in Channels : NoTake[c] = 0
      BY DEF NoTake
    <2> QED BY <1>2, <2>1, <2>2, <2>3 DEF Calm
  <1>7. \A q \in Procs : Way(q)'
    <2>1. \A q \in Procs : Still(q)
      BY <1>2, <1>5 DEF Still
    <2> QED BY <1>1, <1>4, <1>6, <2>1, WayStays DEF Good
  <1>8. \A c \in Channels : \A i \in 1 .. Len(net'[c]) : PacketOK(A, D, c, net'[c][i])
    <2>1. \A c \in Channels : \A j \in 1 .. Len(out[c]) : PacketOK(A, D, c, out[c][j])
      BY <1>4, RepeatedPacket
    <2> QED BY <1>1, <1>4, <2>1, PacketsKeep
  <1>9. ASSUME NEW x \in Nodes, NEW q \in Procs
        PROVE  ProcOK(A, D, x, q, proc[x][q])'
    <2>1. ProcOK(A, D, x, q, proc[x][q])
      BY <1>1 DEF Shape
    <2> QED BY <1>1, <1>2, <1>5, <2>1, ProcKeeps
  <1>10. Shape(A, D)'
    <2>1. (\A c \in Channels : \A i \in 1 .. Len(net[c]) : PacketOK(A, D, c, net[c][i]))'
      BY <1>8
    <2>2. (\A x \in Nodes, a \in Addrs : PageOK(A, D, x, a, page[x][a]))'
      BY <1>1, <1>2 DEF Shape
    <2>3. (\A x \in Nodes, q \in Procs : ProcOK(A, D, x, q, proc[x][q]))'
      BY <1>9
    <2> QED BY <1>1, <1>2, <2>1, <2>2, <2>3 DEF Shape
  <1>11. TypeOK'
    <2>1. net' \in [Channels -> Seq(Packets)]
      BY <1>4 DEF NetMove
    <2> QED BY <1>1, <1>2, <2>1 DEF TypeOK
  <1>12. \E A3, D3 : Shape(A3, D3)'
    BY <1>10
  <1> QED BY <1>7, <1>11, <1>12 DEF StillGood

-----------------------------------------------------------------------------
(* The initial state: the pages in use are the directories of the processes
   at home and the pages they refer to. *)

Directories == [n \in Nodes |-> {p \in Procs : Home[p] = n}]
InUse == [n \in Nodes |-> {a \in Addrs : \/ a \in Procs /\ Home[a] = n
                                         \/ \E p \in Procs : Home[p] = n /\ DataPage[p] = a}]

LEMMA InitPage ==
    ASSUME Init, NEW n \in Nodes, NEW a \in Addrs
    PROVE  /\ page[n][a] \in PageRecords /\ page[n][a].shared = {} /\ page[n][a].home = NoRR
           /\ \A i \in Parts : page[n][a].data[i].k # "remote"
           /\ PageOK(InUse, Directories, n, a, page[n][a])
  <1>1. PICK users : users = {p \in Procs : Home[p] = n /\ DataPage[p] = a}
    OBVIOUS
  <1>2. PICK pg : pg = page[n][a]
    OBVIOUS
  <1>3. /\ FreePage = [ref |-> 0, home |-> NoRR, shared |-> {}, data |-> Blank]
        /\ NoRR \in Words /\ Blank \in [Parts -> Words]
        /\ \A i \in Parts : Blank[i] = Zero /\ Zero.k = "zero"
    BY DEF FreePage, NoRR, ZeroRR, RR, Word, Words, Blank, Zero
  <1>4. /\ a \in Directories[n] <=> a \in Procs /\ Home[a] = n
        /\ a \in InUse[n] <=> (a \in Procs /\ Home[a] = n) \/ users # {}
    BY <1>1 DEF Directories, InUse
  <1>5. pg = IF a \in Procs /\ Home[a] = n
             THEN [FreePage EXCEPT !.ref = 1,
                      !.data = [Blank EXCEPT ![0] = Local(DataPage[a])]]
             ELSE IF users # {}
             THEN [FreePage EXCEPT !.ref = Cardinality(users),
                      !.data = [i \in Parts |-> Data(0)]]
             ELSE FreePage
    BY <1>1, <1>2 DEF Init
  <1>6. CASE a \in Procs /\ Home[a] = n
    <2>1. PICK w : w = Local(DataPage[a])
      OBVIOUS
    <2>2. w = [k |-> "local", n |-> 0, a |-> DataPage[a]]
      BY <2>1 DEF Local, Word
    <2>3. DataPage[a] \in Addrs /\ DataPage[a] \notin Procs /\ DataPage[a] \in Nat
      BY <1>6, NetAssumption
    <2>4. w \in Words
      BY <2>2, <2>3 DEF Words
    <2>5. PICK data : data = [Blank EXCEPT ![0] = w]
      OBVIOUS
    <2>6. data \in [Parts -> Words] /\ \A i \in Parts : data[i] = w \/ data[i] = Zero
      BY <1>3, <2>4, <2>5
    <2>7. pg = [ref |-> 1, home |-> NoRR, shared |-> {}, data |-> data]
      BY <1>3, <1>5, <1>6, <2>1, <2>5
    <2>8. pg \in PageRecords
      BY <1>3, <2>6, <2>7 DEF PageRecords
    <2>9. EntryOK(InUse, Directories, n, w) /\ EntryOK(InUse, Directories, n, Zero)
      <3>1. DataPage[a] \in InUse[n] /\ DataPage[a] \notin Directories[n]
        BY <1>6, <2>3 DEF InUse, Directories
      <3> QED BY <2>2, <3>1 DEF EntryOK
    <2>10. PageOK(InUse, Directories, n, a, pg)
      BY <1>4, <1>6, <2>6, <2>7, <2>9 DEF PageOK
    <2> QED BY <1>2, <1>3, <2>2, <2>6, <2>7, <2>8, <2>10
  <1>7. CASE ~(a \in Procs /\ Home[a] = n) /\ users # {}
    <2>1. PICK size, data : size = Cardinality(users) /\ data = [i \in Parts |-> Data(0)]
      OBVIOUS
    <2>2. size \in Nat /\ size # 0
      <3>1. users \subseteq Procs
        BY <1>1
      <3>2. IsFiniteSet(users)
        BY <3>1, FS_Subset, NetAssumption
      <3> QED BY <1>7, <2>1, <3>2, FS_CardinalityType, FS_EmptySet
    <2>3. data \in [Parts -> Words] /\ \A i \in Parts : data[i].k = "data"
      BY <2>1 DEF Data, Word, Words
    <2>4. pg = [ref |-> size, home |-> NoRR, shared |-> {}, data |-> data]
      BY <1>3, <1>5, <1>7, <2>1
    <2>5. pg \in PageRecords
      BY <1>3, <2>2, <2>3, <2>4 DEF PageRecords
    <2>6. PageOK(InUse, Directories, n, a, pg)
      BY <1>4, <1>7, <2>2, <2>3, <2>4 DEF PageOK, Plain
    <2> QED BY <1>2, <2>3, <2>4, <2>5, <2>6
  <1>8. CASE ~(a \in Procs /\ Home[a] = n) /\ users = {}
    <2>1. pg = [ref |-> 0, home |-> NoRR, shared |-> {}, data |-> Blank]
      BY <1>3, <1>5, <1>8
    <2>2. pg \in PageRecords
      BY <1>3, <2>1 DEF PageRecords
    <2>3. PageOK(InUse, Directories, n, a, pg)
      BY <1>3, <1>4, <1>8, <2>1 DEF PageOK, Plain
    <2> QED BY <1>2, <1>3, <2>1, <2>2, <2>3
  <1> QED BY <1>6, <1>7, <1>8

LEMMA InitProc ==
    ASSUME Init, NEW n \in Nodes, NEW p \in Procs
    PROVE  /\ proc[n][p] \in ProcRecords /\ proc[n][p].migrdest = 0 /\ proc[n][p].sv = 0
           /\ n = Home[p] => proc[n][p].state = "READY" /\ proc[n][p].pml4 = p
           /\ n # Home[p] => proc[n][p].state = "NONE" /\ proc[n][p].pml4 = 0
  <1>1. NewProc \in ProcRecords
    <2>1. NoRR \in Words /\ 0 \in 0 .. NParts
      BY NetAssumption DEF NoRR, ZeroRR, RR, Word, Words
    <2> QED BY <2>1 DEF NewProc, ProcRecords
  <1>2. /\ NewProc.state = "NONE" /\ NewProc.pml4 = 0 /\ NewProc.sv = 0 /\ NewProc.migrdest = 0
    BY DEF NewProc
  <1>3. PICK r : r = [NewProc EXCEPT !.state = "READY", !.pml4 = p]
    OBVIOUS
  <1>4. /\ r \in ProcRecords /\ r.state = "READY" /\ r.pml4 = p /\ r.sv = 0 /\ r.migrdest = 0
    <2>1. p \in Addrs
      BY NetAssumption
    <2> QED BY <1>1, <1>2, <1>3, <2>1 DEF ProcRecords
  <1>5. proc[n][p] = IF n = Home[p] THEN r ELSE NewProc
    BY <1>3 DEF Init
  <1> QED BY <1>1, <1>2, <1>4, <1>5

LEMMA InitGood ==
    ASSUME Init
    PROVE  \E A, D : Good(A, D)
  <1>1. /\ pulllist = [n \in Nodes |-> <<>>] /\ rx = [n \in Nodes |-> NoProc] /\ panicked = {}
        /\ net = [c \in Channels |-> <<>>] /\ budget \in Budgets
        /\ done = [p \in Procs |-> 0] /\ mem = [p \in Procs |-> [va \in Parts |-> 0]]
    BY DEF Init
  <1>2. TypeOK
    <2>1. proc \in [Nodes -> [Procs -> ProcRecords]]
      <3>1. proc = [n \in Nodes |-> [p \in Procs |-> proc[n][p]]]
        BY DEF Init
      <3>2. \A n \in Nodes, p \in Procs : proc[n][p] \in ProcRecords
        BY InitProc
      <3> QED BY <3>1, <3>2
    <2>2. page \in [Nodes -> [Addrs -> PageRecords]]
      <3>1. page = [n \in Nodes |-> [a \in Addrs |-> page[n][a]]]
        BY DEF Init
      <3>2. \A n \in Nodes, a \in Addrs : page[n][a] \in PageRecords
        BY InitPage
      <3> QED BY <3>1, <3>2
    <2>3. \A n \in Nodes, p \in Procs : proc[n][p].migrdest # n
      <3>1. \A n \in Nodes, p \in Procs : proc[n][p].migrdest = 0
        BY InitProc
      <3> QED BY <3>1, NetAssumption
    <2>4. \A n \in Nodes, a \in Addrs : n \notin page[n][a].shared
      <3>1. \A n \in Nodes, a \in Addrs : page[n][a].shared = {}
        BY InitPage
      <3> QED BY <3>1
    <2>5. net \in [Channels -> Seq(Packets)] /\ pulllist \in [Nodes -> Seq(Procs)]
      BY <1>1, EmptySeq
    <2>6. budget \in [dests : SUBSET Nodes, writes : SUBSET Parts, migr : Nat, loss : Nat,
                      queue : Nat]
      BY <1>1, NetAssumption
    <2>7. /\ rx \in [Nodes -> Procs \cup {NoProc}] /\ panicked \subseteq Nodes
          /\ done \in [Procs -> Nat] /\ mem \in [Procs -> [Parts -> Nat]]
      BY <1>1
    <2> QED BY <2>1, <2>2, <2>3, <2>4, <2>5, <2>6, <2>7 DEF TypeOK
  <1>3. /\ \A n \in Nodes : 1 .. Len(pulllist[n]) = {} /\ Listed(n) = {}
        /\ \A c \in Channels : 1 .. Len(net[c]) = {}
        /\ \A n \in Nodes, p \in Procs : rx[n] # p
    <2>1. 1 .. Len(<<>>) = {}
      OBVIOUS
    <2>2. /\ \A n \in Nodes : pulllist[n] = <<>>
          /\ \A c \in Channels : net[c] = <<>>
      BY <1>1
    <2>3. \A n \in Nodes, p \in Procs : rx[n] # p
      BY <1>1, NetAssumption DEF NoProc
    <2> QED BY <2>1, <2>2, <2>3 DEF Listed
  <1>4. Grow(InUse, Directories, InUse, Directories)
    BY NetAssumption DEF Grow, InUse, Directories
  <1>5. ASSUME NEW n \in Nodes, NEW p \in Procs
        PROVE  ProcOK(InUse, Directories, n, p, proc[n][p])
    <2>1. /\ n = Home[p] => proc[n][p].state = "READY" /\ proc[n][p].pml4 = p
          /\ n # Home[p] => proc[n][p].state = "NONE" /\ proc[n][p].pml4 = 0
      BY InitProc
    <2>2. p \in Addrs /\ p # 0 /\ (n = Home[p] => p \in Directories[n])
      BY NetAssumption DEF Directories
    <2>3. \A va \in Parts : page[n][p].data[va].k # "remote"
      BY <2>2, InitPage
    <2> QED BY <1>3, <2>1, <2>2, <2>3 DEF ProcOK
  <1>6. ASSUME NEW n \in Nodes, NEW p \in Procs, NEW q \in Procs, p # q, proc[n][p].pml4 # 0
        PROVE  proc[n][p].pml4 # proc[n][q].pml4
    <2>1. proc[n][p].pml4 = p /\ proc[n][q].pml4 \in {0, q}
      BY <1>6, InitProc
    <2> QED BY <1>6, <2>1
  <1>7. Shape(InUse, Directories)
    <2>1. \A n \in Nodes, a \in Addrs : PageOK(InUse, Directories, n, a, page[n][a])
      BY InitPage
    <2> QED BY <1>3, <1>4, <1>5, <1>6, <2>1 DEF Shape
  <1>8. ASSUME NEW p \in Procs
        PROVE  Way(p)
    <2>1. PICK n \in Nodes : n = Home[p]
      BY NetAssumption
    <2>2. /\ proc[n][p].state = "READY" /\ proc[n][p].sv = 0 /\ done[p] = 0
          /\ \A x \in Nodes \ {n} : proc[x][p].state = "NONE" /\ proc[x][p].pml4 = 0
      BY <1>1, <2>1, InitProc
    <2>3. ~DirPull(n, p) /\ NoMigrq(p) /\ Unasked(DirRR(n, p))
      BY <1>3 DEF DirPull, NoMigrq, Unasked
    <2>4. Held(n, p)
      BY <2>2, <2>3 DEF Held, Gone, IsAway
    <2> QED BY <2>4 DEF Way
  <1>9. Good(InUse, Directories)
    BY <1>2, <1>7, <1>8 DEF Good
  <1> QED BY <1>9

-----------------------------------------------------------------------------
(* The theorems *)

LEMMA LosslessStep ==
    ASSUME TypeOK, budget.loss = 0, [Next]_vars
    PROVE  budget'.loss = 0 /\ \A c \in Channels : ~Lose(c)
  <1>1. \A c \in Channels : ~Lose(c)
    BY DEF Lose
  <1>2. ASSUME NEW n \in Nodes, NEW p \in Procs, NEW dst \in Nodes, Migrate(n, p, dst)
        PROVE  budget'.loss = 0
    <2>1. CASE Panic(n)
      BY <2>1 DEF Panic
    <2>2. CASE ~Panic(n)
      <3>1. budget' = [budget EXCEPT !.migr = @ - 1]
        BY <1>2, <2>2 DEF Migrate
      <3>2. PICK b : b = budget
        OBVIOUS
      <3>3. b \in [dests : SUBSET Nodes, writes : SUBSET Parts, migr : Nat, loss : Nat,
                   queue : Nat] /\ b.loss = 0
        BY <3>2 DEF TypeOK
      <3>4. budget' = [b EXCEPT !.migr = b.migr - 1]
        BY <3>1, <3>2
      <3> QED BY <3>3, <3>4
    <2> QED BY <2>1, <2>2
  <1>3. ASSUME NEW n \in Nodes, NEW p \in Procs, ProcRun(n, p) \/ PullLoop(n, p)
        PROVE  budget' = budget
    BY <1>3 DEF ProcRun, PullLoop, PullLocal, PullZero, PullOwn, PullTracked, PullPage,
                PullDone, Resolve, Panic
  <1>4. ASSUME NEW n \in Nodes, NEW p \in Procs,
               Work(n, p) \/ \E va \in budget.writes : Write(n, p, va)
        PROVE  budget' = budget
    BY <1>4 DEF Work, Write, Panic
  <1>5. ASSUME NEW s \in Nodes, NEW n \in Nodes, Rx(s, n)
        PROVE  budget' = budget
    BY <1>5 DEF Rx, RxMigrqDuplicate, RxMigrq, RxMigrp, RxPullrq, RxPullrpStale, RxPullrp
  <1>6. ASSUME NEW n \in Nodes, Tick(n)
        PROVE  budget' = budget
    BY <1>6 DEF Tick
  <1>7. CASE Next
    BY <1>1, <1>2, <1>3, <1>4, <1>5, <1>6, <1>7 DEF Next, User
  <1>8. CASE UNCHANGED vars
    BY <1>1, <1>8 DEF vars
  <1> QED BY <1>1, <1>7, <1>8

(* Every step keeps the state good. *)
LEMMA NextStep ==
    ASSUME NEW A, NEW D, Good(A, D), budget.loss = 0, [Next]_vars
    PROVE  StillGood
  <1>1. TypeOK /\ Shape(A, D)
    BY DEF Good
  <1>2. \A c \in Channels : ~Lose(c)
    BY <1>1, LosslessStep
  <1>3. ASSUME NEW n \in Nodes, NEW p \in Procs, ProcRun(n, p) \/ User(n, p) \/ PullLoop(n, p)
        PROVE  StillGood
    <2>1. CASE ProcRun(n, p)
      BY <2>1, ProcRunStep
    <2>2. CASE Work(n, p)
      BY <2>2, WorkStep
    <2>3. ASSUME NEW va \in budget.writes, Write(n, p, va) PROVE StillGood
      BY <2>3, WriteStep
    <2>4. ASSUME NEW dst \in Nodes, Migrate(n, p, dst) PROVE StillGood
      BY <2>4, MigrateStep
    <2>5. CASE PullLocal(n, p) \/ PullZero(n, p) \/ PullOwn(n, p) \/ PullTracked(n, p)
      BY <2>5, ResolvedStep
    <2>6. CASE PullPage(n, p)
      BY <2>6, PullPageStep
    <2>7. CASE PullDone(n, p)
      BY <2>7, PullDoneStep
    <2> QED BY <1>3, <2>1, <2>2, <2>3, <2>4, <2>5, <2>6, <2>7 DEF User, PullLoop
  <1>4. ASSUME NEW s \in Nodes, NEW n \in Nodes, Rx(s, n)
        PROVE  StillGood
    <2>1. CASE RxMigrqDuplicate(s, n)
      BY <2>1, RxMigrqDuplicateStep
    <2>2. CASE RxMigrq(s, n)
      BY <2>2, RxMigrqStep
    <2>3. CASE RxMigrp(s, n)
      BY <2>3, RxMigrpStep
    <2>4. CASE RxPullrq(s, n)
      BY <2>4, RxPullrqStep
    <2>5. CASE RxPullrpStale(s, n)
      BY <2>5, RxPullrpStaleStep
    <2>6. ASSUME NEW i \in DOMAIN pulllist[n], RxPullrp(s, n, i) PROVE StillGood
      BY <2>6, RxPullrpStep
    <2> QED BY <1>4, <2>1, <2>2, <2>3, <2>4, <2>5, <2>6 DEF Rx
  <1>5. ASSUME NEW n \in Nodes, Tick(n)
        PROVE  StillGood
    BY <1>5, TickStep
  <1>6. CASE UNCHANGED vars
    <2>1. /\ proc' = proc /\ page' = page /\ pulllist' = pulllist /\ rx' = rx
          /\ panicked' = panicked /\ net' = net /\ budget' = budget /\ done' = done /\ mem' = mem
      BY <1>6 DEF vars
    <2>2. TypeOK'
      BY <1>1, <2>1 DEF TypeOK
    <2>3. \A x \in Nodes : Listed(x)' = Listed(x)
      BY <2>1 DEF Listed
    <2>4. NetMove(NoTake, Nothing) /\ SharedKept
      BY <1>1, <2>1, QuietMove DEF SharedKept
    <2>5. \A q \in Procs : Way(q)'
      <3>1. \A q \in Procs : Calm(q, NoTake, Nothing)
        BY <1>1, <2>1, <2>4, CalmQuiet
      <3>2. \A q \in Procs : Still(q)
        BY <2>1, <2>3 DEF Still
      <3> QED BY <1>1, <2>4, <3>1, <3>2, WayStays DEF Good
    <2>6. Shape(A, D)'
      <3>1. ASSUME NEW x \in Nodes, NEW q \in Procs
            PROVE  ProcOK(A, D, x, q, proc[x][q])'
        <4>1. ProcOK(A, D, x, q, proc[x][q]) /\ Grow(A, D, A, D)
          BY <1>1 DEF Shape
        <4> QED BY <2>1, <2>3, <4>1, ProcKeeps
      <3>2. (\A x \in Nodes, q \in Procs : ProcOK(A, D, x, q, proc[x][q]))'
        BY <3>1
      <3> QED BY <1>1, <2>1, <3>2 DEF Shape
    <2>7. \E A3, D3 : Shape(A3, D3)'
      BY <2>6
    <2> QED BY <2>2, <2>5, <2>7 DEF StillGood
  <1>7. CASE Next
    BY <1>2, <1>3, <1>4, <1>5, <1>7 DEF Next
  <1> QED BY <1>6, <1>7

(* Every state of a behaviour without losses is typed, of the right shape, and
   has each process held, in transit or arriving. *)
THEOREM NetInvariant ==
    ASSUME \A b \in Budgets : b.loss = 0
    PROVE  Spec => []NetInv
  <1>1. Init => NetInv
    <2> SUFFICES ASSUME Init PROVE NetInv
      OBVIOUS
    <2>1. PICK A, D : Good(A, D)
      BY InitGood
    <2>2. budget.loss = 0
      BY DEF Init
    <2> QED BY <2>1, <2>2 DEF NetInv, Good
  <1>2. NetInv /\ [Next]_vars => NetInv'
    <2> SUFFICES ASSUME NetInv, [Next]_vars PROVE NetInv'
      OBVIOUS
    <2>1. PICK A, D : Good(A, D)
      BY DEF NetInv, Good
    <2>2. TypeOK /\ budget.loss = 0
      BY DEF NetInv
    <2>3. StillGood
      BY <2>1, <2>2, NextStep
    <2>4. budget'.loss = 0
      BY <2>2, LosslessStep
    <2> QED BY <2>3, <2>4 DEF NetInv, StillGood
  <1> QED BY <1>1, <1>2, PTL DEF Spec

(* A process is on one node. *)
THEOREM NetOneOwner ==
    ASSUME \A b \in Budgets : b.loss = 0
    PROVE  Spec => []OneOwner
  <1>1. NetInv => OneOwner
    <2> SUFFICES ASSUME NetInv, NEW p \in Procs
                 PROVE  Cardinality({n \in Nodes : At(n, p) \/ proc[n][p].state = "PULL"}) <= 1
      BY DEF OneOwner
    <2>1. PICK S : S = {n \in Nodes : At(n, p) \/ proc[n][p].state = "PULL"}
      OBVIOUS
    <2>2. \A n \in S : n \in Nodes /\ proc[n][p].state \in {"READY", "RUN", "PULL"}
      BY <2>1 DEF At
    <2>3. ASSUME NEW n \in S, NEW d \in S
          PROVE  n = d
      <3>1. CASE \E x \in Nodes : Held(x, p)
        BY <2>2, <2>3, <3>1 DEF Held, Gone, IsAway
      <3>2. CASE \E s, x \in Nodes : InTransit(s, x, p)
        BY <2>2, <2>3, <3>2 DEF InTransit, Sent, Gone, IsAway
      <3>3. CASE \E s, x \in Nodes : Arriving(s, x, p)
        BY <2>2, <2>3, <3>3 DEF Arriving, Sent, Gone, IsAway
      <3> QED BY <3>1, <3>2, <3>3 DEF NetInv, Way
    <2>4. CASE S = {}
      BY <2>1, <2>4, FS_EmptySet
    <2>5. CASE S # {}
      <3>1. PICK n : S = {n}
        BY <2>3, <2>5
      <3>2. Cardinality(S) = 1
        BY <3>1, FS_Singleton
      <3> QED BY <2>1, <3>2
    <2> QED BY <2>4, <2>5
  <1> QED BY <1>1, NetInvariant, PTL

(* A process goes on with the registers it had when it left the last node. *)
THEOREM NetNoRollback ==
    ASSUME \A b \in Budgets : b.loss = 0
    PROVE  Spec => []NoRollback
  <1>1. NetInv => NoRollback
    <2> SUFFICES ASSUME NetInv, NEW n \in Nodes, NEW p \in Procs, At(n, p)
                 PROVE  proc[n][p].sv = done[p]
      BY DEF NoRollback
    <2>1. PICK A, D : Good(A, D)
      BY DEF NetInv, Good
    <2>2. Held(n, p)
      BY <2>1, HeldAt DEF Good, At
    <2> QED BY <2>2 DEF Held
  <1> QED BY <1>1, NetInvariant, PTL

(* While no assertion has failed, one node has the process or a request that
   carries it is on its way. *)
THEOREM NetNeverForgotten ==
    ASSUME \A b \in Budgets : b.loss = 0
    PROVE  Spec => [](NoPanic => NeverForgotten)
  <1>1. NetInv => (NoPanic => NeverForgotten)
    <2> SUFFICES ASSUME NetInv, NoPanic, NEW p \in Procs
                 PROVE  \/ \E n \in Nodes : At(n, p) \/ proc[n][p].state \in {"PULL", "MIGR"}
                        \/ \E c \in Channels : \E m \in Range(net[c]) : m.type = "MIGRQ" /\ m.p = p
      BY DEF NeverForgotten
    <2>1. CASE \E n \in Nodes : Held(n, p)
      BY <2>1 DEF Held, At
    <2>2. CASE \E s, d \in Nodes : Arriving(s, d, p)
      BY <2>2 DEF Arriving
    <2>3. ASSUME NEW s \in Nodes, NEW d \in Nodes, InTransit(s, d, p)
          PROVE  \E c \in Channels : \E m \in Range(net[c]) : m.type = "MIGRQ" /\ m.p = p
      <3>1. s # d
        BY <2>3 DEF InTransit, Sent
      <3>2. PICK c : c = <<s, d>>
        OBVIOUS
      <3>3. c \in Channels /\ net[c] \in Seq(Packets)
        BY <3>1, <3>2, ChannelPair DEF NetInv, TypeOK
      <3>4. PICK i \in 1 .. Len(net[c]) : IsMigrq(net[c][i], p)
        BY <2>3, <3>2 DEF InTransit, NoPanic
      <3>5. net[c][i] \in Range(net[c])
        <4>1. DOMAIN net[c] = 1 .. Len(net[c])
          BY <3>3
        <4> QED BY <3>4, <4>1 DEF Range
      <3> QED BY <3>3, <3>4, <3>5 DEF IsMigrq
    <2> QED BY <2>1, <2>2, <2>3 DEF NetInv, Way
  <1> QED BY <1>1, NetInvariant, PTL
=============================================================================
