---------------------------- MODULE DSchedProofs ----------------------------
(****************************************************************************)
(* Proofs about DSched, for every program and any number of threads,        *)
(* mutexes and conditions.                                                  *)
(*                                                                          *)
(* Good relates what the library keeps in the master's memory (queues,      *)
(* owners, requests), the threads, and the copies in which running threads  *)
(* work.  It holds at the top of the scheduler (Rest).  While the master    *)
(* goes on with a thread after a merge, that thread is on no queue, but     *)
(* Good holds for the state that it is about to have (Mid).  The lemmas     *)
(* ...Mid carry Mid through the parts of the library (tevents, condwakeups, *)
(* mutexreqs, tblock), whose loops are shown by induction over their        *)
(* rounds; the lemmas ...Keeps combine them for one action each.  A step    *)
(* that fails an assertion ends the process, and the lemmas ...Settled show *)
(* what is true of the state it leaves.                                     *)
(*                                                                          *)
(* The theorems are about programs that keep rules which the library takes  *)
(* for granted (JoinsOwn, ExitsUnlocked, AddsLocked).  Lost is the part of  *)
(* the invariant that needs the second, Data the one that needs the third.  *)
(****************************************************************************)
EXTENDS DSched, TLAPS, NaturalsInduction, WellFoundedInduction

-----------------------------------------------------------------------------
(* What is asked of programs *)

OpOf(h, t) == Code[h[t].prog][h[t].pc]

(* A thread joins threads it has created, that are not detached, once. *)
JoinsOwn ==
    \A t \in Threads :
        th[t].stage \in {"user", "called", "blocked"} /\ Op(t).op = "join"
          => Op(t).k \in DOMAIN th[t].kids /\ th[t].kids[Op(t).k] \in Threads

(* A thread that exits has unlocked what it has locked. *)
ExitsUnlocked ==
    \A t \in Threads : th[t].stage = "called" /\ Op(t).op = "exit" => th[t].holds = {}

(* x is increased under its mutex only. *)
AddsLocked ==
    \A t \in Threads : th[t].stage = "user" /\ Op(t).op = "add" => DataMutex \in th[t].holds

-----------------------------------------------------------------------------
(* The invariant.  Its parts are about the library's state s, where a thread t
   that the master goes on with is on no queue, the states T of the threads as
   they are when that is over, the threads h, and the copies V and R of running
   threads. *)

States == {"FREE", "RUN", "MUTEX", "COND", "EXIT"}
Stages == {"user", "called", "returning", "preempted", "exiting", "new", "blocked", "relock",
           "none", "done"}
InChild == {"user", "called", "returning", "preempted", "exiting"}

State ==
    [owner : [Mutexes -> Threads], locked : [Mutexes -> BOOLEAN], mq : [Mutexes -> Seq(Threads)],
     reqs : [Threads -> Seq(Mutexes)], cq : [Conds -> Seq(Threads)],
     nwake : [Conds -> 0 .. MAXTHREADS], ev : Seq(Conds), st : [Threads -> States],
     det : [Threads -> BOOLEAN], joiner : [Threads -> Threads \cup {NoThread}],
     ready : Seq(Threads), runq : Seq(Threads), x : Nat, panic : Panics]

Thread == [prog : Progs, pc : Nat, stage : Stages, kids : Seq(Threads \cup {NoThread}),
           holds : SUBSET Mutexes]

ThreadsOK(h) ==
    /\ h \in [Threads -> Thread]
    /\ \A t \in Threads : h[t].pc \in 1 .. Len(Code[h[t].prog])

(* t waits in pthread_join for j. *)
Joins(s, T, t, j) == s.joiner[j] = t /\ T[j] \notin {"EXIT", "FREE"}

Queues(s, T) ==
    /\ Once(s.ready) /\ Once(s.runq)
    /\ \A t \in Threads : Member(t, s.ready) => T[t] = "RUN" /\ ~Member(t, s.runq)
    /\ \A t \in Threads : Member(t, s.runq) => T[t] = "RUN"
    /\ \A t \in Threads : T[t] = "RUN" => Member(t, s.ready) \/ Member(t, s.runq)
    /\ \A u \in Mutexes : Once(s.mq[u])
    /\ \A t \in Threads, u \in Mutexes : Member(t, s.mq[u]) => T[t] = "MUTEX"
    /\ \A t \in Threads, u, v \in Mutexes : Member(t, s.mq[u]) /\ Member(t, s.mq[v]) => u = v
    /\ \A c \in Conds : Once(s.cq[c])
    /\ \A t \in Threads, c \in Conds : Member(t, s.cq[c]) => T[t] = "COND"
    /\ \A t \in Threads, c, d \in Conds : Member(t, s.cq[c]) /\ Member(t, s.cq[d]) => c = d
    /\ \A t \in Threads : T[t] = "COND" => \E c \in Conds : Member(t, s.cq[c])
    /\ \A t, j \in Threads : Joins(s, T, t, j) => T[t] = "MUTEX"
    /\ \A t, j, k \in Threads : Joins(s, T, t, j) /\ Joins(s, T, t, k) => j = k
    /\ \A t, j \in Threads, u \in Mutexes : ~(Joins(s, T, t, j) /\ Member(t, s.mq[u]))
    /\ \A t \in Threads : T[t] = "MUTEX" => (\E u \in Mutexes : Member(t, s.mq[u]))
                                            \/ \E j \in Threads : Joins(s, T, t, j)

(* t is in the tblock of mutexlock for u. *)
Locking(h, t, u) ==
    /\ \/ h[t].stage = "blocked" /\ OpOf(h, t).op = "lock"
       \/ h[t].stage = "relock" /\ OpOf(h, t).op = "await"
    /\ OpOf(h, t).u = u

(* What a thread on a queue is about. *)
Reasons(s, T, h) ==
    /\ \A t \in Threads : Member(t, s.runq) => h[t].stage \in InChild
    /\ \A t \in Threads : Member(t, s.ready) =>
         \/ h[t].stage = "new"
         \/ h[t].stage = "blocked" /\ OpOf(h, t).op \in {"await", "join"}
         \/ \E u \in Mutexes : Locking(h, t, u) /\ s.owner[u] = t /\ ~s.locked[u]
    /\ \A t \in Threads, u \in Mutexes : Member(t, s.mq[u]) => Locking(h, t, u)
    /\ \A t \in Threads, c \in Conds : Member(t, s.cq[c]) =>
         h[t].stage = "blocked" /\ OpOf(h, t).op = "await"
    /\ \A t, j \in Threads : Joins(s, T, t, j) =>
         h[t].stage = "blocked" /\ OpOf(h, t).op = "join"

(* e is excepted: the master is about to serve the requests to it. *)
Requests(s, T, e) ==
    /\ \A t \in Threads : Once(s.reqs[t])
    /\ \A t \in Threads, u \in Mutexes : Member(u, s.reqs[t]) => s.owner[u] = t /\ s.mq[u] # <<>>
    /\ \A t \in Threads, u \in Mutexes :
         Member(u, s.reqs[t]) /\ ~s.locked[u] => T[t] = "RUN" \/ t = e

Locks(s, h, V) ==
    \A t \in Threads, u \in Mutexes : u \in h[t].holds =>
        s.owner[u] = t /\ IF Member(t, s.runq) THEN V[t].locked[u] ELSE s.locked[u]

(* The changes that a running thread has made in its copy are the master's to take. *)
Copies(s, h, V, R) ==
    \A t \in Threads : Member(t, s.runq) =>
        /\ V[t] \in State /\ R[t] \in State
        /\ \A u \in Mutexes : V[t].owner[u] = t <=> s.owner[u] = t
        /\ \A u \in Mutexes : V[t].locked[u] # R[t].locked[u] => s.owner[u] = t
        /\ \A u \in Mutexes : s.owner[u] = t => s.locked[u] = R[t].locked[u]
        /\ R[t].ev = <<>> /\ \A c \in Conds : R[t].nwake[c] = 0
        /\ \A c \in Conds : V[t].nwake[c] # 0 => Member(c, V[t].ev)
        /\ V[t].panic # "no" => h[t].stage = "returning"

Kid(h, t, j) == \E k \in DOMAIN h[t].kids : h[t].kids[k] = j

(* t has joined j in its copy. *)
Freed(V, R, t, j) == V[t].st[j] # R[t].st[j]

Kids(s, T, h, V, R) ==
    /\ \A t1, t2 \in Threads : \A k1 \in DOMAIN h[t1].kids, k2 \in DOMAIN h[t2].kids :
         h[t1].kids[k1] = h[t2].kids[k2] /\ h[t1].kids[k1] # NoThread => t1 = t2 /\ k1 = k2
    /\ \A t, j \in Threads : Kid(h, t, j) => T[j] # "FREE" /\ ~s.det[j]
    /\ \A t, j \in Threads : Member(t, s.runq) /\ Freed(V, R, t, j) =>
         /\ T[j] = "EXIT" /\ R[t].st[j] = "EXIT" /\ V[t].st[j] = "FREE"
         /\ \A t2 \in Threads : ~Kid(h, t2, j)
    /\ \A t1, t2, j \in Threads :
         /\ Member(t1, s.runq) /\ Freed(V, R, t1, j)
         /\ Member(t2, s.runq) /\ Freed(V, R, t2, j)
         => t1 = t2
    /\ \A t, j \in Threads : Member(t, s.runq) /\ Kid(h, t, j) /\ R[t].st[j] = "EXIT" => T[j] = "EXIT"

Good(s, T, h, V, R, e) ==
    /\ s \in State /\ ThreadsOK(h)
    /\ Queues(s, T) /\ Reasons(s, T, h) /\ Requests(s, T, e) /\ Locks(s, h, V)
    /\ Copies(s, h, V, R) /\ Kids(s, T, h, V, R)

(* The master goes on with t: t is on no queue, or on the one that its state w
   will stand for. *)
Mid(s, h, V, R, t, w) == s.st[t] = "RUN" /\ Good(s, [s.st EXCEPT ![t] = w], h, V, R, t)

Live == m.panic = "no" /\ th[0].stage # "done"

(* At the top of the scheduler and in its loop. *)
Rest ==
    /\ view \in [Threads -> State] /\ ref \in [Threads -> State]
    /\ Good(m, m.st, th, view, ref, NoThread)
    /\ \A t \in Threads : th[t].stage \in InChild => Member(t, m.runq)
    /\ m.ev = <<>> /\ \A c \in Conds : m.nwake[c] = 0

Inv == Live => Rest

(* Under ExitsUnlocked. *)
Lost(s, T, h, V) ==
    /\ \A u \in Mutexes : s.mq[u] # <<>> => Member(u, s.reqs[s.owner[u]])
    /\ \A u \in Mutexes : LET t == s.owner[u] IN
         (IF Member(t, s.runq) THEN V[t].locked[u] ELSE s.locked[u]) => u \in h[t].holds
    /\ \A t \in Threads : T[t] \in {"EXIT", "FREE"} => h[t].holds = {}
Inv2 == Live => Lost(m, m.st, th, view)

Data(s, V, R, n) ==
    LET o == s.owner[DataMutex] IN
    /\ \A t \in Threads : Member(t, s.runq) /\ t # o => V[t].x = R[t].x
    /\ IF Member(o, s.runq) THEN s.x = R[o].x /\ V[o].x = n ELSE s.x = n
Inv3 == Live => Data(m, view, ref, total)

-----------------------------------------------------------------------------
(* Induction up to n, for the rounds of the library's loops. *)

LEMMA Induction ==
    ASSUME NEW n \in Nat, NEW S, 0 \in S, \A k \in 0 .. n - 1 : k \in S => k + 1 \in S
    PROVE  \A k \in 0 .. n : k \in S
<1> DEFINE B == {k \in Nat : k <= n /\ k \notin S}
<1> SUFFICES ASSUME B # {} PROVE FALSE
  OBVIOUS
<1>1. \A k, l \in Nat : k < l => <<k, l>> \in OpToRel(<, Nat)
  BY Zenon DEF OpToRel
<1>2. B \subseteq Nat
  OBVIOUS
<1>3. \E k \in B : \A l \in B : ~(<<l, k>> \in OpToRel(<, Nat))
  BY <1>2, NatLessThanWellFounded, WFMin, Zenon
<1>4. PICK k \in B : \A l \in B : ~(l < k)
  <2> HIDE DEF B
  <2> QED BY <1>1, <1>2, <1>3, Zenon
<1>5. k # 0 /\ k - 1 \in 0 .. n - 1 /\ k - 1 \notin B
  BY <1>4
<1> QED
  BY <1>4, <1>5

-----------------------------------------------------------------------------
(* Members of sequences *)

LEMMA InAppend ==
    ASSUME NEW S, NEW q \in Seq(S), NEW z \in S
    PROVE  /\ Append(q, z) \in Seq(S)
           /\ \A y : Member(y, Append(q, z)) <=> Member(y, q) \/ y = z
           /\ Once(q) /\ ~Member(z, q) => Once(Append(q, z))
  BY DEF Member, Once

LEMMA InTail ==
    ASSUME NEW S, NEW q \in Seq(S), q # <<>>
    PROVE  /\ Tail(q) \in Seq(S) /\ Head(q) \in S /\ Member(Head(q), q)
           /\ \A y : Member(y, Tail(q)) => Member(y, q)
           /\ \A y : Member(y, q) => Member(y, Tail(q)) \/ y = Head(q)
           /\ Once(q) => Once(Tail(q)) /\ ~Member(Head(q), Tail(q))
<1>1. Len(q) > 0 /\ Head(q) = q[1] /\ Len(Tail(q)) = Len(q) - 1
  OBVIOUS
<1>2. \A i \in 1 .. Len(q) - 1 : Tail(q)[i] = q[i + 1]
  OBVIOUS
<1>3. \A y : Member(y, q) => Member(y, Tail(q)) \/ y = Head(q)
  <2> SUFFICES ASSUME NEW i \in 1 .. Len(q), i # 1
               PROVE  \E k \in 1 .. Len(Tail(q)) : Tail(q)[k] = q[i]
    BY <1>1 DEF Member
  <2> i - 1 \in 1 .. Len(Tail(q)) /\ Tail(q)[i - 1] = q[i]
    BY <1>1, <1>2
  <2> QED
    OBVIOUS
<1>4. \A y : Member(y, Tail(q)) => Member(y, q)
  BY <1>1, <1>2 DEF Member
<1>5. Once(q) => Once(Tail(q)) /\ ~Member(Head(q), Tail(q))
  BY <1>1, <1>2 DEF Member, Once
<1> QED
  BY <1>1, <1>3, <1>4, <1>5 DEF Member

LEMMA ConcatAt ==
    ASSUME NEW S, NEW q \in Seq(S), NEW r \in Seq(S)
    PROVE  /\ q \o r \in Seq(S) /\ Len(q \o r) = Len(q) + Len(r)
           /\ \A i \in 1 .. Len(q) : (q \o r)[i] = q[i]
           /\ \A i \in 1 .. Len(r) : (q \o r)[Len(q) + i] = r[i]
  OBVIOUS

LEMMA InConcat ==
    ASSUME NEW S, NEW q \in Seq(S), NEW r \in Seq(S)
    PROVE  /\ q \o r \in Seq(S)
           /\ \A y : Member(y, q \o r) <=> Member(y, q) \/ Member(y, r)
           /\ Once(q) /\ Once(r) /\ (\A y : ~(Member(y, q) /\ Member(y, r))) => Once(q \o r)
<1>1. Len(q \o r) = Len(q) + Len(r)
  OBVIOUS
<1>2. \A i \in 1 .. Len(q) : (q \o r)[i] = q[i]
  OBVIOUS
<1>3. \A i \in 1 .. Len(r) : (q \o r)[Len(q) + i] = r[i]
  OBVIOUS
<1>4. ASSUME NEW i \in 1 .. Len(q \o r), ~(i \in 1 .. Len(q))
      PROVE  i - Len(q) \in 1 .. Len(r) /\ (q \o r)[i] = r[i - Len(q)]
  <2>1. Len(q) \in Nat /\ Len(r) \in Nat
    OBVIOUS
  <2>2. i - Len(q) \in 1 .. Len(r) /\ Len(q) + (i - Len(q)) = i
    BY <1>1, <1>4, <2>1
  <2> QED
    BY <2>2, <1>3
<1>5. \A y : Member(y, q \o r) => Member(y, q) \/ Member(y, r)
  BY <1>2, <1>4 DEF Member
<1>6. \A y : Member(y, q) => Member(y, q \o r)
  BY <1>1, <1>2 DEF Member
<1>7. ASSUME NEW y, Member(y, r) PROVE Member(y, q \o r)
  <2>1. PICK i \in 1 .. Len(r) : r[i] = y
    BY <1>7 DEF Member
  <2>2. Len(q) + i \in 1 .. Len(q \o r)
    BY <1>1
  <2> QED
    BY <2>1, <2>2, <1>3 DEF Member
<1>8. ASSUME Once(q), Once(r), \A y : ~(Member(y, q) /\ Member(y, r))
      PROVE  Once(q \o r)
  <2> SUFFICES ASSUME NEW i \in 1 .. Len(q \o r), NEW j \in 1 .. Len(q \o r),
                      (q \o r)[i] = (q \o r)[j]
               PROVE  i = j
    BY DEF Once
  <2>1. CASE i \in 1 .. Len(q) /\ j \in 1 .. Len(q)
    BY <2>1, <1>2, <1>8 DEF Once
  <2>2. CASE ~(i \in 1 .. Len(q)) /\ ~(j \in 1 .. Len(q))
    <3>1. i - Len(q) = j - Len(q)
      BY <2>2, <1>4, <1>8 DEF Once
    <3> QED
      BY <3>1, <1>1
  <2>3. CASE i \in 1 .. Len(q) /\ ~(j \in 1 .. Len(q))
    BY <2>3, <1>2, <1>4, <1>8 DEF Member
  <2>4. CASE ~(i \in 1 .. Len(q)) /\ j \in 1 .. Len(q)
    BY <2>4, <1>2, <1>4, <1>8 DEF Member
  <2> QED
    BY <2>1, <2>2, <2>3, <2>4
<1> QED
  BY <1>5, <1>6, <1>7, <1>8

LEMMA InCons ==
    ASSUME NEW S, NEW q \in Seq(S), NEW z \in S
    PROVE  /\ <<z>> \o q \in Seq(S)
           /\ \A y : Member(y, <<z>> \o q) <=> Member(y, q) \/ y = z
           /\ Once(q) /\ ~Member(z, q) => Once(<<z>> \o q)
<1>1. <<z>> \in Seq(S) /\ Once(<<z>>) /\ \A y : Member(y, <<z>>) <=> y = z
  BY DEF Member, Once
<1> QED
  BY <1>1, InConcat, ZenonT(30)

(* The two parts of a sequence. *)
LEMMA InParts ==
    ASSUME NEW S, NEW q \in Seq(S), NEW n \in 0 .. Len(q)
    PROVE  /\ SubSeq(q, 1, n) \in Seq(S) /\ SubSeq(q, n + 1, Len(q)) \in Seq(S)
           /\ Len(SubSeq(q, 1, n)) = n
           /\ \A y : Member(y, q) <=> Member(y, SubSeq(q, 1, n)) \/ Member(y, SubSeq(q, n + 1, Len(q)))
           /\ Once(q) => /\ Once(SubSeq(q, 1, n)) /\ Once(SubSeq(q, n + 1, Len(q)))
                         /\ \A y : ~(Member(y, SubSeq(q, 1, n)) /\ Member(y, SubSeq(q, n + 1, Len(q))))
<1> DEFINE a == SubSeq(q, 1, n)
           b == SubSeq(q, n + 1, Len(q))
<1>1. a \in Seq(S) /\ Len(a) = n /\ \A i \in 1 .. n : a[i] = q[i]
  OBVIOUS
<1>2. b \in Seq(S) /\ Len(b) = Len(q) - n /\ \A i \in 1 .. Len(q) - n : b[i] = q[n + i]
  OBVIOUS
<1> HIDE DEF a, b
<1>3. ASSUME NEW y, Member(y, q) PROVE Member(y, a) \/ Member(y, b)
  <2>1. PICK i \in 1 .. Len(q) : q[i] = y
    BY <1>3 DEF Member
  <2>2. CASE i <= n
    BY <2>1, <2>2, <1>1 DEF Member
  <2>3. CASE i > n
    <3>1. i - n \in 1 .. Len(b) /\ b[i - n] = q[n + (i - n)]
      BY <1>2, <2>3
    <3> QED
      BY <3>1, <2>1 DEF Member
  <2> QED
    BY <2>2, <2>3
<1>4. ASSUME NEW y, Member(y, a) \/ Member(y, b) PROVE Member(y, q)
  <2>1. CASE Member(y, a)
    BY <2>1, <1>1 DEF Member
  <2>2. CASE Member(y, b)
    <3>1. PICK i \in 1 .. Len(q) - n : q[n + i] = y
      BY <2>2, <1>2 DEF Member
    <3> QED
      BY <3>1, n + i \in 1 .. Len(q) DEF Member
  <2> QED
    BY <1>4, <2>1, <2>2
<1>5. ASSUME Once(q)
      PROVE  Once(a) /\ Once(b) /\ \A y : ~(Member(y, a) /\ Member(y, b))
  <2>1. Once(a)
    BY <1>1, <1>5 DEF Once
  <2>2. Once(b)
    <3> SUFFICES ASSUME NEW i \in 1 .. Len(q) - n, NEW j \in 1 .. Len(q) - n, q[n + i] = q[n + j]
                 PROVE  i = j
      BY <1>2 DEF Once
    <3>1. n + i \in 1 .. Len(q) /\ n + j \in 1 .. Len(q)
      OBVIOUS
    <3> QED
      BY <3>1, <1>5 DEF Once
  <2>3. ASSUME NEW i \in 1 .. n, NEW j \in 1 .. Len(q) - n PROVE a[i] # b[j]
    <3>1. i \in 1 .. Len(q) /\ n + j \in 1 .. Len(q) /\ i # n + j
      OBVIOUS
    <3> QED
      BY <3>1, <1>1, <1>2, <1>5 DEF Once
  <2> QED
    BY <2>1, <2>2, <2>3, <1>1, <1>2 DEF Member
<1> QED
  BY <1>1, <1>2, <1>3, <1>4, <1>5 DEF a, b

LEMMA InRemoveAt ==
    ASSUME NEW S, NEW q \in Seq(S), NEW n \in 1 .. Len(q), Once(q)
    PROVE  /\ RemoveAt(q, n) \in Seq(S) /\ Len(RemoveAt(q, n)) = Len(q) - 1
           /\ \A y : Member(y, RemoveAt(q, n)) <=> Member(y, q) /\ y # q[n]
           /\ Once(RemoveAt(q, n))
           /\ \A k \in 1 .. n - 1 : RemoveAt(q, n)[k] = q[k]
<1> DEFINE r == RemoveAt(q, n)
<1>1. /\ r \in Seq(S) /\ Len(r) = Len(q) - 1
      /\ \A k \in 1 .. Len(q) - 1 : r[k] = IF k < n THEN q[k] ELSE q[k + 1]
  <2> DEFINE a == SubSeq(q, 1, n - 1)
             b == SubSeq(q, n + 1, Len(q))
  <2>1. a \in Seq(S) /\ Len(a) = n - 1 /\ \A i \in 1 .. n - 1 : a[i] = q[i]
    OBVIOUS
  <2>2. b \in Seq(S) /\ Len(b) = Len(q) - n /\ \A i \in 1 .. Len(q) - n : b[i] = q[n + i]
    OBVIOUS
  <2>3. r = a \o b
    BY DEF RemoveAt
  <2> HIDE DEF a, b, r
  <2>4. /\ a \o b \in Seq(S) /\ Len(a \o b) = Len(a) + Len(b)
        /\ \A k \in 1 .. Len(a) : (a \o b)[k] = a[k]
        /\ \A k \in 1 .. Len(b) : (a \o b)[Len(a) + k] = b[k]
    <3>1. a \in Seq(S) /\ b \in Seq(S)
      BY <2>1, <2>2
    <3> QED
      BY <3>1, ConcatAt
  <2>5. ASSUME NEW k \in 1 .. Len(q) - 1, ~(k < n) PROVE (a \o b)[k] = q[k + 1]
    <3>1. /\ k - Len(a) \in 1 .. Len(q) - n /\ Len(a) + (k - Len(a)) = k
          /\ n + (k - Len(a)) = k + 1
      BY <2>1, <2>5
    <3>2. (a \o b)[Len(a) + (k - Len(a))] = b[k - Len(a)]
      BY <3>1, <2>2, <2>4
    <3>3. b[k - Len(a)] = q[n + (k - Len(a))]
      BY <3>1, <2>2
    <3> QED
      BY <3>1, <3>2, <3>3
  <2> QED
    BY <2>1, <2>2, <2>3, <2>4, <2>5
<1> HIDE DEF r
<1>2. ASSUME NEW y, Member(y, r) PROVE Member(y, q) /\ y # q[n]
  BY <1>1, <1>2 DEF Member, Once
<1>3. ASSUME NEW y, Member(y, q), y # q[n] PROVE Member(y, r)
  <2>1. PICK i \in 1 .. Len(q) : q[i] = y
    BY <1>3 DEF Member
  <2>2. CASE i < n
    BY <2>1, <2>2, <1>1 DEF Member
  <2>3. CASE i > n
    <3>1. i - 1 \in 1 .. Len(q) - 1 /\ ~(i - 1 < n) /\ (i - 1) + 1 = i
      BY <2>3
    <3> QED
      BY <3>1, <2>1, <1>1 DEF Member
  <2> QED
    BY <2>1, <2>2, <2>3, <1>3
<1>4. Once(r)
  BY <1>1 DEF Once
<1> QED
  BY <1>1, <1>2, <1>3, <1>4 DEF r

-----------------------------------------------------------------------------
(* The rounds of condwakeups *)

(* W are the threads that Wakeup(s, c) = s2 wakes. *)
Woken(s, s2, c, W) ==
    /\ s2 \in State /\ s.panic = "no"
    /\ s2.owner = s.owner /\ s2.locked = s.locked /\ s2.mq = s.mq /\ s2.reqs = s.reqs
    /\ s2.ev = s.ev /\ s2.det = s.det /\ s2.joiner = s.joiner /\ s2.runq = s.runq /\ s2.x = s.x
    /\ s2.nwake = [s.nwake EXCEPT ![c] = 0]
    /\ \A y \in W : y \in Threads /\ s.st[y] = "COND" /\ Member(y, s.cq[c])
    /\ \A y \in Threads : s2.st[y] = IF y \in W THEN "RUN" ELSE s.st[y]
    /\ \A y \in Threads : Member(y, s2.ready) <=> Member(y, s.ready) \/ y \in W
    /\ Once(s.ready) /\ (\A y \in W : ~Member(y, s.ready)) => Once(s2.ready)
    /\ \A y \in Threads, d \in Conds :
         Member(y, s2.cq[d]) <=> Member(y, s.cq[d]) /\ ~(d = c /\ y \in W)
    /\ \A d \in Conds : Once(s.cq[d]) => Once(s2.cq[d])

LEMMA WakeupEffect ==
    ASSUME NEW s \in State, NEW c \in Conds, Once(s.cq[c]), Wakeup(s, c).panic = "no"
    PROVE  \E W : Woken(s, Wakeup(s, c), c, W)
<1> DEFINE q == s.cq[c]
           n == IF s.nwake[c] < Len(q) THEN s.nwake[c] ELSE Len(q)
           woken == SubSeq(q, 1, n)
           rest == SubSeq(q, n + 1, Len(q))
           W == {y \in Threads : Member(y, woken)}
           s1 == [s EXCEPT !.cq[c] = rest, !.nwake[c] = 0, !.ready = @ \o woken,
                           !.st = [y \in Threads |->
                                     IF \E k \in 1 .. n : woken[k] = y THEN "RUN" ELSE @[y]]]
<1>1. q \in Seq(Threads) /\ n \in 0 .. Len(q) /\ Once(q) /\ s.ready \in Seq(Threads)
  BY DEF State
<1>2. Wakeup(s, c) = IF \A k \in 1 .. n : s.st[woken[k]] = "COND" THEN s1
                     ELSE Fail(s1, "woken before it blocks")
  BY DEF Wakeup
<1> HIDE DEF n, q
<1>3. /\ woken \in Seq(Threads) /\ rest \in Seq(Threads) /\ Len(woken) = n
      /\ Once(woken) /\ Once(rest)
      /\ \A y : Member(y, q) <=> Member(y, woken) \/ Member(y, rest)
      /\ \A y : ~(Member(y, woken) /\ Member(y, rest))
  BY <1>1, InParts
<1> HIDE DEF woken, rest
<1>4. s1 \in State /\ s1.panic = s.panic
  <2>1. s.ready \o woken \in Seq(Threads)
    BY <1>1, <1>3
  <2>2. 0 \in 0 .. MAXTHREADS
    BY DSchedAssumption
  <2>3. [y \in Threads |-> IF \E k \in 1 .. n : woken[k] = y THEN "RUN" ELSE s.st[y]]
          \in [Threads -> States]
    BY DEF State, States
  <2> QED
    BY <2>1, <2>2, <2>3, <1>3 DEF State
<1>5. (\A k \in 1 .. n : s.st[woken[k]] = "COND") /\ Wakeup(s, c) = s1 /\ s.panic = "no"
  <2> HIDE DEF s1
  <2>1. s1.panic \in Panics /\ "panic" \in DOMAIN s1
    BY <1>4 DEF State
  <2> QED
    BY <1>2, <1>4, <2>1 DEF Fail
<1>6. /\ s1.owner = s.owner /\ s1.locked = s.locked /\ s1.mq = s.mq /\ s1.reqs = s.reqs
      /\ s1.ev = s.ev /\ s1.det = s.det /\ s1.joiner = s.joiner /\ s1.runq = s.runq /\ s1.x = s.x
      /\ s1.nwake = [s.nwake EXCEPT ![c] = 0] /\ s1.ready = s.ready \o woken
      /\ s1.cq = [s.cq EXCEPT ![c] = rest]
      /\ s1.st = [y \in Threads |-> IF \E k \in 1 .. n : woken[k] = y THEN "RUN" ELSE s.st[y]]
  BY DEF State
<1> HIDE DEF s1
<1>7. \A y \in W : y \in Threads /\ s.st[y] = "COND" /\ Member(y, s.cq[c])
  BY <1>3, <1>5 DEF Member, q
<1>8. \A y \in Threads : s1.st[y] = IF y \in W THEN "RUN" ELSE s.st[y]
  BY <1>3, <1>6 DEF Member
<1>9. /\ \A y \in Threads : Member(y, s1.ready) <=> Member(y, s.ready) \/ y \in W
      /\ Once(s.ready) /\ (\A y \in W : ~Member(y, s.ready)) => Once(s1.ready)
  <2>1. \A y : Member(y, woken) => y \in Threads
    BY <1>3 DEF Member
  <2>2. /\ \A y : Member(y, s.ready \o woken) <=> Member(y, s.ready) \/ Member(y, woken)
        /\ Once(s.ready) /\ (\A y : ~(Member(y, s.ready) /\ Member(y, woken))) => Once(s.ready \o woken)
    BY <1>1, <1>3, InConcat
  <2> QED
    BY <2>1, <2>2, <1>6
<1>10. ASSUME NEW d \in Conds
       PROVE  /\ \A y \in Threads : Member(y, s1.cq[d]) <=> Member(y, s.cq[d]) /\ ~(d = c /\ y \in W)
              /\ Once(s.cq[d]) => Once(s1.cq[d])
  <2>1. s1.cq[d] = IF d = c THEN rest ELSE s.cq[d]
    BY <1>6 DEF State
  <2> QED
    BY <2>1, <1>3 DEF q
<1>11. Woken(s, s1, c, W)
  BY <1>4, <1>5, <1>6, <1>7, <1>8, <1>9, <1>10 DEF Woken
<1> QED
  BY <1>5, <1>11

LEMMA WakeupMid ==
    ASSUME NEW s, NEW s2, NEW h, NEW V, NEW R, NEW t \in Threads, NEW w, NEW c \in Conds, NEW W,
           w # "RUN", Mid(s, h, V, R, t, w), Woken(s, s2, c, W)
    PROVE  Mid(s2, h, V, R, t, w)
<1> DEFINE T == [s.st EXCEPT ![t] = w]
           T2 == [s2.st EXCEPT ![t] = w]
<1>1. s \in State /\ s2 \in State /\ s.st[t] = "RUN"
  BY DEF Mid, Good, Woken
<1>2. t \notin W /\ s2.st[t] = "RUN"
  BY <1>1 DEF Woken
<1>3. \A y \in Threads : T2[y] = IF y \in W THEN "RUN" ELSE T[y]
  BY <1>1, <1>2 DEF Woken, State
<1>4. \A y \in W : y \in Threads /\ T[y] = "COND" /\ Member(y, s.cq[c])
  BY <1>1, <1>2 DEF Woken, State
<1> HIDE DEF T, T2
<1>5. Good(s, T, h, V, R, t)
  BY DEF Mid, T
<1>6. Queues(s2, T2)
  BY <1>3, <1>4, <1>5 DEF Good, Queues, Joins, Woken
<1>7. Reasons(s2, T2, h)
  BY <1>3, <1>4, <1>5 DEF Good, Reasons, Joins, Woken
<1>8. Requests(s2, T2, t)
  BY <1>3, <1>5 DEF Good, Requests, Woken
<1>9. Locks(s2, h, V) /\ Copies(s2, h, V, R)
  BY <1>5 DEF Good, Locks, Copies, Woken
<1>10. Kids(s2, T2, h, V, R)
  BY <1>3, <1>4, <1>5 DEF Good, Kids, Woken
<1> QED
  BY <1>1, <1>2, <1>5, <1>6, <1>7, <1>8, <1>9, <1>10 DEF Mid, Good, T2

(* What the steps of tevents keep besides Mid. *)
Carried(s, s2, h, V, R, t, w) ==
    /\ Lost(s, [s.st EXCEPT ![t] = w], h, V) => Lost(s2, [s2.st EXCEPT ![t] = w], h, V)
    /\ \A n : Data(s, V, R, n) => Data(s2, V, R, n)
    /\ s2.runq = s.runq

LEMMA WakeupCarries ==
    ASSUME NEW s, NEW s2, NEW h, NEW V, NEW R, NEW t \in Threads, NEW w, NEW c \in Conds, NEW W,
           w # "RUN", Mid(s, h, V, R, t, w), Woken(s, s2, c, W)
    PROVE  Carried(s, s2, h, V, R, t, w)
<1> DEFINE T == [s.st EXCEPT ![t] = w]
           T2 == [s2.st EXCEPT ![t] = w]
<1>1. s \in State /\ s2 \in State /\ s.st[t] = "RUN"
  BY DEF Mid, Good, Woken
<1>2. \A y \in Threads : T2[y] \in {"EXIT", "FREE"} => T[y] = T2[y]
  BY <1>1 DEF Woken, State
<1> HIDE DEF T, T2
<1>3. Lost(s, T, h, V) => Lost(s2, T2, h, V)
  BY <1>2 DEF Lost, Woken
<1>4. \A n : Data(s, V, R, n) => Data(s2, V, R, n)
  BY DEF Data, Woken
<1>5. s2.runq = s.runq
  BY DEF Woken
<1> QED
  BY <1>3, <1>4, <1>5 DEF Carried, T, T2

(* A failed assertion is not forgotten, and the program's data are left alone. *)
Same(s, s2) ==
    /\ DOMAIN s2 = DOMAIN s /\ s2.x = s.x
    /\ s2.panic = "no" => s.panic = "no"

LEMMA WakeupSame ==
    ASSUME NEW s, NEW c, {"panic", "x"} \subseteq DOMAIN s
    PROVE  Same(s, Wakeup(s, c)) /\ ("reqs" \in DOMAIN s => Wakeup(s, c).reqs = s.reqs)
<1> DEFINE n == IF s.nwake[c] < Len(s.cq[c]) THEN s.nwake[c] ELSE Len(s.cq[c])
           woken == SubSeq(s.cq[c], 1, n)
           s1 == [s EXCEPT !.cq[c] = SubSeq(@, n + 1, Len(@)), !.nwake[c] = 0,
                           !.ready = @ \o woken,
                           !.st = [t \in Threads |->
                                     IF \E k \in 1 .. n : woken[k] = t THEN "RUN" ELSE @[t]]]
<1>1. Wakeup(s, c) = IF \A k \in 1 .. n : s.st[woken[k]] = "COND" THEN s1
                     ELSE Fail(s1, "woken before it blocks")
  BY DEF Wakeup
<1> HIDE DEF n, woken
<1>2. DOMAIN s1 = DOMAIN s /\ s1.x = s.x /\ s1.panic = s.panic /\ s1.reqs = s.reqs
  OBVIOUS
<1> HIDE DEF s1
<1> QED
  BY <1>1, <1>2 DEF Same, Fail

CondAfter(s) == CHOOSE f : f = [k \in 0 .. Len(s.ev) |-> IF k = 0 THEN s ELSE Wakeup(f[k - 1], s.ev[k])]

LEMMA CondAfterDef ==
    ASSUME NEW s, s.ev \in Seq(Conds)
    PROVE  /\ CondWakeups(s) = [CondAfter(s)[Len(s.ev)] EXCEPT !.ev = <<>>]
           /\ CondAfter(s)[0] = s
           /\ \A k \in 1 .. Len(s.ev) : CondAfter(s)[k] = Wakeup(CondAfter(s)[k - 1], s.ev[k])
<1> DEFINE n == Len(s.ev)
           S == {j \in 0 .. n : \E f : f = [k \in 0 .. j |-> IF k = 0 THEN s ELSE Wakeup(f[k - 1], s.ev[k])]}
<1>1. n \in Nat
  OBVIOUS
<1>2. 0 \in S
  <2> DEFINE f == [k \in 0 .. 0 |-> s]
  <2>1. f = [k \in 0 .. 0 |-> IF k = 0 THEN s ELSE Wakeup(f[k - 1], s.ev[k])]
    OBVIOUS
  <2> HIDE DEF f
  <2> QED
    BY <1>1, <2>1
<1>3. ASSUME NEW j \in 0 .. n - 1, j \in S PROVE j + 1 \in S
  <2>1. PICK f : f = [k \in 0 .. j |-> IF k = 0 THEN s ELSE Wakeup(f[k - 1], s.ev[k])]
    BY <1>3
  <2> DEFINE g == [k \in 0 .. j + 1 |-> IF k = j + 1 THEN Wakeup(f[j], s.ev[j + 1]) ELSE f[k]]
  <2>2. ASSUME NEW k \in 0 .. j + 1
        PROVE  g[k] = IF k = 0 THEN s ELSE Wakeup(g[k - 1], s.ev[k])
    <3>1. CASE k = j + 1
      BY <1>1, <3>1
    <3>2. CASE k # j + 1
      <4>1. k \in 0 .. j /\ (k # 0 => k - 1 \in 0 .. j /\ k - 1 # j + 1)
        BY <1>1, <3>2
      <4>2. f[k] = IF k = 0 THEN s ELSE Wakeup(f[k - 1], s.ev[k])
        BY <2>1, <4>1
      <4>3. g[k] = f[k] /\ (k # 0 => g[k - 1] = f[k - 1])
        BY <1>1, <3>2, <4>1
      <4> QED
        BY <4>2, <4>3
    <3> QED
      BY <3>1, <3>2
  <2>3. g = [k \in 0 .. j + 1 |-> IF k = 0 THEN s ELSE Wakeup(g[k - 1], s.ev[k])]
    BY <2>2, Zenon
  <2> HIDE DEF g
  <2> QED
    BY <1>1, <2>3
<1>4. n \in S
  <2>1. 0 \in S /\ \A k \in 0 .. n - 1 : k \in S => k + 1 \in S
    BY <1>2, <1>3
  <2> HIDE DEF S
  <2>2. \A k \in 0 .. n : k \in S
    BY <1>1, <2>1, Induction
  <2> QED
    BY <1>1, <2>2
<1>5. \E f : f = [k \in 0 .. n |-> IF k = 0 THEN s ELSE Wakeup(f[k - 1], s.ev[k])]
  BY <1>4 DEF S
<1>6. CondAfter(s) = [k \in 0 .. n |-> IF k = 0 THEN s ELSE Wakeup(CondAfter(s)[k - 1], s.ev[k])]
  BY <1>5 DEF CondAfter
<1>7. CondWakeups(s) = [CondAfter(s)[n] EXCEPT !.ev = <<>>]
  BY DEF CondWakeups, CondAfter
<1> HIDE DEF n
<1> QED
  BY <1>1, <1>6, <1>7 DEF n

(* The rounds of condwakeups, whatever they meet. *)
LEMMA CondWakeupsSame ==
    ASSUME NEW s, {"panic", "x", "reqs"} \subseteq DOMAIN s, s.ev \in Seq(Conds)
    PROVE  /\ Same(s, CondWakeups(s)) /\ CondWakeups(s).reqs = s.reqs
           /\ \A k \in 0 .. Len(s.ev) : DOMAIN CondAfter(s)[k] = DOMAIN s
<1> DEFINE n == Len(s.ev)
           a == CondAfter(s)
           S == {k \in 0 .. n : Same(s, a[k]) /\ a[k].reqs = s.reqs}
<1>1. /\ CondWakeups(s) = [a[n] EXCEPT !.ev = <<>>] /\ a[0] = s /\ n \in Nat
      /\ \A k \in 1 .. n : a[k] = Wakeup(a[k - 1], s.ev[k])
  BY CondAfterDef
<1> HIDE DEF a
<1>2. 0 \in S
  BY <1>1 DEF Same
<1>3. ASSUME NEW k \in 0 .. n - 1, k \in S PROVE k + 1 \in S
  <2>1. k + 1 \in 1 .. n /\ k + 1 \in 0 .. n /\ (k + 1) - 1 = k
    BY <1>1
  <2>2. a[k + 1] = Wakeup(a[k], s.ev[k + 1])
    BY <1>1, <2>1
  <2>3. Same(s, a[k]) /\ a[k].reqs = s.reqs /\ DOMAIN a[k] = DOMAIN s
    BY <1>3 DEF Same
  <2>4. Same(a[k], a[k + 1]) /\ a[k + 1].reqs = a[k].reqs
    BY <2>2, <2>3, WakeupSame
  <2>5. Same(s, a[k + 1])
    BY <2>3, <2>4 DEF Same
  <2> QED
    BY <2>1, <2>3, <2>4, <2>5
<1>4. \A k \in 0 .. n : Same(s, a[k]) /\ a[k].reqs = s.reqs
  <2>1. 0 \in S /\ \A k \in 0 .. n - 1 : k \in S => k + 1 \in S
    BY <1>2, <1>3
  <2>2. \A k \in 0 .. n : k \in S
    <3> HIDE DEF S
    <3> QED BY <1>1, <2>1, Induction
  <2> QED
    BY <2>2
<1>5. Same(s, a[n]) /\ a[n].reqs = s.reqs
  BY <1>1, <1>4
<1>6. Same(s, CondWakeups(s)) /\ CondWakeups(s).reqs = s.reqs
  BY <1>1, <1>5 DEF Same
<1> QED
  BY <1>4, <1>6 DEF Same, a

LEMMA EvServed ==
    ASSUME NEW s \in State
    PROVE  LET s2 == [s EXCEPT !.ev = <<>>]
           IN  /\ s2 \in State /\ s2.ev = <<>> /\ s2.nwake = s.nwake
               /\ s2.owner = s.owner /\ s2.locked = s.locked /\ s2.mq = s.mq /\ s2.reqs = s.reqs
               /\ s2.cq = s.cq /\ s2.st = s.st /\ s2.det = s.det /\ s2.joiner = s.joiner
               /\ s2.ready = s.ready /\ s2.runq = s.runq /\ s2.x = s.x
<1> DEFINE e == <<>>
<1>1. e \in Seq(Conds)
  OBVIOUS
<1> HIDE DEF e
<1> DEFINE s2 == [s EXCEPT !.ev = e]
<1>2. /\ s2 \in State /\ s2.ev = e /\ s2.nwake = s.nwake
      /\ s2.owner = s.owner /\ s2.locked = s.locked /\ s2.mq = s.mq /\ s2.reqs = s.reqs
      /\ s2.cq = s.cq /\ s2.st = s.st /\ s2.det = s.det /\ s2.joiner = s.joiner
      /\ s2.ready = s.ready /\ s2.runq = s.runq /\ s2.x = s.x
  BY <1>1 DEF State
<1> QED
  BY <1>2, Zenon DEF e

LEMMA CondWakeupsMid ==
    ASSUME NEW s, NEW h, NEW V, NEW R, NEW t \in Threads, NEW w, w # "RUN",
           Mid(s, h, V, R, t, w), \A c \in Conds : s.nwake[c] # 0 => Member(c, s.ev),
           CondWakeups(s).panic = "no"
    PROVE  LET s2 == CondWakeups(s)
           IN  /\ Mid(s2, h, V, R, t, w) /\ Carried(s, s2, h, V, R, t, w)
               /\ s2.ev = <<>> /\ \A c \in Conds : s2.nwake[c] = 0
<1> DEFINE n == Len(s.ev)
           a(k) == CondAfter(s)[k]
           P(k) == a(k).panic = "no" =>
                     /\ Mid(a(k), h, V, R, t, w) /\ Carried(s, a(k), h, V, R, t, w)
                     /\ a(k).ev = s.ev
                     /\ \A c \in Conds : a(k).nwake[c] # 0 => \E i \in k + 1 .. n : s.ev[i] = c
           S == {k \in 0 .. n : P(k)}
<1>1. s \in State /\ s.ev \in Seq(Conds) /\ n \in Nat
  BY DEF Mid, Good, State
<1>2. /\ CondWakeups(s) = [a(n) EXCEPT !.ev = <<>>] /\ a(0) = s
      /\ \A k \in 1 .. n : a(k) = Wakeup(a(k - 1), s.ev[k])
  BY <1>1, CondAfterDef
<1> HIDE DEF a
<1>3. P(0)
  BY <1>1, <1>2 DEF Carried, Member
<1>4. ASSUME NEW k \in 0 .. n - 1, P(k) PROVE P(k + 1)
  <2> SUFFICES ASSUME a(k + 1).panic = "no"
               PROVE  /\ Mid(a(k + 1), h, V, R, t, w) /\ Carried(s, a(k + 1), h, V, R, t, w)
                      /\ a(k + 1).ev = s.ev
                      /\ \A c \in Conds : a(k + 1).nwake[c] # 0 => \E i \in (k + 1) + 1 .. n : s.ev[i] = c
    OBVIOUS
  <2> DEFINE c == s.ev[k + 1]
  <2>1. a(k + 1) = Wakeup(a(k), c) /\ c \in Conds
    <3>1. k + 1 \in 1 .. n /\ (k + 1) - 1 = k
      BY <1>1
    <3>2. a(k + 1) = Wakeup(a((k + 1) - 1), c)
      BY <1>2, <3>1
    <3> QED
      BY <1>1, <3>1, <3>2
  <2> HIDE DEF c
  <2>2. a(k).panic = "no" => Mid(a(k), h, V, R, t, w)
    BY <1>4
  <2>3. a(k).panic = "no"
    <3>1. {"panic", "x", "reqs"} \subseteq DOMAIN s
      BY <1>1 DEF State
    <3>2. k \in 0 .. Len(s.ev)
      BY <1>1
    <3>3. DOMAIN a(k) = DOMAIN s
      BY <1>1, <3>1, <3>2, CondWakeupsSame DEF a
    <3> QED
      BY <2>1, <3>1, <3>3, WakeupSame DEF Same
  <2>4. Mid(a(k), h, V, R, t, w) /\ a(k) \in State /\ Once(a(k).cq[c])
    BY <2>1, <2>2, <2>3 DEF Mid, Good, Queues
  <2>5. PICK W : Woken(a(k), a(k + 1), c, W)
    BY <2>1, <2>4, WakeupEffect
  <2>6. Mid(a(k + 1), h, V, R, t, w) /\ Carried(a(k), a(k + 1), h, V, R, t, w)
    BY <2>1, <2>4, <2>5, WakeupMid, WakeupCarries
  <2>7. Carried(s, a(k + 1), h, V, R, t, w)
    BY <2>6, <2>3, <1>4 DEF Carried
  <2>8. ASSUME NEW d \in Conds, a(k + 1).nwake[d] # 0
        PROVE  \E i \in (k + 1) + 1 .. n : s.ev[i] = d
    <3>1. d # c /\ a(k).nwake[d] # 0
      BY <2>1, <2>4, <2>5, <2>8 DEF Woken, State
    <3>2. PICK i \in k + 1 .. n : s.ev[i] = d
      BY <1>4, <2>3, <3>1
    <3>3. i # k + 1
      BY <3>1, <3>2 DEF c
    <3> QED
      BY <3>2, <3>3, <1>1
  <2> QED
    BY <2>3, <2>5, <2>6, <2>7, <2>8, <1>4 DEF Woken
<1>5. P(n)
  <2>1. 0 \in S /\ \A k \in 0 .. n - 1 : k \in S => k + 1 \in S
    BY <1>1, <1>3, <1>4
  <2> HIDE DEF S
  <2>2. n \in S
    BY <1>1, <2>1, Induction
  <2> QED
    BY <2>2 DEF S
<1> DEFINE s2 == [a(n) EXCEPT !.ev = <<>>]
           T == [a(n).st EXCEPT ![t] = w]
<1>6. a(n).panic = "no"
  <2>0. {"panic", "x", "reqs"} \subseteq DOMAIN s /\ n \in 0 .. Len(s.ev)
    BY <1>1 DEF State
  <2>1. DOMAIN a(n) = DOMAIN s
    BY <1>1, <2>0, CondWakeupsSame DEF a
  <2>2. "panic" \in DOMAIN a(n)
    BY <1>1, <2>1 DEF State
  <2> QED
    BY <1>2, <2>2
<1>7. /\ Mid(a(n), h, V, R, t, w) /\ Carried(s, a(n), h, V, R, t, w)
      /\ a(n) \in State /\ \A c \in Conds : a(n).nwake[c] = 0
  BY <1>5, <1>6, <1>1 DEF Mid, Good
<1>8. /\ s2 \in State /\ s2.ev = <<>> /\ s2.nwake = a(n).nwake
      /\ s2.owner = a(n).owner /\ s2.locked = a(n).locked /\ s2.mq = a(n).mq /\ s2.reqs = a(n).reqs
      /\ s2.cq = a(n).cq /\ s2.st = a(n).st /\ s2.det = a(n).det /\ s2.joiner = a(n).joiner
      /\ s2.ready = a(n).ready /\ s2.runq = a(n).runq /\ s2.x = a(n).x
  BY <1>7, EvServed
<1> HIDE DEF s2
<1>9. Mid(s2, h, V, R, t, w)
  <2>1. a(n).st[t] = "RUN" /\ Good(a(n), T, h, V, R, t)
    BY <1>7 DEF Mid
  <2> HIDE DEF T
  <2>2. Queues(s2, T)
    BY <2>1, <1>8 DEF Good, Queues, Joins
  <2>3. Reasons(s2, T, h)
    BY <2>1, <1>8 DEF Good, Reasons, Joins
  <2>4. Requests(s2, T, t) /\ Locks(s2, h, V)
    BY <2>1, <1>8 DEF Good, Requests, Locks
  <2>5. Copies(s2, h, V, R)
    BY <2>1, <1>8 DEF Good, Copies
  <2>6. Kids(s2, T, h, V, R)
    BY <2>1, <1>8 DEF Good, Kids
  <2>7. Good(s2, T, h, V, R, t)
    BY <2>1, <2>2, <2>3, <2>4, <2>5, <2>6, <1>8 DEF Good
  <2> QED
    BY <2>1, <2>7, <1>8 DEF Mid, T
<1>10. Carried(s, s2, h, V, R, t, w)
  <2>1. Lost(a(n), T, h, V) => Lost(s2, [s2.st EXCEPT ![t] = w], h, V)
    BY <1>8 DEF Lost
  <2>2. \A i : Data(a(n), V, R, i) => Data(s2, V, R, i)
    BY <1>8 DEF Data
  <2> QED
    BY <1>7, <1>8, <2>1, <2>2 DEF Carried
<1> QED
  BY <1>2, <1>7, <1>8, <1>9, <1>10 DEF s2

-----------------------------------------------------------------------------
(* The rounds of mutexreqs *)

LEMMA TreadyEffect ==
    ASSUME NEW s \in State, NEW y \in Threads, Tready(s, y).panic = "no"
    PROVE  /\ s.panic = "no" /\ s.st[y] # "RUN"
           /\ Tready(s, y) = [s EXCEPT !.st[y] = "RUN", !.ready = Append(@, y)]
<1>1. s.panic \in Panics /\ "panic" \in DOMAIN s
  BY DEF State
<1> QED
  BY <1>1 DEF Tready, Fail

(* u goes from t to tn, and t is told no more of it. *)
Transferred(s, s2, u, t, tn) ==
    /\ s2 \in State /\ s.panic = "no"
    /\ tn \in Threads /\ tn # t /\ s.st[tn] # "RUN" /\ Member(tn, s.mq[u])
    /\ s2.locked = s.locked /\ s2.cq = s.cq /\ s2.nwake = s.nwake /\ s2.ev = s.ev
    /\ s2.det = s.det /\ s2.joiner = s.joiner /\ s2.runq = s.runq /\ s2.x = s.x
    /\ \A v \in Mutexes : s2.owner[v] = IF v = u THEN tn ELSE s.owner[v]
    /\ \A y \in Threads : s2.st[y] = IF y = tn THEN "RUN" ELSE s.st[y]
    /\ \A v \in Mutexes : v # u => s2.mq[v] = s.mq[v]
    /\ \A y \in Threads : Member(y, s2.mq[u]) => Member(y, s.mq[u]) /\ y # tn
    /\ \A y \in Threads : Member(y, s.mq[u]) => Member(y, s2.mq[u]) \/ y = tn
    /\ Once(s2.mq[u])
    /\ \A y \in Threads : Member(y, s2.ready) <=> Member(y, s.ready) \/ y = tn
    /\ Once(s.ready) /\ ~Member(tn, s.ready) => Once(s2.ready)
    /\ \A y \in Threads, v \in Mutexes : Member(v, s2.reqs[y]) <=>
         \/ Member(v, s.reqs[y]) /\ ~(y = t /\ v = u)
         \/ y = tn /\ v = u /\ s2.mq[u] # <<>>
    /\ \A y \in Threads : Once(s.reqs[y]) /\ (y = tn => ~Member(u, s.reqs[tn])) => Once(s2.reqs[y])

LEMMA TransferEffect ==
    ASSUME NEW s \in State, NEW t \in Threads, NEW i \in 1 .. Len(s.reqs[t]),
           s.mq[s.reqs[t][i]] # <<>>, Once(s.mq[s.reqs[t][i]]), Once(s.reqs[t]), s.st[t] = "RUN",
           Transfer(s, i, t).panic = "no"
    PROVE  LET u == s.reqs[t][i]
           IN  /\ u \in Mutexes /\ Member(u, s.reqs[t])
               /\ Transferred(s, Transfer(s, i, t), u, t, Head(s.mq[u]))
               /\ Transfer(s, i, t).reqs[t] = RemoveAt(s.reqs[t], i)
<1> DEFINE u == s.reqs[t][i]
           tn == Head(s.mq[u])
           rest == Tail(s.mq[u])
           removed == RemoveAt(s.reqs[t], i)
           told == [s.reqs EXCEPT ![t] = removed]
           reqs2 == IF rest = <<>> THEN told ELSE [told EXCEPT ![tn] = <<u>> \o @]
           owner2 == [s.owner EXCEPT ![u] = tn]
           mq2 == [s.mq EXCEPT ![u] = rest]
           s1 == [s EXCEPT !.owner = owner2, !.mq = mq2, !.reqs = reqs2]
           st2 == [s.st EXCEPT ![tn] = "RUN"]
           ready2 == Append(s.ready, tn)
           s2 == [s1 EXCEPT !.st = st2, !.ready = ready2]
<1>1. /\ s.reqs[t] \in Seq(Mutexes) /\ u \in Mutexes /\ s.mq[u] \in Seq(Threads)
      /\ Member(u, s.reqs[t]) /\ s.ready \in Seq(Threads) /\ s.reqs \in [Threads -> Seq(Mutexes)]
      /\ s.owner \in [Mutexes -> Threads] /\ s.mq \in [Mutexes -> Seq(Threads)]
      /\ s.st \in [Threads -> States]
  <2>1. s.reqs[t] \in Seq(Mutexes)
    BY DEF State
  <2>2. u \in Mutexes
    BY <2>1
  <2> QED
    BY <2>1, <2>2 DEF State, Member
<1>2. /\ rest \in Seq(Threads) /\ tn \in Threads /\ Member(tn, s.mq[u])
      /\ \A y : Member(y, rest) => Member(y, s.mq[u])
      /\ \A y : Member(y, s.mq[u]) => Member(y, rest) \/ y = tn
      /\ Once(rest) /\ ~Member(tn, rest)
  BY <1>1, InTail, SMTT(30)
<1>3. /\ removed \in Seq(Mutexes) /\ Once(removed)
      /\ \A v : Member(v, removed) <=> Member(v, s.reqs[t]) /\ v # u
  <2> DEFINE q == s.reqs[t]
  <2>1. q \in Seq(Mutexes) /\ i \in 1 .. Len(q) /\ Once(q)
    BY <1>1
  <2> HIDE DEF q
  <2>2. /\ RemoveAt(q, i) \in Seq(Mutexes) /\ Once(RemoveAt(q, i))
        /\ \A v : Member(v, RemoveAt(q, i)) <=> Member(v, q) /\ v # q[i]
    BY <2>1, InRemoveAt
  <2> QED
    BY <2>2 DEF q
<1>4. Transfer(s, i, t) = Tready(s1, tn)
  BY DEF Transfer
<1> HIDE DEF u, tn, rest, removed
<1>5. told \in [Threads -> Seq(Mutexes)] /\ reqs2 \in [Threads -> Seq(Mutexes)]
  <2>1. told \in [Threads -> Seq(Mutexes)]
    BY <1>1, <1>3
  <2>2. <<u>> \o told[tn] \in Seq(Mutexes)
    BY <1>1, <1>2, <2>1, InCons
  <2> QED
    BY <1>2, <2>1, <2>2
<1>6. owner2 \in [Mutexes -> Threads] /\ mq2 \in [Mutexes -> Seq(Threads)]
  BY <1>1, <1>2
<1>7. st2 \in [Threads -> States] /\ ready2 \in Seq(Threads)
  BY <1>1, <1>2 DEF States
<1>8. \A y \in Threads : y # t => told[y] = s.reqs[y]
  BY <1>1
<1>9. /\ tn # t => reqs2[t] = removed
      /\ \A y \in Threads : y # t => reqs2[y] = IF y = tn /\ rest # <<>> THEN <<u>> \o s.reqs[tn] ELSE s.reqs[y]
  BY <1>1, <1>2, <1>5, <1>8
<1>10. /\ \A v \in Mutexes : owner2[v] = IF v = u THEN tn ELSE s.owner[v]
       /\ \A y \in Threads : st2[y] = IF y = tn THEN "RUN" ELSE s.st[y]
       /\ \A v \in Mutexes : mq2[v] = IF v = u THEN rest ELSE s.mq[v]
  BY <1>1, <1>2
<1> HIDE DEF reqs2, owner2, mq2
<1>11. s1 \in State
  BY <1>5, <1>6 DEF State
<1>12. /\ s1.panic = s.panic /\ s1.st = s.st /\ s1.ready = s.ready
       /\ s1.locked = s.locked /\ s1.cq = s.cq /\ s1.nwake = s.nwake /\ s1.ev = s.ev
       /\ s1.det = s.det /\ s1.joiner = s.joiner /\ s1.runq = s.runq /\ s1.x = s.x
       /\ s1.owner = owner2 /\ s1.mq = mq2 /\ s1.reqs = reqs2
  BY DEF State
<1> HIDE DEF s1
<1>13. /\ s.panic = "no" /\ s.st[tn] # "RUN" /\ tn # t
       /\ Transfer(s, i, t) = [s1 EXCEPT !.st[tn] = "RUN", !.ready = Append(@, tn)]
  <2>1. Tready(s1, tn).panic = "no"
    BY <1>4
  <2>2. /\ s1.panic = "no" /\ s1.st[tn] # "RUN"
        /\ Tready(s1, tn) = [s1 EXCEPT !.st[tn] = "RUN", !.ready = Append(@, tn)]
    BY <1>2, <1>11, <2>1, TreadyEffect
  <2> QED
    BY <1>4, <1>12, <2>2
<1>14. Transfer(s, i, t) = s2
  BY <1>12, <1>13
<1> HIDE DEF st2, ready2
<1>15. s2 \in State
  BY <1>7, <1>11 DEF State
<1>16. /\ s2.locked = s.locked /\ s2.cq = s.cq /\ s2.nwake = s.nwake /\ s2.ev = s.ev
       /\ s2.det = s.det /\ s2.joiner = s.joiner /\ s2.runq = s.runq /\ s2.x = s.x
       /\ s2.owner = owner2 /\ s2.mq = mq2 /\ s2.reqs = reqs2 /\ s2.st = st2 /\ s2.ready = ready2
  BY <1>11, <1>12 DEF State
<1> HIDE DEF s2
<1>17. /\ \A y : Member(y, ready2) <=> Member(y, s.ready) \/ y = tn
       /\ Once(s.ready) /\ ~Member(tn, s.ready) => Once(ready2)
  BY <1>1, <1>2, InAppend, SMTT(30) DEF ready2
<1>18. /\ \A v : Member(v, <<u>> \o s.reqs[tn]) <=> Member(v, s.reqs[tn]) \/ v = u
       /\ Once(s.reqs[tn]) /\ ~Member(u, s.reqs[tn]) => Once(<<u>> \o s.reqs[tn])
  <2>1. s.reqs[tn] \in Seq(Mutexes)
    BY <1>1, <1>2
  <2> QED
    BY <1>1, <2>1, InCons, SMTT(30)
<1>19. /\ \A y \in Threads, v \in Mutexes : Member(v, reqs2[y]) <=>
            \/ Member(v, s.reqs[y]) /\ ~(y = t /\ v = u)
            \/ y = tn /\ v = u /\ rest # <<>>
       /\ \A y \in Threads : Once(s.reqs[y]) /\ (y = tn => ~Member(u, s.reqs[tn])) => Once(reqs2[y])
  BY <1>3, <1>9, <1>13, <1>18
<1>20. Transferred(s, s2, u, t, tn)
  <2>1. s2.mq[u] = rest
    BY <1>1, <1>10, <1>16
  <2> QED
    BY <2>1, <1>1, <1>2, <1>10, <1>13, <1>15, <1>16, <1>17, <1>19, ZenonT(30) DEF Transferred
<1> QED
  BY <1>1, <1>9, <1>13, <1>14, <1>16, <1>20 DEF u, tn, removed

LEMMA TransferMid ==
    ASSUME NEW s, NEW s2, NEW h, NEW V, NEW R, NEW t \in Threads, NEW w, NEW u \in Mutexes, NEW tn,
           w # "RUN", Mid(s, h, V, R, t, w), Transferred(s, s2, u, t, tn),
           Member(u, s.reqs[t]), ~s.locked[u]
    PROVE  Mid(s2, h, V, R, t, w) /\ Carried(s, s2, h, V, R, t, w)
<1> DEFINE T == [s.st EXCEPT ![t] = w]
           T2 == [s2.st EXCEPT ![t] = w]
<1>1. s \in State /\ s2 \in State /\ s.st[t] = "RUN" /\ s2.st[t] = "RUN" /\ tn \in Threads /\ tn # t
  BY DEF Mid, Good, Transferred
<1>2. \A y \in Threads : T2[y] = IF y = tn THEN "RUN" ELSE T[y]
  BY <1>1 DEF Transferred, State
<1> HIDE DEF T, T2
<1>3. Good(s, T, h, V, R, t)
  BY DEF Mid, T
<1>4. /\ T[tn] = "MUTEX" /\ Member(tn, s.mq[u]) /\ ~Member(tn, s.ready) /\ ~Member(tn, s.runq)
      /\ s.owner[u] = t /\ ~Member(t, s.ready) /\ ~Member(t, s.runq)
  <2>1. T[t] = w
    BY <1>1 DEF T, State
  <2> QED
    BY <1>1, <1>3, <2>1 DEF Good, Queues, Requests, Transferred
<1>5. Queues(s2, T2)
  BY <1>1, <1>2, <1>3, <1>4 DEF Good, Queues, Joins, Transferred
<1>6. Reasons(s2, T2, h)
  BY <1>1, <1>2, <1>3, <1>4 DEF Good, Reasons, Joins, Transferred
<1>7. Requests(s2, T2, t)
  BY <1>1, <1>2, <1>3, <1>4 DEF Good, Requests, Transferred
<1>8. Locks(s2, h, V)
  BY <1>1, <1>3, <1>4 DEF Good, Locks, Transferred
<1>9. Copies(s2, h, V, R)
  BY <1>1, <1>3, <1>4 DEF Good, Copies, Transferred
<1>10. Kids(s2, T2, h, V, R)
  BY <1>1, <1>2, <1>3, <1>4 DEF Good, Kids, Transferred
<1>11. ASSUME Lost(s, T, h, V) PROVE Lost(s2, T2, h, V)
  <2>1. \A v \in Mutexes : s2.mq[v] # <<>> => Member(v, s2.reqs[s2.owner[v]])
    <3> SUFFICES ASSUME NEW v \in Mutexes, s2.mq[v] # <<>> PROVE Member(v, s2.reqs[s2.owner[v]])
      OBVIOUS
    <3>1. CASE v = u
      BY <3>1, <1>1 DEF Transferred
    <3>2. CASE v # u
      <4>1. s2.mq[v] = s.mq[v] /\ s2.owner[v] = s.owner[v] /\ s.owner[v] \in Threads
        BY <1>1, <3>2 DEF Transferred, State
      <4> QED
        BY <4>1, <3>2, <1>1, <1>11 DEF Lost, Transferred
    <3> QED
      BY <3>1, <3>2
  <2>2. ASSUME NEW v \in Mutexes
        PROVE  (IF Member(s2.owner[v], s2.runq) THEN V[s2.owner[v]].locked[v] ELSE s2.locked[v])
                 => v \in h[s2.owner[v]].holds
    BY <1>1, <1>4, <1>11 DEF Lost, Transferred
  <2>3. \A y \in Threads : T2[y] \in {"EXIT", "FREE"} => h[y].holds = {}
    BY <1>2, <1>11 DEF Lost
  <2> QED
    BY <2>1, <2>2, <2>3 DEF Lost
<1>12. \A n : Data(s, V, R, n) => Data(s2, V, R, n)
  BY <1>1, <1>4, DSchedAssumption DEF Data, Transferred
<1>13. s2.runq = s.runq
  BY DEF Transferred
<1> QED
  BY <1>1, <1>3, <1>5, <1>6, <1>7, <1>8, <1>9, <1>10, <1>11, <1>12, <1>13 DEF Mid, Good, Carried, T, T2

LEMMA TransferSame ==
    ASSUME NEW s, NEW i, NEW t, {"panic", "x"} \subseteq DOMAIN s
    PROVE  Same(s, Transfer(s, i, t))
<1> DEFINE u == s.reqs[t][i]
           tn == Head(s.mq[u])
           rest == Tail(s.mq[u])
           told == [s.reqs EXCEPT ![t] = RemoveAt(@, i)]
           reqs2 == IF rest = <<>> THEN told ELSE [told EXCEPT ![tn] = <<u>> \o @]
           s1 == [s EXCEPT !.owner[u] = tn, !.mq[u] = rest, !.reqs = reqs2]
<1>1. Transfer(s, i, t) = Tready(s1, tn)
  BY DEF Transfer
<1> HIDE DEF u, tn, rest, reqs2
<1>2. DOMAIN s1 = DOMAIN s /\ s1.x = s.x /\ s1.panic = s.panic
  OBVIOUS
<1> HIDE DEF s1
<1> QED
  BY <1>1, <1>2 DEF Same, Tready, Fail

ReqAfter(s, t) ==
    CHOOSE f : f = [k \in 0 .. Len(s.reqs[t]) |-> IF k = 0 THEN [s |-> s, mp |-> 1] ELSE MutexReq(f[k - 1], t)]

LEMMA ReqAfterDef ==
    ASSUME NEW s, NEW t, s.reqs[t] \in Seq(Mutexes)
    PROVE  /\ MutexReqs(s, t) = ReqAfter(s, t)[Len(s.reqs[t])].s
           /\ ReqAfter(s, t)[0] = [s |-> s, mp |-> 1]
           /\ \A k \in 1 .. Len(s.reqs[t]) : ReqAfter(s, t)[k] = MutexReq(ReqAfter(s, t)[k - 1], t)
<1> DEFINE n == Len(s.reqs[t])
           b == [s |-> s, mp |-> 1]
           S == {j \in 0 .. n : \E f : f = [k \in 0 .. j |-> IF k = 0 THEN b ELSE MutexReq(f[k - 1], t)]}
<1>1. n \in Nat
  OBVIOUS
<1>2. MutexReqs(s, t) = ReqAfter(s, t)[n].s
  BY DEF MutexReqs, ReqAfter
<1> HIDE DEF b
<1>3. 0 \in S
  <2> DEFINE f == [k \in 0 .. 0 |-> b]
  <2>1. f = [k \in 0 .. 0 |-> IF k = 0 THEN b ELSE MutexReq(f[k - 1], t)]
    OBVIOUS
  <2> HIDE DEF f
  <2> QED
    BY <1>1, <2>1
<1>4. ASSUME NEW j \in 0 .. n - 1, j \in S PROVE j + 1 \in S
  <2>1. PICK f : f = [k \in 0 .. j |-> IF k = 0 THEN b ELSE MutexReq(f[k - 1], t)]
    BY <1>4
  <2> DEFINE g == [k \in 0 .. j + 1 |-> IF k = j + 1 THEN MutexReq(f[j], t) ELSE f[k]]
  <2>2. ASSUME NEW k \in 0 .. j + 1
        PROVE  g[k] = IF k = 0 THEN b ELSE MutexReq(g[k - 1], t)
    <3>1. CASE k = j + 1
      BY <1>1, <3>1
    <3>2. CASE k # j + 1
      <4>1. k \in 0 .. j /\ (k # 0 => k - 1 \in 0 .. j /\ k - 1 # j + 1)
        BY <1>1, <3>2
      <4>2. f[k] = IF k = 0 THEN b ELSE MutexReq(f[k - 1], t)
        BY <2>1, <4>1
      <4>3. g[k] = f[k] /\ (k # 0 => g[k - 1] = f[k - 1])
        BY <1>1, <3>2, <4>1
      <4> QED
        BY <4>2, <4>3
    <3> QED
      BY <3>1, <3>2
  <2>3. g = [k \in 0 .. j + 1 |-> IF k = 0 THEN b ELSE MutexReq(g[k - 1], t)]
    BY <2>2, Zenon
  <2> HIDE DEF g
  <2> QED
    BY <1>1, <2>3
<1>5. n \in S
  <2>1. 0 \in S /\ \A k \in 0 .. n - 1 : k \in S => k + 1 \in S
    BY <1>3, <1>4
  <2> HIDE DEF S
  <2>2. \A k \in 0 .. n : k \in S
    BY <1>1, <2>1, Induction
  <2> QED
    BY <1>1, <2>2
<1>6. \E f : f = [k \in 0 .. n |-> IF k = 0 THEN b ELSE MutexReq(f[k - 1], t)]
  BY <1>5
<1>7. ReqAfter(s, t) = [k \in 0 .. n |-> IF k = 0 THEN b ELSE MutexReq(ReqAfter(s, t)[k - 1], t)]
  BY <1>6 DEF ReqAfter, b
<1>8. ReqAfter(s, t)[0] = b
  BY <1>1, <1>7
<1>9. \A k \in 1 .. n : ReqAfter(s, t)[k] = MutexReq(ReqAfter(s, t)[k - 1], t)
  BY <1>1, <1>7
<1> QED
  BY <1>2, <1>8, <1>9 DEF b

LEMMA MutexReqSame ==
    ASSUME NEW a, NEW t, DOMAIN a = {"s", "mp"}, {"panic", "x"} \subseteq DOMAIN a.s
    PROVE  DOMAIN MutexReq(a, t) = {"s", "mp"} /\ Same(a.s, MutexReq(a, t).s)
<1>1. Same(a.s, Transfer(a.s, a.mp, t)) /\ Same(a.s, a.s)
  BY TransferSame DEF Same
<1> QED
  BY <1>1 DEF MutexReq

(* The rounds of mutexreqs, whatever they meet. *)
LEMMA MutexReqsSame ==
    ASSUME NEW s, NEW t, {"panic", "x"} \subseteq DOMAIN s, s.reqs[t] \in Seq(Mutexes)
    PROVE  /\ Same(s, MutexReqs(s, t))
           /\ \A k \in 0 .. Len(s.reqs[t]) :
                DOMAIN ReqAfter(s, t)[k] = {"s", "mp"} /\ Same(s, ReqAfter(s, t)[k].s)
<1> DEFINE n == Len(s.reqs[t])
           a == ReqAfter(s, t)
           S == {k \in 0 .. n : DOMAIN a[k] = {"s", "mp"} /\ Same(s, a[k].s)}
<1>1. /\ MutexReqs(s, t) = a[n].s /\ a[0] = [s |-> s, mp |-> 1] /\ n \in Nat
      /\ \A k \in 1 .. n : a[k] = MutexReq(a[k - 1], t)
  BY ReqAfterDef
<1> HIDE DEF a
<1>2. 0 \in S
  BY <1>1 DEF Same
<1>3. ASSUME NEW k \in 0 .. n - 1, k \in S PROVE k + 1 \in S
  <2>1. k + 1 \in 1 .. n /\ k + 1 \in 0 .. n /\ (k + 1) - 1 = k
    BY <1>1
  <2>2. a[k + 1] = MutexReq(a[k], t)
    BY <1>1, <2>1
  <2>3. DOMAIN a[k] = {"s", "mp"} /\ Same(s, a[k].s)
    BY <1>3
  <2>4. DOMAIN a[k + 1] = {"s", "mp"} /\ Same(a[k].s, a[k + 1].s)
    <3>1. {"panic", "x"} \subseteq DOMAIN a[k].s
      BY <2>3 DEF Same
    <3> QED
      BY <2>2, <2>3, <3>1, MutexReqSame
  <2>5. Same(s, a[k + 1].s)
    BY <2>3, <2>4 DEF Same
  <2> QED
    BY <2>1, <2>4, <2>5
<1>4. \A k \in 0 .. n : DOMAIN a[k] = {"s", "mp"} /\ Same(s, a[k].s)
  <2>1. 0 \in S /\ \A k \in 0 .. n - 1 : k \in S => k + 1 \in S
    BY <1>2, <1>3
  <2>2. \A k \in 0 .. n : k \in S
    <3> HIDE DEF S
    <3> QED BY <1>1, <2>1, Induction
  <2> QED
    BY <2>2
<1> QED
  BY <1>1, <1>4 DEF a

LEMMA MutexReqsMid ==
    ASSUME NEW s, NEW h, NEW V, NEW R, NEW t \in Threads, NEW w, w # "RUN",
           Mid(s, h, V, R, t, w), MutexReqs(s, t).panic = "no"
    PROVE  LET s2 == MutexReqs(s, t)
           IN  /\ Mid(s2, h, V, R, t, w) /\ Carried(s, s2, h, V, R, t, w)
               /\ s2.ev = s.ev /\ s2.nwake = s.nwake
               /\ \A u \in Mutexes : Member(u, s2.reqs[t]) => s2.locked[u]
<1> DEFINE n == Len(s.reqs[t])
           a(k) == ReqAfter(s, t)[k]
           P(k) == a(k).s.panic = "no" =>
                     /\ Mid(a(k).s, h, V, R, t, w) /\ Carried(s, a(k).s, h, V, R, t, w)
                     /\ a(k).s.ev = s.ev /\ a(k).s.nwake = s.nwake
                     /\ a(k).mp \in Nat \ {0} /\ Len(a(k).s.reqs[t]) = (n - k) + (a(k).mp - 1)
                     /\ \A i \in 1 .. a(k).mp - 1 : a(k).s.locked[a(k).s.reqs[t][i]]
           S == {k \in 0 .. n : P(k)}
<1>1. s \in State /\ s.reqs[t] \in Seq(Mutexes) /\ n \in Nat /\ {"panic", "x"} \subseteq DOMAIN s
  BY DEF Mid, Good, State
<1>2. /\ MutexReqs(s, t) = a(n).s /\ a(0) = [s |-> s, mp |-> 1]
      /\ \A k \in 1 .. n : a(k) = MutexReq(a(k - 1), t)
  BY <1>1, ReqAfterDef
<1>3. \A k \in 0 .. n : DOMAIN a(k) = {"s", "mp"} /\ Same(s, a(k).s)
  BY <1>1, MutexReqsSame
<1> HIDE DEF a
<1>4. P(0)
  BY <1>1, <1>2 DEF Carried
<1>5. ASSUME NEW k \in 0 .. n - 1, P(k) PROVE P(k + 1)
  <2> DEFINE b == a(k)
             c == a(k + 1)
             q == b.s.reqs[t]
             u == q[b.mp]
  <2> SUFFICES ASSUME c.s.panic = "no"
               PROVE  /\ Mid(c.s, h, V, R, t, w) /\ Carried(s, c.s, h, V, R, t, w)
                      /\ c.s.ev = s.ev /\ c.s.nwake = s.nwake
                      /\ c.mp \in Nat \ {0} /\ Len(c.s.reqs[t]) = (n - (k + 1)) + (c.mp - 1)
                      /\ \A i \in 1 .. c.mp - 1 : c.s.locked[c.s.reqs[t][i]]
    OBVIOUS
  <2>1. c = MutexReq(b, t) /\ DOMAIN b = {"s", "mp"} /\ {"panic", "x"} \subseteq DOMAIN b.s
    <3>1. k + 1 \in 1 .. n /\ k \in 0 .. n /\ (k + 1) - 1 = k
      BY <1>1
    <3>2. a(k + 1) = MutexReq(a((k + 1) - 1), t)
      BY <1>2, <3>1
    <3> QED
      BY <1>1, <1>3, <3>1, <3>2 DEF Same
  <2>2. P(k)
    BY <1>5
  <2> HIDE DEF b, c, P
  <2>3. b.s.panic = "no"
    BY <2>1, MutexReqSame DEF Same
  <2>4. /\ Mid(b.s, h, V, R, t, w) /\ Carried(s, b.s, h, V, R, t, w)
        /\ b.s.ev = s.ev /\ b.s.nwake = s.nwake
        /\ b.mp \in Nat \ {0} /\ Len(b.s.reqs[t]) = (n - k) + (b.mp - 1)
        /\ \A i \in 1 .. b.mp - 1 : b.s.locked[q[i]]
    BY <2>2, <2>3 DEF P, b
  <2>5. /\ b.s \in State /\ b.s.st[t] = "RUN" /\ Once(q) /\ q \in Seq(Mutexes)
        /\ \A v \in Mutexes : Member(v, q) => b.s.mq[v] # <<>>
        /\ \A v \in Mutexes : Once(b.s.mq[v])
    <3>1. b.s \in State /\ b.s.st[t] = "RUN"
      BY <2>4 DEF Mid, Good
    <3>2. q \in Seq(Mutexes)
      BY <3>1 DEF State
    <3> QED
      BY <3>1, <3>2, <2>4 DEF Mid, Good, Queues, Requests
  <2>6. b.mp \in 1 .. Len(q) /\ u \in Mutexes /\ Member(u, q)
    <3>1. b.mp \in 1 .. Len(q)
      BY <1>1, <2>4
    <3> QED
      BY <3>1, <2>5 DEF Member
  <2>7. CASE b.s.locked[u]
    <3>1. c = [b EXCEPT !.mp = @ + 1]
      BY <2>1, <2>7 DEF MutexReq
    <3>2. c.s = b.s /\ c.mp = b.mp + 1
      BY <2>1, <3>1
    <3>3. c.mp \in Nat \ {0} /\ Len(q) = (n - (k + 1)) + (c.mp - 1)
      <4>1. Len(q) = (n - k) + (b.mp - 1)
        BY <2>4
      <4> HIDE DEF n, q
      <4> QED
        BY <1>1, <2>4, <3>2, <4>1
    <3>4. \A i \in 1 .. c.mp - 1 : i = b.mp \/ i \in 1 .. b.mp - 1
      BY <2>4, <3>2
    <3>5. \A i \in 1 .. c.mp - 1 : b.s.locked[q[i]]
      BY <2>4, <2>7, <3>4
    <3> QED
      BY <3>2, <3>3, <3>5, <2>4
  <2>8. CASE ~b.s.locked[u]
    <3> DEFINE s2 == Transfer(b.s, b.mp, t)
    <3>1. c = [b EXCEPT !.s = s2]
      BY <2>1, <2>8 DEF MutexReq
    <3>2. c.s = s2 /\ c.mp = b.mp /\ s2.panic = "no"
      BY <2>1, <3>1
    <3> HIDE DEF s2
    <3>3. Transferred(b.s, s2, u, t, Head(b.s.mq[u])) /\ s2.reqs[t] = RemoveAt(q, b.mp)
      BY <2>5, <2>6, <3>2, TransferEffect DEF s2
    <3>4. Mid(s2, h, V, R, t, w) /\ Carried(b.s, s2, h, V, R, t, w)
      BY <2>4, <2>6, <2>8, <3>3, TransferMid
    <3>5. Carried(s, s2, h, V, R, t, w)
      BY <2>4, <3>4 DEF Carried
    <3>6. /\ Len(RemoveAt(q, b.mp)) = Len(q) - 1
          /\ \A i \in 1 .. b.mp - 1 : RemoveAt(q, b.mp)[i] = q[i]
      <4> HIDE DEF q
      <4> QED
        BY <2>5, <2>6, InRemoveAt
    <3>7. s2.ev = b.s.ev /\ s2.nwake = b.s.nwake /\ s2.locked = b.s.locked
      BY <3>3 DEF Transferred
    <3>8. c.s.reqs[t] = RemoveAt(q, b.mp) /\ c.mp \in Nat \ {0}
      BY <2>4, <3>2, <3>3
    <3>9. Len(c.s.reqs[t]) = (n - (k + 1)) + (c.mp - 1)
      BY <1>1, <2>4, <3>2, <3>6, <3>8, SMTT(30)
    <3>10. \A i \in 1 .. c.mp - 1 : c.s.locked[c.s.reqs[t][i]]
      BY <2>4, <3>2, <3>6, <3>7, <3>8
    <3> QED
      BY <2>4, <3>2, <3>4, <3>5, <3>7, <3>8, <3>9, <3>10
  <2> QED
    BY <2>7, <2>8
<1>6. P(n)
  <2>1. 0 \in S /\ \A k \in 0 .. n - 1 : k \in S => k + 1 \in S
    BY <1>1, <1>4, <1>5
  <2>2. \A k \in 0 .. n : k \in S
    <3> HIDE DEF S
    <3> QED BY <1>1, <2>1, Induction
  <2>3. n \in S
    <3> HIDE DEF S
    <3> QED BY <1>1, <2>2
  <2> HIDE DEF P
  <2> QED
    BY <2>3
<1>7. \A u \in Mutexes : Member(u, a(n).s.reqs[t]) => a(n).s.locked[u]
  BY <1>1, <1>2, <1>6 DEF Member
<1> QED
  BY <1>1, <1>2, <1>6, <1>7

(* tevents *)
LEMMA TeventsMid ==
    ASSUME NEW s, NEW h, NEW V, NEW R, NEW t \in Threads, NEW w, w # "RUN",
           Mid(s, h, V, R, t, w), \A c \in Conds : s.nwake[c] # 0 => Member(c, s.ev),
           Tevents(s, t).panic = "no"
    PROVE  LET s2 == Tevents(s, t)
           IN  /\ Mid(s2, h, V, R, t, w) /\ Carried(s, s2, h, V, R, t, w)
               /\ s2.ev = <<>> /\ \A c \in Conds : s2.nwake[c] = 0
               /\ \A u \in Mutexes : Member(u, s2.reqs[t]) => s2.locked[u]
<1> DEFINE s1 == CondWakeups(s)
           s2 == MutexReqs(s1, t)
<1>1. Tevents(s, t) = s2
  BY DEF Tevents
<1>2. /\ s \in State /\ s.ev \in Seq(Conds) /\ {"panic", "x", "reqs"} \subseteq DOMAIN s
      /\ s.reqs[t] \in Seq(Mutexes)
  BY DEF Mid, Good, State
<1>3. Same(s, s1) /\ s1.reqs = s.reqs /\ {"panic", "x"} \subseteq DOMAIN s1 /\ s1.reqs[t] \in Seq(Mutexes)
  BY <1>2, CondWakeupsSame DEF Same, State
<1> HIDE DEF s1
<1>4. s1.panic = "no"
  BY <1>1, <1>3, MutexReqsSame DEF Same
<1>5. /\ Mid(s1, h, V, R, t, w) /\ Carried(s, s1, h, V, R, t, w)
      /\ s1.ev = <<>> /\ \A c \in Conds : s1.nwake[c] = 0
  BY <1>4, CondWakeupsMid DEF s1
<1>6. /\ Mid(s2, h, V, R, t, w) /\ Carried(s1, s2, h, V, R, t, w)
      /\ s2.ev = s1.ev /\ s2.nwake = s1.nwake
      /\ \A u \in Mutexes : Member(u, s2.reqs[t]) => s2.locked[u]
  BY <1>1, <1>5, MutexReqsMid
<1> HIDE DEF s2
<1> QED
  BY <1>1, <1>5, <1>6 DEF Carried

(* tevents, whatever it meets. *)
LEMMA TeventsSame ==
    ASSUME NEW s \in State, NEW t \in Threads
    PROVE  Same(s, Tevents(s, t))
<1>1. /\ s.ev \in Seq(Conds) /\ {"panic", "x", "reqs"} \subseteq DOMAIN s
      /\ s.reqs[t] \in Seq(Mutexes)
  BY DEF State
<1> DEFINE s1 == CondWakeups(s)
<1>2. Same(s, s1) /\ s1.reqs = s.reqs /\ {"panic", "x"} \subseteq DOMAIN s1 /\ s1.reqs[t] \in Seq(Mutexes)
  BY <1>1, CondWakeupsSame DEF Same
<1> HIDE DEF s1
<1>3. Same(s1, MutexReqs(s1, t))
  BY <1>2, MutexReqsSame
<1> QED
  BY <1>2, <1>3 DEF Same, Tevents, s1

-----------------------------------------------------------------------------
(* The two ways in which the master leaves a thread: mret and tblock *)

(* The threads other than t that are in their slices are on the run queue of s. *)
Others(s, h, t) == \A y \in Threads : y # t /\ h[y].stage \in InChild => Member(y, s.runq)

Signalled(s) == \A c \in Conds : s.nwake[c] # 0 => Member(c, s.ev)

(* The end of mret, and that of a preempted thread in the scheduler's loop. *)
Restarts(t, s, self) ==
    StartSlice(t, Trun(s, t)) /\ th' = [self EXCEPT ![t].stage = "user"] /\ total' = total

LEMMA SliceRest ==
    ASSUME NEW t \in Threads, NEW s, NEW self,
           view \in [Threads -> State], ref \in [Threads -> State],
           Mid(s, self, view, ref, t, "OFF"), Signalled(s), Others(s, self, t),
           Restarts(t, s, self), m'.panic = "no"
    PROVE  /\ Rest'
           /\ Lost(s, [s.st EXCEPT ![t] = "OFF"], self, view) => Lost(m, m.st, th, view)'
           /\ Data(s, view, ref, total) => Data(m, view, ref, total)'
<1> DEFINE s1 == Tevents(s, t)
           T == [s1.st EXCEPT ![t] = "OFF"]
           q == Append(s1.runq, t)
<1>1. /\ m' = [s1 EXCEPT !.runq = q] /\ view' = [view EXCEPT ![t] = m'] /\ ref' = [ref EXCEPT ![t] = m']
      /\ th' = [self EXCEPT ![t].stage = "user"] /\ total' = total
  BY DEF Restarts, StartSlice, Trun
<1>2. s \in State
  BY DEF Mid, Good
<1>3. s1.panic = "no"
  <2>1. "panic" \in DOMAIN s1
    BY <1>2, TeventsSame DEF Same, State
  <2> HIDE DEF s1
  <2> QED
    BY <1>1, <2>1
<1>4. /\ Mid(s1, self, view, ref, t, "OFF") /\ Carried(s, s1, self, view, ref, t, "OFF")
      /\ s1.ev = <<>> /\ \A c \in Conds : s1.nwake[c] = 0
  <2>1. \A c \in Conds : s.nwake[c] # 0 => Member(c, s.ev)
    BY DEF Signalled
  <2> QED
    BY <1>3, <2>1, "OFF" # "RUN", TeventsMid, ZenonT(30)
<1> HIDE DEF s1
<1>5. Good(s1, T, self, view, ref, t) /\ s1 \in State /\ s1.st[t] = "RUN" /\ T[t] = "OFF" /\ self[t] \in Thread
  <2>1. s1 \in State /\ ThreadsOK(self)
    BY <1>4 DEF Mid, Good
  <2> QED
    BY <1>4, <2>1 DEF Mid, State, ThreadsOK
<1>6. \A y \in Threads : y # t => T[y] = s1.st[y]
  BY <1>5 DEF State
<1> HIDE DEF T
<1>7. ~Member(t, s1.runq) /\ ~Member(t, s1.ready)
  BY <1>5 DEF Good, Queues
<1>8. q \in Seq(Threads) /\ (\A y : Member(y, q) <=> Member(y, s1.runq) \/ y = t) /\ (Once(s1.runq) => Once(q))
  BY <1>5, <1>7, InAppend DEF State
<1> HIDE DEF q
<1>9. /\ m' \in State /\ m'.runq = q /\ m'.ev = <<>> /\ m'.nwake = s1.nwake /\ m'.panic = "no"
      /\ m'.owner = s1.owner /\ m'.locked = s1.locked /\ m'.mq = s1.mq /\ m'.reqs = s1.reqs
      /\ m'.cq = s1.cq /\ m'.st = s1.st /\ m'.det = s1.det /\ m'.joiner = s1.joiner
      /\ m'.ready = s1.ready /\ m'.x = s1.x
  BY <1>1, <1>3, <1>4, <1>5, <1>8 DEF State
<1>10. /\ \A y \in Threads : y # t => view'[y] = view[y] /\ ref'[y] = ref[y] /\ th'[y] = self[y]
       /\ view'[t] = m' /\ ref'[t] = m' /\ th' \in [Threads -> Thread]
       /\ th'[t].stage = "user" /\ th'[t].kids = self[t].kids /\ th'[t].holds = self[t].holds
       /\ th'[t].prog = self[t].prog /\ th'[t].pc = self[t].pc
  <2>1. self \in [Threads -> Thread]
    BY <1>5 DEF Good, ThreadsOK
  <2> QED
    BY <1>1, <1>5, <2>1 DEF Thread, Stages
<1>11. view' \in [Threads -> State] /\ ref' \in [Threads -> State]
  BY <1>1, <1>9
<1>12. ThreadsOK(th')
  BY <1>5, <1>10 DEF Good, ThreadsOK
<1>13. Queues(m', m'.st)
  BY <1>5, <1>6, <1>7, <1>8, <1>9 DEF Good, Queues, Joins
<1>14. Reasons(m', m'.st, th')
  <2>1. \A y \in Threads : y # t => OpOf(th', y) = OpOf(self, y)
    BY <1>10 DEF OpOf
  <2>2. \A y \in Threads : y # t => \A u \in Mutexes : Locking(th', y, u) <=> Locking(self, y, u)
    BY <1>10, <2>1 DEF Locking
  <2>3. /\ \A u \in Mutexes : ~Member(t, s1.mq[u])
        /\ \A c \in Conds : ~Member(t, s1.cq[c])
        /\ \A j \in Threads : ~Joins(s1, T, t, j)
    BY <1>5 DEF Good, Queues
  <2>4. \A y, j \in Threads : Joins(m', m'.st, y, j) => Joins(s1, T, y, j)
    BY <1>5, <1>6, <1>9 DEF Joins
  <2>5. Reasons(s1, T, self)
    BY <1>5 DEF Good
  <2>6. \A y \in Threads : Member(y, m'.runq) => th'[y].stage \in InChild
    BY <2>5, <1>8, <1>9, <1>10 DEF Reasons, InChild
  <2>7. ASSUME NEW y \in Threads, Member(y, m'.ready)
        PROVE  \/ th'[y].stage = "new"
               \/ th'[y].stage = "blocked" /\ OpOf(th', y).op \in {"await", "join"}
               \/ \E u \in Mutexes : Locking(th', y, u) /\ m'.owner[u] = y /\ ~m'.locked[u]
    BY <2>1, <2>2, <2>5, <2>7, <1>7, <1>9, <1>10 DEF Reasons
  <2>8. \A y \in Threads, u \in Mutexes : Member(y, m'.mq[u]) => Locking(th', y, u)
    BY <2>2, <2>3, <2>5, <1>9 DEF Reasons
  <2>9. \A y \in Threads, c \in Conds : Member(y, m'.cq[c]) =>
          th'[y].stage = "blocked" /\ OpOf(th', y).op = "await"
    BY <2>1, <2>3, <2>5, <1>9, <1>10 DEF Reasons
  <2>10. \A y, j \in Threads : Joins(m', m'.st, y, j) =>
          th'[y].stage = "blocked" /\ OpOf(th', y).op = "join"
    BY <2>1, <2>3, <2>4, <2>5, <1>10 DEF Reasons
  <2> QED
    BY <2>6, <2>7, <2>8, <2>9, <2>10 DEF Reasons
<1>15. Requests(m', m'.st, NoThread)
  BY <1>5, <1>6, <1>9 DEF Good, Requests
<1>16. Locks(m', th', view')
  BY <1>5, <1>7, <1>8, <1>9, <1>10 DEF Good, Locks
<1>17. Copies(m', th', view', ref')
  BY <1>4, <1>5, <1>7, <1>8, <1>9, <1>10 DEF Good, Copies
<1>18. Kids(m', m'.st, th', view', ref')
  <2>1. \A y \in Threads : th'[y].kids = self[y].kids
    BY <1>10
  <2>2. \A y, j \in Threads : Kid(th', y, j) <=> Kid(self, y, j)
    BY <2>1 DEF Kid
  <2>3. \A y, j \in Threads : Freed(view', ref', y, j) => y # t /\ Freed(view, ref, y, j)
    BY <1>10 DEF Freed
  <2>4. Kids(s1, T, self, view, ref)
    BY <1>5 DEF Good
  <2>5. \A y, j \in Threads : Member(y, m'.runq) /\ Freed(view', ref', y, j) =>
          /\ Member(y, s1.runq) /\ Freed(view, ref, y, j)
          /\ view'[y] = view[y] /\ ref'[y] = ref[y]
    BY <2>3, <1>8, <1>9, <1>10
  <2>6. \A j \in Threads : T[j] \in {"EXIT", "FREE"} => T[j] = m'.st[j]
    BY <1>5, <1>6, <1>9
  <2>7. \A j \in Threads : m'.st[j] \in {"EXIT", "FREE"} => T[j] = m'.st[j]
    BY <1>5, <1>6, <1>9
  <2>8. \A y, j \in Threads : Kid(th', y, j) => m'.st[j] # "FREE" /\ ~m'.det[j]
    BY <2>2, <2>4, <2>7, <1>9 DEF Kids
  <2>9. \A y, j \in Threads : Member(y, m'.runq) /\ Freed(view', ref', y, j) =>
          /\ m'.st[j] = "EXIT" /\ ref'[y].st[j] = "EXIT" /\ view'[y].st[j] = "FREE"
          /\ \A z \in Threads : ~Kid(th', z, j)
    BY <2>2, <2>4, <2>5, <2>6 DEF Kids
  <2>10. \A y, j \in Threads :
          Member(y, m'.runq) /\ Kid(th', y, j) /\ ref'[y].st[j] = "EXIT" => m'.st[j] = "EXIT"
    BY <2>2, <2>4, <2>6, <1>8, <1>9, <1>10 DEF Kids
  <2>11. \A y, z, j \in Threads :
          /\ Member(y, m'.runq) /\ Freed(view', ref', y, j)
          /\ Member(z, m'.runq) /\ Freed(view', ref', z, j)
          => y = z
    BY <2>4, <2>5 DEF Kids
  <2>12. \A y, z \in Threads : \A k1 \in DOMAIN th'[y].kids, k2 \in DOMAIN th'[z].kids :
          th'[y].kids[k1] = th'[z].kids[k2] /\ th'[y].kids[k1] # NoThread => y = z /\ k1 = k2
    BY <2>1, <2>4 DEF Kids
  <2> QED
    BY <2>8, <2>9, <2>10, <2>11, <2>12 DEF Kids
<1>19. \A y \in Threads : th'[y].stage \in InChild => Member(y, m'.runq)
  <2>1. s1.runq = s.runq
    BY <1>4 DEF Carried
  <2> QED
    BY <2>1, <1>8, <1>9, <1>10 DEF Others
<1>20. Rest'
  BY <1>4, <1>9, <1>11, <1>12, <1>13, <1>14, <1>15, <1>16, <1>17, <1>18, <1>19 DEF Rest, Good
<1>21. Lost(s1, T, self, view) => Lost(m', m'.st, th', view')
  <2> SUFFICES ASSUME Lost(s1, T, self, view) PROVE Lost(m', m'.st, th', view')
    OBVIOUS
  <2>1. \A u \in Mutexes : m'.mq[u] # <<>> => Member(u, m'.reqs[m'.owner[u]])
    BY <1>9 DEF Lost
  <2>2. ASSUME NEW u \in Mutexes, NEW y, y = m'.owner[u]
        PROVE  (IF Member(y, m'.runq) THEN view'[y].locked[u] ELSE m'.locked[u]) => u \in th'[y].holds
    <3>1. y \in Threads /\ y = s1.owner[u]
      BY <1>5, <1>9, <2>2 DEF State
    <3> QED
      BY <3>1, <1>7, <1>8, <1>9, <1>10 DEF Lost
  <2>3. \A y \in Threads : m'.st[y] \in {"EXIT", "FREE"} => th'[y].holds = {}
    BY <1>5, <1>6, <1>9, <1>10 DEF Lost
  <2> QED
    BY <2>1, <2>2, <2>3 DEF Lost
<1>22. Data(s1, view, ref, total) => Data(m', view', ref', total')
  <2>1. s1.owner[DataMutex] \in Threads
    BY <1>5, DSchedAssumption DEF State
  <2> QED
    BY <2>1, <1>1, <1>7, <1>8, <1>9, <1>10 DEF Data
<1> QED
  BY <1>4, <1>20, <1>21, <1>22 DEF Carried, T

LEMMA BlockRest ==
    ASSUME NEW t \in Threads, NEW s, NEW self, NEW w \in States, w # "RUN",
           view \in [Threads -> State], ref \in [Threads -> State],
           Mid(s, self, view, ref, t, w), Signalled(s), Others(s, self, t),
           self[t].stage \notin InChild, Block(t, s, w, self), m'.panic = "no"
    PROVE  /\ Rest'
           /\ Lost(s, [s.st EXCEPT ![t] = w], self, view) => Lost(m, m.st, th, view)'
           /\ Data(s, view, ref, total) => Data(m, view, ref, total)'
<1> DEFINE s1 == Tevents(s, t)
           T == [s1.st EXCEPT ![t] = w]
<1>1. m' = [s1 EXCEPT !.st = T] /\ view' = view /\ ref' = ref /\ th' = self /\ total' = total
  BY DEF Block, Tblock
<1>2. s \in State
  BY DEF Mid, Good
<1>3. s1.panic = "no"
  <2>1. "panic" \in DOMAIN s1
    BY <1>2, TeventsSame DEF Same, State
  <2> HIDE DEF s1
  <2> QED
    BY <1>1, <2>1
<1>4. /\ Mid(s1, self, view, ref, t, w) /\ Carried(s, s1, self, view, ref, t, w)
      /\ s1.ev = <<>> /\ (\A c \in Conds : s1.nwake[c] = 0)
      /\ \A u \in Mutexes : Member(u, s1.reqs[t]) => s1.locked[u]
  <2>1. \A c \in Conds : s.nwake[c] # 0 => Member(c, s.ev)
    BY DEF Signalled
  <2> QED
    BY <1>3, <2>1, TeventsMid, Zenon
<1> HIDE DEF s1
<1>5. Good(s1, T, self, view, ref, t) /\ s1 \in State /\ T \in [Threads -> States]
  BY <1>4 DEF Mid, Good, State
<1> HIDE DEF T
<1>6. /\ m' \in State /\ m'.runq = s1.runq /\ m'.ev = s1.ev /\ m'.nwake = s1.nwake
      /\ m'.owner = s1.owner /\ m'.locked = s1.locked /\ m'.mq = s1.mq /\ m'.reqs = s1.reqs
      /\ m'.cq = s1.cq /\ m'.st = T /\ m'.det = s1.det /\ m'.joiner = s1.joiner
      /\ m'.ready = s1.ready /\ m'.x = s1.x
  BY <1>1, <1>5 DEF State
<1>7. Queues(m', m'.st) /\ Reasons(m', m'.st, th')
  BY <1>1, <1>5, <1>6 DEF Good, Queues, Reasons, Joins
<1>8. Requests(m', m'.st, NoThread)
  BY <1>4, <1>5, <1>6 DEF Good, Requests
<1>9. Locks(m', th', view') /\ Copies(m', th', view', ref') /\ Kids(m', m'.st, th', view', ref')
  BY <1>1, <1>5, <1>6 DEF Good, Locks, Copies, Kids
<1>10. \A y \in Threads : th'[y].stage \in InChild => Member(y, m'.runq)
  BY <1>1, <1>4, <1>6 DEF Others, Carried
<1>11. Rest'
  BY <1>1, <1>4, <1>5, <1>6, <1>7, <1>8, <1>9, <1>10 DEF Rest, Good
<1>12. Lost(s1, T, self, view) => Lost(m', m'.st, th', view')
  BY <1>1, <1>6 DEF Lost
<1>13. Data(s1, view, ref, total) => Data(m', view', ref', total')
  BY <1>1, <1>6 DEF Data
<1> QED
  BY <1>4, <1>11, <1>12, <1>13 DEF Carried, T

-----------------------------------------------------------------------------
(* How the master comes to a thread: it merges what the thread has done, or takes
   it from the ready queue. *)

LEMMA MergeFields ==
    ASSUME NEW t \in Threads, m \in State, view[t] \in State, ref[t] \in State, m.runq # <<>>
    PROVE  LET s == Merge(t)
           IN  /\ s \in State /\ s.owner = m.owner /\ s.mq = m.mq /\ s.reqs = m.reqs /\ s.cq = m.cq
               /\ s.det = m.det /\ s.joiner = m.joiner /\ s.ready = m.ready /\ s.runq = Tail(m.runq)
               /\ s.panic = view[t].panic
               /\ \A u \in Mutexes : s.locked[u] = IF view[t].locked[u] # ref[t].locked[u]
                                                    THEN view[t].locked[u] ELSE m.locked[u]
               /\ \A c \in Conds : s.nwake[c] = IF view[t].nwake[c] # ref[t].nwake[c]
                                                 THEN view[t].nwake[c] ELSE m.nwake[c]
               /\ \A j \in Threads : s.st[j] = IF Freed(view, ref, t, j) THEN view[t].st[j] ELSE m.st[j]
               /\ s.ev = IF view[t].ev # ref[t].ev THEN view[t].ev ELSE m.ev
               /\ s.x = IF view[t].x # ref[t].x THEN view[t].x ELSE m.x
<1> DEFINE v == view[t]
           r == ref[t]
           locked2 == [u \in Mutexes |-> IF v.locked[u] # r.locked[u] THEN v.locked[u] ELSE m.locked[u]]
           nwake2 == [c \in Conds |-> IF v.nwake[c] # r.nwake[c] THEN v.nwake[c] ELSE m.nwake[c]]
           st2 == [j \in Threads |-> IF v.st[j] # r.st[j] THEN v.st[j] ELSE m.st[j]]
           ev2 == IF v.ev # r.ev THEN v.ev ELSE m.ev
           x2 == IF v.x # r.x THEN v.x ELSE m.x
           s == [m EXCEPT !.locked = locked2, !.nwake = nwake2, !.st = st2, !.ev = ev2, !.x = x2,
                          !.panic = v.panic, !.runq = Tail(@)]
<1>1. Merge(t) = s
  BY DEF Merge
<1>2. /\ v \in State /\ r \in State
      /\ locked2 \in [Mutexes -> BOOLEAN] /\ nwake2 \in [Conds -> 0 .. MAXTHREADS]
      /\ st2 \in [Threads -> States] /\ ev2 \in Seq(Conds) /\ x2 \in Nat /\ v.panic \in Panics
  BY DEF State
<1>3. Tail(m.runq) \in Seq(Threads)
  BY DEF State
<1>4. /\ \A u \in Mutexes : locked2[u] = IF v.locked[u] # r.locked[u] THEN v.locked[u] ELSE m.locked[u]
      /\ \A c \in Conds : nwake2[c] = IF v.nwake[c] # r.nwake[c] THEN v.nwake[c] ELSE m.nwake[c]
      /\ \A j \in Threads : st2[j] = IF Freed(view, ref, t, j) THEN v.st[j] ELSE m.st[j]
  BY DEF Freed
<1> HIDE DEF v, r, locked2, nwake2, st2, ev2, x2
<1>5. s \in State
  BY <1>2, <1>3 DEF State
<1>6. /\ s.owner = m.owner /\ s.mq = m.mq /\ s.reqs = m.reqs /\ s.cq = m.cq
      /\ s.det = m.det /\ s.joiner = m.joiner /\ s.ready = m.ready /\ s.runq = Tail(m.runq)
      /\ s.panic = v.panic /\ s.locked = locked2 /\ s.nwake = nwake2 /\ s.st = st2
      /\ s.ev = ev2 /\ s.x = x2
  BY DEF State
<1> HIDE DEF s
<1>7. s.ev = IF view[t].ev # ref[t].ev THEN view[t].ev ELSE m.ev
  BY <1>6 DEF ev2, v, r
<1>8. s.x = IF view[t].x # ref[t].x THEN view[t].x ELSE m.x
  BY <1>6 DEF x2, v, r
<1> QED
  BY <1>1, <1>4, <1>5, <1>6, <1>7, <1>8, Zenon DEF v, r

LEMMA MergeMid ==
    ASSUME NEW t \in Threads, Rest, m.runq # <<>>, t = Head(m.runq)
    PROVE  LET s == Merge(t)
           IN  /\ Mid(s, th, view, ref, t, "OFF") /\ Signalled(s) /\ Others(s, th, t)
               /\ s.panic = view[t].panic /\ s.owner = m.owner
               /\ Lost(m, m.st, th, view) => Lost(s, [s.st EXCEPT ![t] = "OFF"], th, view)
               /\ Data(m, view, ref, total) => Data(s, view, ref, total)
<1> DEFINE s == Merge(t)
           T == [s.st EXCEPT ![t] = "OFF"]
<1>1. /\ m \in State /\ view[t] \in State /\ ref[t] \in State /\ ThreadsOK(th)
      /\ Queues(m, m.st) /\ Reasons(m, m.st, th) /\ Requests(m, m.st, NoThread) /\ Locks(m, th, view)
      /\ Copies(m, th, view, ref) /\ Kids(m, m.st, th, view, ref)
  BY DEF Rest, Good
<1>2. /\ Member(t, m.runq) /\ ~Member(t, Tail(m.runq)) /\ Once(Tail(m.runq))
      /\ \A y : Member(y, m.runq) <=> Member(y, Tail(m.runq)) \/ y = t
  <2>1. m.runq \in Seq(Threads) /\ Once(m.runq)
    BY <1>1 DEF State, Queues
  <2> QED
    BY <2>1, InTail
<1>3. m.st[t] = "RUN" /\ ~Member(t, m.ready)
  BY <1>1, <1>2 DEF Queues
<1>4. /\ s \in State /\ s.owner = m.owner /\ s.mq = m.mq /\ s.reqs = m.reqs /\ s.cq = m.cq
      /\ s.det = m.det /\ s.joiner = m.joiner /\ s.ready = m.ready /\ s.runq = Tail(m.runq)
      /\ s.panic = view[t].panic
      /\ \A u \in Mutexes : s.locked[u] = IF view[t].locked[u] # ref[t].locked[u]
                                           THEN view[t].locked[u] ELSE m.locked[u]
      /\ \A c \in Conds : s.nwake[c] = IF view[t].nwake[c] # ref[t].nwake[c]
                                        THEN view[t].nwake[c] ELSE m.nwake[c]
      /\ \A j \in Threads : s.st[j] = IF Freed(view, ref, t, j) THEN view[t].st[j] ELSE m.st[j]
      /\ s.ev = IF view[t].ev # ref[t].ev THEN view[t].ev ELSE m.ev
      /\ s.x = IF view[t].x # ref[t].x THEN view[t].x ELSE m.x
  BY <1>1, MergeFields
<1> HIDE DEF s
<1>5. \A u \in Mutexes : s.locked[u] = IF m.owner[u] = t THEN view[t].locked[u] ELSE m.locked[u]
  BY <1>1, <1>2, <1>4 DEF Copies
<1>6. /\ \A j \in Threads : Freed(view, ref, t, j) => s.st[j] = "FREE" /\ m.st[j] = "EXIT" /\ j # t
      /\ \A j \in Threads : ~Freed(view, ref, t, j) => s.st[j] = m.st[j]
  BY <1>1, <1>2, <1>3, <1>4 DEF Kids
<1>7. s.st[t] = "RUN"
  BY <1>3, <1>6
<1>8. /\ T[t] = "OFF" /\ \A j \in Threads : j # t /\ Freed(view, ref, t, j) => T[j] = "FREE"
      /\ \A j \in Threads : j # t /\ ~Freed(view, ref, t, j) => T[j] = m.st[j]
  BY <1>4, <1>6 DEF State
<1> HIDE DEF T
<1>9. Queues(s, T)
  BY <1>1, <1>2, <1>3, <1>4, <1>6, <1>8 DEF Queues, Joins
<1>10. Reasons(s, T, th)
  BY <1>1, <1>2, <1>3, <1>4, <1>5, <1>6, <1>8 DEF Reasons, Joins
<1>11. Requests(s, T, t)
  BY <1>1, <1>4, <1>5, <1>6, <1>8, <1>3, DSchedAssumption DEF Requests, NoThread, Threads
<1>12. Locks(s, th, view)
  BY <1>1, <1>2, <1>4, <1>5 DEF Locks
<1>13. Copies(s, th, view, ref)
  BY <1>1, <1>2, <1>4, <1>5 DEF Copies
<1>14. Kids(s, T, th, view, ref)
  BY <1>1, <1>2, <1>3, <1>4, <1>6, <1>8 DEF Kids
<1>15. Signalled(s)
  <2>1. ref[t].ev = <<>> /\ \A c \in Conds : view[t].nwake[c] # 0 => Member(c, view[t].ev)
    BY <1>1, <1>2 DEF Copies
  <2>2. \A c \in Conds : m.nwake[c] = 0
    BY DEF Rest
  <2>3. ASSUME NEW c \in Conds, s.nwake[c] # 0 PROVE Member(c, s.ev)
    <3>1. s.nwake[c] = view[t].nwake[c] /\ Member(c, view[t].ev)
      BY <1>4, <2>1, <2>2, <2>3
    <3>2. view[t].ev # <<>>
      BY <3>1 DEF Member
    <3> QED
      BY <1>4, <2>1, <3>1, <3>2
  <2> QED
    BY <2>3 DEF Signalled
<1>16. Others(s, th, t)
  BY <1>2, <1>4 DEF Rest, Others
<1>17. ASSUME Lost(m, m.st, th, view) PROVE Lost(s, T, th, view)
  <2>1. \A u \in Mutexes : s.mq[u] # <<>> => Member(u, s.reqs[s.owner[u]])
    BY <1>4, <1>17 DEF Lost
  <2>2. ASSUME NEW u \in Mutexes, NEW y, y = s.owner[u]
        PROVE  (IF Member(y, s.runq) THEN view[y].locked[u] ELSE s.locked[u]) => u \in th[y].holds
    BY <1>2, <1>4, <1>5, <1>17, <2>2 DEF Lost
  <2>3. \A y \in Threads : T[y] \in {"EXIT", "FREE"} => th[y].holds = {}
    BY <1>6, <1>8, <1>17 DEF Lost
  <2> QED
    BY <2>1, <2>2, <2>3 DEF Lost
<1>18. Data(m, view, ref, total) => Data(s, view, ref, total)
  BY <1>1, <1>2, <1>4, DSchedAssumption DEF Data
<1> QED
  BY <1>1, <1>4, <1>7, <1>9, <1>10, <1>11, <1>12, <1>13, <1>14, <1>15, <1>16, <1>17, <1>18
  DEF Mid, Good, T, s

LEMMA DequeuedMid ==
    ASSUME NEW t \in Threads, Rest, m.ready # <<>>, t = Head(m.ready)
    PROVE  LET s == Dequeued
           IN  /\ Mid(s, th, view, ref, t, "OFF") /\ Signalled(s) /\ Others(s, th, t)
               /\ s.panic = m.panic /\ s.owner = m.owner /\ s.locked = m.locked /\ s.st = m.st
               /\ Lost(m, m.st, th, view) => Lost(s, [s.st EXCEPT ![t] = "OFF"], th, view)
               /\ Data(m, view, ref, total) => Data(s, view, ref, total)
<1> DEFINE s == [m EXCEPT !.ready = Tail(@)]
           T == [s.st EXCEPT ![t] = "OFF"]
<1>0. Dequeued = s
  BY DEF Dequeued
<1>1. /\ m \in State /\ ThreadsOK(th)
      /\ Queues(m, m.st) /\ Reasons(m, m.st, th) /\ Requests(m, m.st, NoThread) /\ Locks(m, th, view)
      /\ Copies(m, th, view, ref) /\ Kids(m, m.st, th, view, ref)
  BY DEF Rest, Good
<1>2. /\ Member(t, m.ready) /\ ~Member(t, Tail(m.ready)) /\ Once(Tail(m.ready))
      /\ \A y : Member(y, m.ready) <=> Member(y, Tail(m.ready)) \/ y = t
      /\ Tail(m.ready) \in Seq(Threads)
  BY <1>1, InTail DEF State, Queues
<1>3. m.st[t] = "RUN" /\ ~Member(t, m.runq)
  BY <1>1, <1>2 DEF Queues
<1>4. /\ s \in State /\ s.owner = m.owner /\ s.mq = m.mq /\ s.reqs = m.reqs /\ s.cq = m.cq
      /\ s.det = m.det /\ s.joiner = m.joiner /\ s.ready = Tail(m.ready) /\ s.runq = m.runq
      /\ s.panic = m.panic /\ s.locked = m.locked /\ s.nwake = m.nwake /\ s.st = m.st /\ s.ev = m.ev
      /\ s.x = m.x
  BY <1>1, <1>2 DEF State
<1> HIDE DEF s
<1>5. T[t] = "OFF" /\ \A j \in Threads : j # t => T[j] = m.st[j]
  BY <1>4 DEF State
<1> HIDE DEF T
<1>6. Queues(s, T)
  BY <1>1, <1>2, <1>3, <1>4, <1>5 DEF Queues, Joins
<1>7. Reasons(s, T, th)
  BY <1>1, <1>2, <1>3, <1>4, <1>5 DEF Reasons, Joins
<1>8. Requests(s, T, t) /\ Locks(s, th, view) /\ Copies(s, th, view, ref)
  BY <1>1, <1>4, <1>5, DSchedAssumption DEF Requests, Locks, Copies, NoThread, Threads
<1>9. Kids(s, T, th, view, ref)
  BY <1>1, <1>3, <1>4, <1>5 DEF Kids
<1>10. Signalled(s) /\ Others(s, th, t)
  BY <1>4 DEF Rest, Signalled, Others
<1>11. Lost(m, m.st, th, view) => Lost(s, T, th, view)
  BY <1>4, <1>5 DEF Lost
<1>12. Data(m, view, ref, total) => Data(s, view, ref, total)
  BY <1>4 DEF Data
<1> QED
  BY <1>0, <1>1, <1>3, <1>4, <1>6, <1>7, <1>8, <1>9, <1>10, <1>11, <1>12 DEF Mid, Good, T

-----------------------------------------------------------------------------
(* What the master does with a thread t in between *)

(* s and s2 differ in who owns u and whether it is locked. *)
Touched(s, s2, u) ==
    /\ s2 \in State
    /\ s2.mq = s.mq /\ s2.reqs = s.reqs /\ s2.cq = s.cq /\ s2.nwake = s.nwake /\ s2.ev = s.ev
    /\ s2.st = s.st /\ s2.det = s.det /\ s2.joiner = s.joiner /\ s2.ready = s.ready
    /\ s2.runq = s.runq /\ s2.x = s.x
    /\ \A v \in Mutexes : v # u => s2.owner[v] = s.owner[v] /\ s2.locked[v] = s.locked[v]

(* h and h2 differ in t only. *)
OnlyOf(h, h2, t) == ThreadsOK(h2) /\ \A y \in Threads : y # t => h2[y] = h[y]

LEMMA OnNoQueue ==
    ASSUME NEW s, NEW h, NEW V, NEW R, NEW t \in Threads, Mid(s, h, V, R, t, "OFF")
    PROVE  /\ ~Member(t, s.ready) /\ ~Member(t, s.runq)
           /\ \A u \in Mutexes : ~Member(t, s.mq[u])
           /\ \A c \in Conds : ~Member(t, s.cq[c])
           /\ \A j \in Threads : ~Joins(s, [s.st EXCEPT ![t] = "OFF"], t, j)
<1>1. [s.st EXCEPT ![t] = "OFF"][t] = "OFF"
  BY DEF Mid, Good, State
<1> QED
  BY <1>1 DEF Mid, Good, Queues

(* A thread that is on no queue may be anywhere in its program. *)
LEMMA ElsewhereReasons ==
    ASSUME NEW s, NEW T, NEW h, NEW h2, NEW t \in Threads, OnlyOf(h, h2, t), Reasons(s, T, h),
           ~Member(t, s.ready), ~Member(t, s.runq), \A u \in Mutexes : ~Member(t, s.mq[u]),
           \A c \in Conds : ~Member(t, s.cq[c]), \A j \in Threads : ~Joins(s, T, t, j)
    PROVE  Reasons(s, T, h2)
<1>1. \A y \in Threads : y # t => h2[y] = h[y] /\ OpOf(h2, y) = OpOf(h, y)
  BY DEF OnlyOf, OpOf
<1>2. \A y \in Threads : y # t => \A u \in Mutexes : Locking(h2, y, u) <=> Locking(h, y, u)
  BY <1>1 DEF Locking
<1>3. \A y \in Threads : Member(y, s.ready) =>
         \/ h2[y].stage = "new"
         \/ h2[y].stage = "blocked" /\ OpOf(h2, y).op \in {"await", "join"}
         \/ \E u \in Mutexes : Locking(h2, y, u) /\ s.owner[u] = y /\ ~s.locked[u]
  BY <1>1, <1>2 DEF Reasons
<1>4. \A y \in Threads, u \in Mutexes : Member(y, s.mq[u]) => Locking(h2, y, u)
  BY <1>2 DEF Reasons
<1> QED
  BY <1>1, <1>3, <1>4 DEF Reasons

(* Mutexes: u is t's, or is taken from a thread that is blocked. *)
LEMMA LockMid ==
    ASSUME NEW s, NEW s2, NEW h, NEW h2, NEW V, NEW R, NEW t \in Threads, NEW u \in Mutexes,
           Mid(s, h, V, R, t, "OFF"), Touched(s, s2, u), s2.owner[u] = t, OnlyOf(h, h2, t),
           s.owner[u] # t => ~s.locked[u] /\ s.st[s.owner[u]] # "RUN" /\ s.mq[u] = <<>>,
           h2[t].holds = IF s2.locked[u] THEN h[t].holds \cup {u} ELSE h[t].holds \ {u},
           h2[t].kids = h[t].kids
    PROVE  /\ Mid(s2, h2, V, R, t, "OFF")
           /\ Lost(s, [s.st EXCEPT ![t] = "OFF"], h, V) => Lost(s2, [s2.st EXCEPT ![t] = "OFF"], h2, V)
           /\ \A n : Data(s, V, R, n) => Data(s2, V, R, n)
<1> DEFINE T == [s.st EXCEPT ![t] = "OFF"]
<1>1. /\ s \in State /\ s.st[t] = "RUN" /\ Good(s, T, h, V, R, t) /\ T[t] = "OFF"
      /\ \A y \in Threads : y # t => T[y] = s.st[y]
  BY DEF Mid, Good, State
<1>2. /\ ~Member(t, s.ready) /\ ~Member(t, s.runq)
      /\ \A v \in Mutexes : ~Member(t, s.mq[v])
      /\ \A c \in Conds : ~Member(t, s.cq[c])
      /\ \A j \in Threads : ~Joins(s, T, t, j)
  BY OnNoQueue
<1> HIDE DEF T
<1>3. s.owner[u] \in Threads /\ ~Member(s.owner[u], s.ready) /\ ~Member(s.owner[u], s.runq)
  <2>1. s.owner[u] \in Threads
    BY <1>1 DEF State
  <2>2. CASE s.owner[u] = t
    BY <1>2, <2>1, <2>2
  <2>3. CASE s.owner[u] # t
    BY <1>1, <2>1, <2>3 DEF Good, Queues
  <2> QED
    BY <2>1, <2>2, <2>3
<1>4. Queues(s2, T)
  BY <1>1 DEF Good, Queues, Joins, Touched
<1>5. Reasons(s2, T, h2)
  <2>1. Reasons(s2, T, h)
    BY <1>1, <1>2, <1>3 DEF Good, Reasons, Joins, Touched
  <2>2. \A j \in Threads : ~Joins(s2, T, t, j)
    BY <1>2 DEF Joins, Touched
  <2> QED
    BY <1>2, <2>1, <2>2, ElsewhereReasons DEF Touched
<1>6. Requests(s2, T, t)
  <2>1. \A y \in Threads : Member(u, s.reqs[y]) => y = t
    BY <1>1 DEF Good, Requests
  <2> QED
    BY <1>1, <2>1 DEF Good, Requests, Touched
<1>7. Locks(s2, h2, V)
  <2> SUFFICES ASSUME NEW y \in Threads, NEW v \in Mutexes, v \in h2[y].holds
               PROVE  s2.owner[v] = y /\ IF Member(y, s2.runq) THEN V[y].locked[v] ELSE s2.locked[v]
    BY DEF Locks
  <2>1. Locks(s, h, V)
    BY <1>1 DEF Good
  <2>2. CASE y = t
    BY <2>1, <2>2, <1>2 DEF Locks, Touched
  <2>3. CASE y # t
    <3>1. v \in h[y].holds
      BY <2>3 DEF OnlyOf
    <3>2. v # u
      BY <2>1, <2>3, <3>1, <1>3 DEF Locks
    <3> QED
      BY <2>1, <3>1, <3>2 DEF Locks, Touched
  <2> QED
    BY <2>2, <2>3
<1>8. Copies(s2, h2, V, R)
  BY <1>1, <1>2, <1>3 DEF Good, Copies, Touched, OnlyOf
<1>9. Kids(s2, T, h2, V, R)
  <2>1. \A y \in Threads : h2[y].kids = h[y].kids
    BY DEF OnlyOf
  <2>2. \A y, j \in Threads : Kid(h2, y, j) <=> Kid(h, y, j)
    BY <2>1 DEF Kid
  <2>3. Kids(s, T, h, V, R)
    BY <1>1 DEF Good
  <2>4. s2.det = s.det /\ s2.runq = s.runq
    BY DEF Touched
  <2> QED
    BY <2>1, <2>2, <2>3, <2>4 DEF Kids
<1>10. ASSUME Lost(s, T, h, V) PROVE Lost(s2, T, h2, V)
  <2>1. \A v \in Mutexes : s2.mq[v] # <<>> => Member(v, s2.reqs[s2.owner[v]])
    BY <1>10 DEF Lost, Touched
  <2>2. ASSUME NEW v \in Mutexes, NEW y, y = s2.owner[v],
               IF Member(y, s2.runq) THEN V[y].locked[v] ELSE s2.locked[v]
        PROVE  v \in h2[y].holds
    <3>1. CASE v = u
      BY <3>1, <2>2, <1>2 DEF Touched
    <3>2. CASE v # u
      <4>1. y \in Threads /\ y = s.owner[v] /\ v \in h[y].holds
        BY <3>2, <2>2, <1>1, <1>10 DEF Lost, Touched, State
      <4> QED
        BY <4>1, <3>2 DEF OnlyOf
    <3> QED
      BY <3>1, <3>2
  <2>3. \A y \in Threads : T[y] \in {"EXIT", "FREE"} => h2[y].holds = {}
    BY <1>1, <1>10 DEF Lost, OnlyOf
  <2> QED
    BY <2>1, <2>2, <2>3 DEF Lost
<1>11. \A n : Data(s, V, R, n) => Data(s2, V, R, n)
  BY <1>2, <1>3, DSchedAssumption DEF Data, Touched
<1>12. s2.st = s.st /\ s2 \in State
  BY DEF Touched
<1> QED
  BY <1>1, <1>4, <1>5, <1>6, <1>7, <1>8, <1>9, <1>10, <1>11, <1>12 DEF Mid, Good, T, OnlyOf

(* The thread goes on, and the library's state is as it was but for signals. *)
LEMMA ThreadMid ==
    ASSUME NEW s, NEW s2, NEW h, NEW h2, NEW V, NEW R, NEW t \in Threads,
           Mid(s, h, V, R, t, "OFF"), OnlyOf(h, h2, t), h2[t].holds = h[t].holds, h2[t].kids = h[t].kids,
           s2 \in State, s2.owner = s.owner, s2.locked = s.locked, s2.mq = s.mq, s2.reqs = s.reqs,
           s2.cq = s.cq, s2.st = s.st, s2.det = s.det, s2.joiner = s.joiner, s2.ready = s.ready,
           s2.runq = s.runq, s2.x = s.x
    PROVE  /\ Mid(s2, h2, V, R, t, "OFF")
           /\ Lost(s, [s.st EXCEPT ![t] = "OFF"], h, V) => Lost(s2, [s2.st EXCEPT ![t] = "OFF"], h2, V)
           /\ \A n : Data(s, V, R, n) => Data(s2, V, R, n)
<1> DEFINE T == [s.st EXCEPT ![t] = "OFF"]
<1>1. s \in State /\ s.st[t] = "RUN" /\ Good(s, T, h, V, R, t)
  BY DEF Mid, Good
<1>2. /\ ~Member(t, s.ready) /\ ~Member(t, s.runq)
      /\ \A v \in Mutexes : ~Member(t, s.mq[v])
      /\ \A c \in Conds : ~Member(t, s.cq[c])
      /\ \A j \in Threads : ~Joins(s, T, t, j)
  BY OnNoQueue
<1> HIDE DEF T
<1>3. \A y \in Threads : h2[y].kids = h[y].kids /\ h2[y].holds = h[y].holds
  BY DEF OnlyOf
<1>4. Queues(s2, T)
  BY <1>1 DEF Good, Queues, Joins
<1>5. Reasons(s2, T, h2)
  <2>1. Reasons(s, T, h2)
    BY <1>1, <1>2, ElsewhereReasons DEF Good
  <2> QED
    BY <2>1 DEF Reasons, Joins
<1>6. Requests(s2, T, t) /\ Locks(s2, h2, V)
  BY <1>1, <1>3 DEF Good, Requests, Locks
<1>7. Copies(s2, h2, V, R)
  BY <1>1, <1>2 DEF Good, Copies, OnlyOf
<1>8. Kids(s2, T, h2, V, R)
  <2>1. \A y, j \in Threads : Kid(h2, y, j) <=> Kid(h, y, j)
    BY <1>3 DEF Kid
  <2>2. Kids(s, T, h, V, R)
    BY <1>1 DEF Good
  <2> QED
    BY <1>3, <2>1, <2>2 DEF Kids
<1>9. Lost(s, T, h, V) => Lost(s2, T, h2, V)
  <2>1. s.owner \in [Mutexes -> Threads]
    BY <1>1 DEF State
  <2> QED
    BY <1>3, <2>1 DEF Lost
<1>10. \A n : Data(s, V, R, n) => Data(s2, V, R, n)
  BY DEF Data
<1> QED
  BY <1>1, <1>4, <1>5, <1>6, <1>7, <1>8, <1>9, <1>10 DEF Mid, Good, T, OnlyOf

(* t waits on c, and is blocked there when tevents is over. *)
LEMMA WaitMid ==
    ASSUME NEW s, NEW s2, NEW h, NEW h2, NEW V, NEW R, NEW t \in Threads, NEW c \in Conds,
           Mid(s, h, V, R, t, "OFF"), OnlyOf(h, h2, t), h2[t].holds = h[t].holds, h2[t].kids = h[t].kids,
           h2[t].stage = "blocked", OpOf(h2, t).op = "await",
           s2 = [s EXCEPT !.cq[c] = Append(@, t)]
    PROVE  /\ Mid(s2, h2, V, R, t, "COND") /\ s2.runq = s.runq /\ s2.ev = s.ev /\ s2.nwake = s.nwake
           /\ Lost(s, [s.st EXCEPT ![t] = "OFF"], h, V) => Lost(s2, [s2.st EXCEPT ![t] = "COND"], h2, V)
           /\ \A n : Data(s, V, R, n) => Data(s2, V, R, n)
<1> DEFINE T == [s.st EXCEPT ![t] = "OFF"]
           T2 == [s.st EXCEPT ![t] = "COND"]
           q == Append(s.cq[c], t)
           cq2 == [s.cq EXCEPT ![c] = q]
<1>1. /\ s \in State /\ s.st[t] = "RUN" /\ Good(s, T, h, V, R, t) /\ T[t] = "OFF" /\ T2[t] = "COND"
      /\ \A y \in Threads : y # t => T2[y] = T[y]
  BY DEF Mid, Good, State
<1>2. /\ ~Member(t, s.ready) /\ ~Member(t, s.runq)
      /\ \A v \in Mutexes : ~Member(t, s.mq[v])
      /\ \A d \in Conds : ~Member(t, s.cq[d])
      /\ \A j \in Threads : ~Joins(s, T, t, j)
  BY OnNoQueue
<1> HIDE DEF T, T2
<1>3. /\ q \in Seq(Threads) /\ (\A y : Member(y, q) <=> Member(y, s.cq[c]) \/ y = t)
      /\ Once(s.cq[c]) => Once(q)
  <2>1. s.cq[c] \in Seq(Threads)
    BY <1>1 DEF State
  <2> QED
    BY <1>2, <2>1, InAppend
<1> HIDE DEF q
<1>4. cq2 \in [Conds -> Seq(Threads)] /\ \A d \in Conds : cq2[d] = IF d = c THEN q ELSE s.cq[d]
  BY <1>1, <1>3 DEF State
<1>5. s2 = [s EXCEPT !.cq = cq2]
  BY DEF q
<1> HIDE DEF cq2
<1>6. /\ s2 \in State /\ s2.owner = s.owner /\ s2.locked = s.locked /\ s2.mq = s.mq /\ s2.reqs = s.reqs
      /\ s2.cq = cq2 /\ s2.st = s.st /\ s2.det = s.det /\ s2.joiner = s.joiner /\ s2.ready = s.ready
      /\ s2.runq = s.runq /\ s2.x = s.x /\ s2.ev = s.ev /\ s2.nwake = s.nwake
  BY <1>1, <1>4, <1>5 DEF State
<1>7. \A y \in Threads, d \in Conds : Member(y, s2.cq[d]) <=> Member(y, s.cq[d]) \/ (y = t /\ d = c)
  BY <1>3, <1>4, <1>6, ZenonT(30)
<1>8. \A d \in Conds : Once(s.cq[d]) => Once(s2.cq[d])
  BY <1>3, <1>4, <1>6
<1>9. \A y, j \in Threads : Joins(s2, T2, y, j) <=> Joins(s, T, y, j)
  BY <1>1, <1>6 DEF Joins
<1>10. \A y \in Threads : h2[y].kids = h[y].kids /\ h2[y].holds = h[y].holds
  BY DEF OnlyOf
<1>11. Queues(s2, T2)
  <2>1. Queues(s, T)
    BY <1>1 DEF Good
  <2>2. /\ \A y \in Threads, d \in Conds : Member(y, s2.cq[d]) => T2[y] = "COND"
        /\ \A y \in Threads, d, e \in Conds : Member(y, s2.cq[d]) /\ Member(y, s2.cq[e]) => d = e
    BY <2>1, <1>1, <1>2, <1>7 DEF Queues
  <2>3. ASSUME NEW y \in Threads, T2[y] = "COND" PROVE \E d \in Conds : Member(y, s2.cq[d])
    BY <2>1, <2>3, <1>1, <1>7 DEF Queues
  <2>4. \A y \in Threads, k \in {"RUN", "MUTEX"} : T2[y] = k <=> T[y] = k
    BY <1>1
  <2>5. \A d \in Conds : Once(s2.cq[d])
    BY <2>1, <1>8 DEF Queues
  <2> QED
    BY <2>1, <2>2, <2>3, <2>4, <2>5, <1>6, <1>9, ZenonT(30) DEF Queues
<1>12. Reasons(s2, T2, h2)
  <2>1. Reasons(s, T, h2)
    BY <1>1, <1>2, ElsewhereReasons DEF Good
  <2> QED
    BY <2>1, <1>6, <1>7, <1>9, ZenonT(30) DEF Reasons
<1>13. Requests(s2, T2, t)
  BY <1>1, <1>6 DEF Good, Requests
<1>14. Locks(s2, h2, V)
  BY <1>1, <1>6, <1>10 DEF Good, Locks
<1>15. Copies(s2, h2, V, R)
  BY <1>1, <1>2, <1>6 DEF Good, Copies, OnlyOf
<1>16. Kids(s2, T2, h2, V, R)
  <2>1. \A y, j \in Threads : Kid(h2, y, j) <=> Kid(h, y, j)
    BY <1>10 DEF Kid
  <2>2. Kids(s, T, h, V, R)
    BY <1>1 DEF Good
  <2>3. \A j \in Threads : T[j] \in {"EXIT", "FREE"} => T2[j] = T[j]
    BY <1>1
  <2>4. \A j \in Threads : T2[j] \in {"EXIT", "FREE"} => T2[j] = T[j]
    BY <1>1
  <2> QED
    BY <1>6, <1>10, <2>1, <2>2, <2>3, <2>4 DEF Kids
<1>17. Lost(s, T, h, V) => Lost(s2, T2, h2, V)
  <2>1. s.owner \in [Mutexes -> Threads]
    BY <1>1 DEF State
  <2> QED
    BY <1>1, <1>6, <1>10, <2>1 DEF Lost
<1>18. \A n : Data(s, V, R, n) => Data(s2, V, R, n)
  BY <1>6 DEF Data
<1> QED
  BY <1>1, <1>6, <1>11, <1>12, <1>13, <1>14, <1>15, <1>16, <1>17, <1>18 DEF Mid, Good, T, T2, OnlyOf

(* t asks the owner of u for it. *)
LEMMA RequestMid ==
    ASSUME NEW s, NEW s2, NEW h, NEW h2, NEW V, NEW R, NEW t \in Threads, NEW u \in Mutexes,
           Mid(s, h, V, R, t, "OFF"), OnlyOf(h, h2, t), h2[t].holds = h[t].holds, h2[t].kids = h[t].kids,
           Locking(h2, t, u), s.owner[u] # t, ~Stealable(s, u),
           s2 = Request(s, t, u)
    PROVE  /\ Mid(s2, h2, V, R, t, "MUTEX") /\ s2.runq = s.runq /\ s2.ev = s.ev /\ s2.nwake = s.nwake
           /\ Lost(s, [s.st EXCEPT ![t] = "OFF"], h, V) => Lost(s2, [s2.st EXCEPT ![t] = "MUTEX"], h2, V)
           /\ \A n : Data(s, V, R, n) => Data(s2, V, R, n)
<1> DEFINE T == [s.st EXCEPT ![t] = "OFF"]
           T2 == [s.st EXCEPT ![t] = "MUTEX"]
           o == s.owner[u]
           q == Append(s.mq[u], t)
           r == IF s.mq[u] = <<>> THEN <<u>> \o s.reqs[o] ELSE s.reqs[o]
           mq2 == [s.mq EXCEPT ![u] = q]
           reqs2 == [s.reqs EXCEPT ![o] = r]
<1>1. /\ s \in State /\ s.st[t] = "RUN" /\ Good(s, T, h, V, R, t) /\ T[t] = "OFF" /\ T2[t] = "MUTEX"
      /\ (\A y \in Threads : y # t => T2[y] = T[y]) /\ \A y \in Threads : y # t => T[y] = s.st[y]
  BY DEF Mid, Good, State
<1>2. /\ ~Member(t, s.ready) /\ ~Member(t, s.runq)
      /\ \A v \in Mutexes : ~Member(t, s.mq[v])
      /\ \A d \in Conds : ~Member(t, s.cq[d])
      /\ \A j \in Threads : ~Joins(s, T, t, j)
  BY OnNoQueue
<1> HIDE DEF T, T2
<1>3. /\ q \in Seq(Threads) /\ (\A y : Member(y, q) <=> Member(y, s.mq[u]) \/ y = t)
      /\ (Once(s.mq[u]) => Once(q)) /\ q # <<>>
  <2>1. s.mq[u] \in Seq(Threads)
    BY <1>1 DEF State
  <2>2. q # <<>>
    BY <2>1
  <2> HIDE DEF q
  <2> QED
    BY <1>2, <2>1, <2>2, InAppend DEF q
<1>4. o \in Threads /\ o # t /\ s.reqs[o] \in Seq(Mutexes) /\ Once(s.reqs[o])
  BY <1>1 DEF State, Good, Requests
<1>5. ~Member(u, s.reqs[o]) \/ s.mq[u] # <<>>
  BY <1>1, <1>4 DEF Good, Requests
<1>6. /\ r \in Seq(Mutexes) /\ Once(r)
      /\ \A v : Member(v, r) <=> Member(v, s.reqs[o]) \/ (v = u /\ s.mq[u] = <<>>)
  <2> DEFINE p == s.reqs[o]
  <2>1. p \in Seq(Mutexes) /\ Once(p) /\ (~Member(u, p) \/ s.mq[u] # <<>>)
    BY <1>4, <1>5
  <2> HIDE DEF p
  <2>2. /\ <<u>> \o p \in Seq(Mutexes)
        /\ \A v : Member(v, <<u>> \o p) <=> Member(v, p) \/ v = u
        /\ Once(p) /\ ~Member(u, p) => Once(<<u>> \o p)
    BY <2>1, InCons
  <2>3. r = IF s.mq[u] = <<>> THEN <<u>> \o p ELSE p
    BY DEF p
  <2> HIDE DEF r
  <2>4. /\ r \in Seq(Mutexes) /\ Once(r)
        /\ \A v : Member(v, r) <=> Member(v, p) \/ (v = u /\ s.mq[u] = <<>>)
    BY <2>1, <2>2, <2>3
  <2> QED
    BY <2>4 DEF p
<1> HIDE DEF q, r
<1>7. mq2 \in [Mutexes -> Seq(Threads)] /\ \A v \in Mutexes : mq2[v] = IF v = u THEN q ELSE s.mq[v]
  BY <1>1, <1>3 DEF State
<1>8. reqs2 \in [Threads -> Seq(Mutexes)] /\ \A y \in Threads : reqs2[y] = IF y = o THEN r ELSE s.reqs[y]
  BY <1>1, <1>4, <1>6 DEF State
<1>9. s2 = [s EXCEPT !.mq = mq2, !.reqs = reqs2]
  <2>1. s2 = [s EXCEPT !.reqs[o] = IF s.mq[u] = <<>> THEN <<u>> \o @ ELSE @, !.mq[u] = Append(@, t)]
    BY DEF Request
  <2> QED
    BY <1>1, <2>1 DEF q, r, State
<1> HIDE DEF mq2, reqs2, o
<1>10. /\ s2 \in State /\ s2.owner = s.owner /\ s2.locked = s.locked /\ s2.mq = mq2 /\ s2.reqs = reqs2
       /\ s2.cq = s.cq /\ s2.st = s.st /\ s2.det = s.det /\ s2.joiner = s.joiner /\ s2.ready = s.ready
       /\ s2.runq = s.runq /\ s2.x = s.x /\ s2.ev = s.ev /\ s2.nwake = s.nwake
  BY <1>1, <1>7, <1>8, <1>9 DEF State
<1>11. /\ \A y \in Threads, v \in Mutexes : Member(y, s2.mq[v]) <=> Member(y, s.mq[v]) \/ (y = t /\ v = u)
       /\ \A v \in Mutexes : Once(s.mq[v]) => Once(s2.mq[v])
       /\ \A v \in Mutexes : s2.mq[v] = <<>> => s.mq[v] = <<>> /\ v # u
  BY <1>3, <1>7, <1>10
<1>12. /\ \A y \in Threads, v \in Mutexes :
            Member(v, s2.reqs[y]) <=> Member(v, s.reqs[y]) \/ (y = o /\ v = u /\ s.mq[u] = <<>>)
       /\ \A y \in Threads : Once(s.reqs[y]) => Once(s2.reqs[y])
  BY <1>6, <1>8, <1>10
<1>13. \A y, j \in Threads : Joins(s2, T2, y, j) <=> Joins(s, T, y, j)
  BY <1>1, <1>10 DEF Joins
<1>14. \A y \in Threads : h2[y].kids = h[y].kids /\ h2[y].holds = h[y].holds
  BY DEF OnlyOf
<1>15. Queues(s2, T2)
  BY <1>1, <1>2, <1>10, <1>11, <1>13 DEF Good, Queues
<1>16. Reasons(s2, T2, h2)
  <2>1. Reasons(s, T, h2)
    BY <1>1, <1>2, ElsewhereReasons DEF Good
  <2> QED
    BY <2>1, <1>10, <1>11, <1>13 DEF Reasons
<1>17. Requests(s2, T2, t)
  <2>1. Requests(s, T, t)
    BY <1>1 DEF Good
  <2>2. s.locked[u] \/ T2[o] = "RUN"
    BY <1>1, <1>4 DEF Stealable, o
  <2>3. \A y \in Threads, v \in Mutexes : Member(v, s2.reqs[y]) => s2.owner[v] = y /\ s2.mq[v] # <<>>
    BY <2>1, <1>10, <1>11, <1>12 DEF Requests, o
  <2>4. \A y \in Threads, v \in Mutexes : Member(v, s2.reqs[y]) /\ ~s2.locked[v] => T2[y] = "RUN" \/ y = t
    BY <2>1, <2>2, <1>1, <1>10, <1>12 DEF Requests
  <2> QED
    BY <2>1, <2>3, <2>4, <1>12 DEF Requests
<1>18. Locks(s2, h2, V)
  BY <1>1, <1>10, <1>14 DEF Good, Locks
<1>19. Copies(s2, h2, V, R)
  BY <1>1, <1>2, <1>10 DEF Good, Copies, OnlyOf
<1>20. Kids(s2, T2, h2, V, R)
  <2>1. \A y, j \in Threads : Kid(h2, y, j) <=> Kid(h, y, j)
    BY <1>14 DEF Kid
  <2>2. Kids(s, T, h, V, R)
    BY <1>1 DEF Good
  <2>3. \A j \in Threads : T[j] \in {"EXIT", "FREE"} => T2[j] = T[j]
    BY <1>1
  <2>4. \A j \in Threads : T2[j] \in {"EXIT", "FREE"} => T2[j] = T[j]
    BY <1>1
  <2> QED
    BY <1>10, <1>14, <2>1, <2>2, <2>3, <2>4 DEF Kids
<1>21. ASSUME Lost(s, T, h, V) PROVE Lost(s2, T2, h2, V)
  <2>1. s.owner \in [Mutexes -> Threads]
    BY <1>1 DEF State
  <2>2. \A v \in Mutexes : s2.mq[v] # <<>> => Member(v, s2.reqs[s2.owner[v]])
    BY <2>1, <1>7, <1>10, <1>12, <1>21 DEF Lost, o
  <2>3. \A v \in Mutexes : (IF Member(s2.owner[v], s2.runq) THEN V[s2.owner[v]].locked[v] ELSE s2.locked[v])
                            => v \in h2[s2.owner[v]].holds
    BY <2>1, <1>10, <1>14, <1>21 DEF Lost
  <2>4. \A y \in Threads : T2[y] \in {"EXIT", "FREE"} => h2[y].holds = {}
    BY <1>1, <1>14, <1>21 DEF Lost
  <2> QED
    BY <2>2, <2>3, <2>4 DEF Lost
<1>22. \A n : Data(s, V, R, n) => Data(s2, V, R, n)
  BY <1>10 DEF Data
<1> QED
  BY <1>1, <1>10, <1>15, <1>16, <1>17, <1>18, <1>19, <1>20, <1>21, <1>22 DEF Mid, Good, T, T2, OnlyOf

(* t waits in pthread_join for j. *)
LEMMA JoinerMid ==
    ASSUME NEW s, NEW s2, NEW h, NEW h2, NEW V, NEW R, NEW t \in Threads, NEW j \in Threads,
           Mid(s, h, V, R, t, "OFF"), OnlyOf(h, h2, t), h2[t].holds = h[t].holds, h2[t].kids = h[t].kids,
           h2[t].stage = "blocked", OpOf(h2, t).op = "join",
           s.st[j] \notin {"EXIT", "FREE"}, s.joiner[j] = NoThread,
           s2 = [s EXCEPT !.joiner[j] = t]
    PROVE  /\ Mid(s2, h2, V, R, t, "MUTEX") /\ s2.runq = s.runq /\ s2.ev = s.ev /\ s2.nwake = s.nwake
           /\ Lost(s, [s.st EXCEPT ![t] = "OFF"], h, V) => Lost(s2, [s2.st EXCEPT ![t] = "MUTEX"], h2, V)
           /\ \A n : Data(s, V, R, n) => Data(s2, V, R, n)
<1> DEFINE T == [s.st EXCEPT ![t] = "OFF"]
           T2 == [s.st EXCEPT ![t] = "MUTEX"]
           joiner2 == [s.joiner EXCEPT ![j] = t]
<1>1. /\ s \in State /\ s.st[t] = "RUN" /\ Good(s, T, h, V, R, t) /\ T[t] = "OFF" /\ T2[t] = "MUTEX"
      /\ (\A y \in Threads : y # t => T2[y] = T[y]) /\ \A y \in Threads : y # t => T[y] = s.st[y]
  BY DEF Mid, Good, State
<1>2. /\ ~Member(t, s.ready) /\ ~Member(t, s.runq)
      /\ \A v \in Mutexes : ~Member(t, s.mq[v])
      /\ \A d \in Conds : ~Member(t, s.cq[d])
      /\ \A k \in Threads : ~Joins(s, T, t, k)
  BY OnNoQueue
<1> HIDE DEF T, T2
<1>3. /\ joiner2 \in [Threads -> Threads \cup {NoThread}]
      /\ \A k \in Threads : joiner2[k] = IF k = j THEN t ELSE s.joiner[k]
  BY <1>1 DEF State
<1>4. s2 = [s EXCEPT !.joiner = joiner2]
  OBVIOUS
<1> HIDE DEF joiner2
<1>5. /\ s2 \in State /\ s2.owner = s.owner /\ s2.locked = s.locked /\ s2.mq = s.mq /\ s2.reqs = s.reqs
      /\ s2.cq = s.cq /\ s2.st = s.st /\ s2.det = s.det /\ s2.joiner = joiner2 /\ s2.ready = s.ready
      /\ s2.runq = s.runq /\ s2.x = s.x /\ s2.ev = s.ev /\ s2.nwake = s.nwake
  BY <1>1, <1>3, <1>4 DEF State
<1>6. \A y, k \in Threads : Joins(s2, T2, y, k) <=> Joins(s, T, y, k) \/ (y = t /\ k = j)
  <2>1. NoThread \notin Threads
    BY DSchedAssumption DEF NoThread, Threads
  <2> QED
    BY <2>1, <1>1, <1>3, <1>5 DEF Joins
<1>7. \A y \in Threads : h2[y].kids = h[y].kids /\ h2[y].holds = h[y].holds
  BY DEF OnlyOf
<1>8. Queues(s2, T2)
  <2>1. Queues(s, T)
    BY <1>1 DEF Good
  <2>2. /\ \A y, k \in Threads : Joins(s2, T2, y, k) => T2[y] = "MUTEX"
        /\ \A y, k, l \in Threads : Joins(s2, T2, y, k) /\ Joins(s2, T2, y, l) => k = l
        /\ \A y, k \in Threads, u \in Mutexes : ~(Joins(s2, T2, y, k) /\ Member(y, s2.mq[u]))
    BY <2>1, <1>1, <1>2, <1>5, <1>6 DEF Queues
  <2>3. ASSUME NEW y \in Threads, T2[y] = "MUTEX"
        PROVE  (\E u \in Mutexes : Member(y, s2.mq[u])) \/ \E k \in Threads : Joins(s2, T2, y, k)
    BY <2>1, <2>3, <1>1, <1>5, <1>6 DEF Queues
  <2> QED
    BY <2>1, <2>2, <2>3, <1>1, <1>2, <1>5 DEF Queues
<1>9. Reasons(s2, T2, h2)
  <2>1. Reasons(s, T, h2)
    BY <1>1, <1>2, ElsewhereReasons DEF Good
  <2> QED
    BY <2>1, <1>5, <1>6 DEF Reasons
<1>10. Requests(s2, T2, t)
  BY <1>1, <1>5 DEF Good, Requests
<1>11. Locks(s2, h2, V)
  BY <1>1, <1>5, <1>7 DEF Good, Locks
<1>12. Copies(s2, h2, V, R)
  BY <1>1, <1>2, <1>5 DEF Good, Copies, OnlyOf
<1>13. Kids(s2, T2, h2, V, R)
  <2>1. \A y, k \in Threads : Kid(h2, y, k) <=> Kid(h, y, k)
    BY <1>7 DEF Kid
  <2>2. Kids(s, T, h, V, R)
    BY <1>1 DEF Good
  <2>3. \A k \in Threads : T[k] \in {"EXIT", "FREE"} => T2[k] = T[k]
    BY <1>1
  <2>4. \A k \in Threads : T2[k] \in {"EXIT", "FREE"} => T2[k] = T[k]
    BY <1>1
  <2> QED
    BY <1>5, <1>7, <2>1, <2>2, <2>3, <2>4 DEF Kids
<1>14. Lost(s, T, h, V) => Lost(s2, T2, h2, V)
  <2>1. s.owner \in [Mutexes -> Threads]
    BY <1>1 DEF State
  <2> QED
    BY <1>1, <1>5, <1>7, <2>1 DEF Lost
<1>15. \A n : Data(s, V, R, n) => Data(s2, V, R, n)
  BY <1>5 DEF Data
<1> QED
  BY <1>1, <1>5, <1>8, <1>9, <1>10, <1>11, <1>12, <1>13, <1>14, <1>15 DEF Mid, Good, T, T2, OnlyOf

(* t has joined its kid j, the one at place k. *)
Freeing(s, s2, j) == s.st[j] = "EXIT" /\ s2 = [s EXCEPT !.st[j] = "FREE"]
Reaps(s, s2, h, h2, t, j, k) ==
    /\ k \in DOMAIN h[t].kids /\ h[t].kids[k] = j /\ h2[t].kids = [h[t].kids EXCEPT ![k] = NoThread]
    /\ Freeing(s, s2, j)

LEMMA JoinedMid ==
    ASSUME NEW s, NEW s2, NEW h, NEW h2, NEW V, NEW R, NEW t \in Threads, NEW j \in Threads, NEW k,
           Mid(s, h, V, R, t, "OFF"), OnlyOf(h, h2, t), h2[t].holds = h[t].holds,
           Reaps(s, s2, h, h2, t, j, k)
    PROVE  /\ Mid(s2, h2, V, R, t, "OFF") /\ s2.runq = s.runq /\ s2.ev = s.ev /\ s2.nwake = s.nwake
           /\ Lost(s, [s.st EXCEPT ![t] = "OFF"], h, V) => Lost(s2, [s2.st EXCEPT ![t] = "OFF"], h2, V)
           /\ \A n : Data(s, V, R, n) => Data(s2, V, R, n)
<1> USE DEF Reaps, Freeing
<1> DEFINE T == [s.st EXCEPT ![t] = "OFF"]
           st2 == [s.st EXCEPT ![j] = "FREE"]
           T2 == [st2 EXCEPT ![t] = "OFF"]
<1>1. /\ s \in State /\ s.st[t] = "RUN" /\ Good(s, T, h, V, R, t) /\ T[t] = "OFF" /\ T2[t] = "OFF"
      /\ j # t /\ T[j] = "EXIT" /\ T2[j] = "FREE" /\ st2[t] = "RUN" /\ st2 \in [Threads -> States]
      /\ \A y \in Threads : y # j => T2[y] = T[y]
  BY DEF Mid, Good, State, States
<1>2. /\ ~Member(t, s.ready) /\ ~Member(t, s.runq)
      /\ \A v \in Mutexes : ~Member(t, s.mq[v])
      /\ \A d \in Conds : ~Member(t, s.cq[d])
      /\ \A i \in Threads : ~Joins(s, T, t, i)
  BY OnNoQueue
<1>3. s2 = [s EXCEPT !.st = st2]
  OBVIOUS
<1> HIDE DEF T, T2, st2
<1>4. /\ s2 \in State /\ s2.owner = s.owner /\ s2.locked = s.locked /\ s2.mq = s.mq /\ s2.reqs = s.reqs
      /\ s2.cq = s.cq /\ s2.st = st2 /\ s2.det = s.det /\ s2.joiner = s.joiner /\ s2.ready = s.ready
      /\ s2.runq = s.runq /\ s2.x = s.x /\ s2.ev = s.ev /\ s2.nwake = s.nwake
  BY <1>1, <1>3 DEF State
<1>5. \A y, i \in Threads : Joins(s2, T2, y, i) <=> Joins(s, T, y, i)
  BY <1>1, <1>4 DEF Joins
<1>6. \A y \in Threads : h2[y].holds = h[y].holds
  BY DEF OnlyOf
<1>7. Queues(s2, T2)
  BY <1>1, <1>4, <1>5 DEF Good, Queues
<1>8. Reasons(s2, T2, h2)
  <2>1. Reasons(s, T, h2)
    BY <1>1, <1>2, ElsewhereReasons DEF Good
  <2> QED
    BY <2>1, <1>4, <1>5 DEF Reasons
<1>9. Requests(s2, T2, t)
  BY <1>1, <1>4 DEF Good, Requests
<1>10. Locks(s2, h2, V)
  BY <1>1, <1>4, <1>6 DEF Good, Locks
<1>11. Copies(s2, h2, V, R)
  BY <1>1, <1>2, <1>4 DEF Good, Copies, OnlyOf
<1>12. Kids(s2, T2, h2, V, R)
  <2>1. Kids(s, T, h, V, R)
    BY <1>1 DEF Good
  <2>2. \A y \in Threads : /\ DOMAIN h2[y].kids = DOMAIN h[y].kids
                           /\ \A i \in DOMAIN h2[y].kids :
                                h2[y].kids[i] = h[y].kids[i] \/ h2[y].kids[i] = NoThread
                           /\ y # t => h2[y].kids = h[y].kids
    BY DEF OnlyOf
  <2>3. NoThread \notin Threads
    BY DSchedAssumption DEF NoThread, Threads
  <2>4. \A y, i \in Threads : Kid(h2, y, i) => Kid(h, y, i)
    BY <2>2, <2>3 DEF Kid
  <2>5. Kid(h, t, j)
    BY DEF Kid
  <2>6. \A y \in Threads : ~Kid(h2, y, j)
    <3>1. \A y \in Threads : \A i \in DOMAIN h[y].kids : h[y].kids[i] = j => y = t /\ i = k
      BY <2>1, <2>3 DEF Kids
    <3> QED
      BY <2>2, <2>3, <3>1 DEF Kid
  <2>7. \A y, z \in Threads : \A k1 \in DOMAIN h2[y].kids, k2 \in DOMAIN h2[z].kids :
          h2[y].kids[k1] = h2[z].kids[k2] /\ h2[y].kids[k1] # NoThread => y = z /\ k1 = k2
    <3> SUFFICES ASSUME NEW y \in Threads, NEW z \in Threads,
                        NEW k1 \in DOMAIN h2[y].kids, NEW k2 \in DOMAIN h2[z].kids,
                        h2[y].kids[k1] = h2[z].kids[k2], h2[y].kids[k1] # NoThread
                 PROVE  y = z /\ k1 = k2
      OBVIOUS
    <3>1. /\ k1 \in DOMAIN h[y].kids /\ k2 \in DOMAIN h[z].kids
          /\ h[y].kids[k1] = h[z].kids[k2] /\ h[y].kids[k1] # NoThread
      BY <2>2
    <3> QED
      BY <2>1, <3>1 DEF Kids
  <2>8. \A y, i \in Threads : Kid(h2, y, i) => T2[i] # "FREE" /\ ~s2.det[i]
    BY <2>1, <2>4, <2>6, <1>1, <1>4 DEF Kids
  <2>9. \A y, i \in Threads : Member(y, s2.runq) /\ Freed(V, R, y, i) =>
          /\ T2[i] = "EXIT" /\ R[y].st[i] = "EXIT" /\ V[y].st[i] = "FREE"
          /\ \A z \in Threads : ~Kid(h2, z, i)
    BY <2>1, <2>4, <2>5, <1>1, <1>4 DEF Kids
  <2>10. \A y, i \in Threads : Member(y, s2.runq) /\ Kid(h2, y, i) /\ R[y].st[i] = "EXIT" => T2[i] = "EXIT"
    BY <2>1, <2>4, <2>6, <1>1, <1>4 DEF Kids
  <2> QED
    BY <2>1, <2>7, <2>8, <2>9, <2>10, <1>4 DEF Kids
<1>13. Lost(s, T, h, V) => Lost(s2, T2, h2, V)
  <2>1. s.owner \in [Mutexes -> Threads]
    BY <1>1 DEF State
  <2> QED
    BY <1>1, <1>4, <1>6, <2>1 DEF Lost
<1>14. \A n : Data(s, V, R, n) => Data(s2, V, R, n)
  BY <1>4 DEF Data
<1> QED
  BY <1>1, <1>4, <1>7, <1>8, <1>9, <1>10, <1>11, <1>12, <1>13, <1>14 DEF Mid, Good, T, T2, OnlyOf

(* t exits: the thread that waits for it is ready, and its slot is free or waits
   to be joined. *)
Exits(s, s2, t, w) ==
    /\ w = IF s.det[t] THEN "FREE" ELSE "EXIT"
    /\ s2 = IF s.joiner[t] = NoThread THEN s ELSE Tready(s, s.joiner[t])

LEMMA ExitMid ==
    ASSUME NEW s, NEW s2, NEW h, NEW h2, NEW V, NEW R, NEW t \in Threads, NEW w,
           Mid(s, h, V, R, t, "OFF"), OnlyOf(h, h2, t), h2[t].holds = h[t].holds, h2[t].kids = h[t].kids,
           Exits(s, s2, t, w), s2.panic = "no"
    PROVE  /\ Mid(s2, h2, V, R, t, w) /\ s2.runq = s.runq /\ s2.ev = s.ev /\ s2.nwake = s.nwake
           /\ Lost(s, [s.st EXCEPT ![t] = "OFF"], h, V) /\ h[t].holds = {}
                => Lost(s2, [s2.st EXCEPT ![t] = w], h2, V)
           /\ \A n : Data(s, V, R, n) => Data(s2, V, R, n)
<1> USE DEF Exits
<1> DEFINE T == [s.st EXCEPT ![t] = "OFF"]
           T2 == [s2.st EXCEPT ![t] = w]
           j == s.joiner[t]
<1>1. /\ s \in State /\ s.st[t] = "RUN" /\ Good(s, T, h, V, R, t) /\ T[t] = "OFF"
      /\ \A y \in Threads : y # t => T[y] = s.st[y]
  BY DEF Mid, Good, State
<1>2. /\ ~Member(t, s.ready) /\ ~Member(t, s.runq)
      /\ \A v \in Mutexes : ~Member(t, s.mq[v])
      /\ \A d \in Conds : ~Member(t, s.cq[d])
      /\ \A i \in Threads : ~Joins(s, T, t, i)
  BY OnNoQueue
<1> HIDE DEF T
<1>3. /\ s2 \in State /\ s2.owner = s.owner /\ s2.locked = s.locked /\ s2.mq = s.mq /\ s2.reqs = s.reqs
      /\ s2.cq = s.cq /\ s2.det = s.det /\ s2.joiner = s.joiner /\ s2.st[t] = "RUN"
      /\ s2.runq = s.runq /\ s2.x = s.x /\ s2.ev = s.ev /\ s2.nwake = s.nwake
      /\ \A y \in Threads : s2.st[y] = IF Joins(s, T, y, t) THEN "RUN" ELSE s.st[y]
      /\ \A y \in Threads : Member(y, s2.ready) <=> Member(y, s.ready) \/ Joins(s, T, y, t)
      /\ Once(s2.ready)
  <2>1. NoThread \notin Threads
    BY DSchedAssumption DEF NoThread, Threads
  <2>2. \A y \in Threads : Joins(s, T, y, t) <=> j = y
    BY <1>1 DEF Joins
  <2>3. Once(s.ready) /\ s.ready \in Seq(Threads)
    BY <1>1 DEF Good, Queues, State
  <2>4. CASE j = NoThread
    <3>1. s2 = s
      BY <2>4
    <3> QED
      BY <3>1, <2>1, <2>2, <2>3, <2>4, <1>1
  <2>5. CASE j # NoThread
    <3>1. j \in Threads /\ s2 = Tready(s, j)
      BY <2>5, <1>1 DEF State
    <3> HIDE DEF j
    <3>2. s2 = [s EXCEPT !.st[j] = "RUN", !.ready = Append(@, j)] /\ s.st[j] # "RUN"
      BY <3>1, <1>1, TreadyEffect
    <3> DEFINE q == Append(s.ready, j)
               st2 == [s.st EXCEPT ![j] = "RUN"]
    <3>3. j # t
      BY <1>1, <3>2
    <3>4. ~Member(j, s.ready)
      BY <1>1, <3>1, <3>2, <3>3 DEF Good, Queues
    <3>5. /\ q \in Seq(Threads) /\ Once(q) /\ \A y : Member(y, q) <=> Member(y, s.ready) \/ y = j
      BY <2>3, <3>1, <3>4, InAppend
    <3>6. st2 \in [Threads -> States] /\ \A y \in Threads : st2[y] = IF y = j THEN "RUN" ELSE s.st[y]
      BY <1>1, <3>1 DEF State, States
    <3>7. s2 = [s EXCEPT !.st = st2, !.ready = q]
      BY <3>2
    <3> HIDE DEF q, st2
    <3>8. /\ s2 \in State /\ s2.owner = s.owner /\ s2.locked = s.locked /\ s2.mq = s.mq /\ s2.reqs = s.reqs
          /\ s2.cq = s.cq /\ s2.det = s.det /\ s2.joiner = s.joiner /\ s2.st = st2 /\ s2.ready = q
          /\ s2.runq = s.runq /\ s2.x = s.x /\ s2.ev = s.ev /\ s2.nwake = s.nwake
      BY <1>1, <3>5, <3>6, <3>7 DEF State
    <3>9. \A y \in Threads : s2.st[y] = IF Joins(s, T, y, t) THEN "RUN" ELSE s.st[y]
      BY <2>2, <3>6, <3>8
    <3>10. \A y \in Threads : Member(y, s2.ready) <=> Member(y, s.ready) \/ Joins(s, T, y, t)
      BY <2>2, <3>5, <3>8
    <3>11. s2.st[t] = "RUN"
      BY <3>3, <3>6, <3>8, <1>1
    <3> QED
      BY <3>5, <3>8, <3>9, <3>10, <3>11
  <2> QED
    BY <2>4, <2>5
<1>4. /\ T2[t] = w /\ w \in {"EXIT", "FREE"}
      /\ \A y \in Threads : y # t => T2[y] = IF Joins(s, T, y, t) THEN "RUN" ELSE T[y]
  BY <1>1, <1>3 DEF State
<1> HIDE DEF T2
<1>5. \A y \in Threads : Joins(s, T, y, t) => T[y] = "MUTEX"
  BY <1>1 DEF Good, Queues
<1>6. \A y, i \in Threads : Joins(s2, T2, y, i) <=> Joins(s, T, y, i) /\ i # t
  BY <1>1, <1>3, <1>4, <1>5 DEF Joins
<1>7. \A y \in Threads : h2[y].holds = h[y].holds /\ h2[y].kids = h[y].kids
  BY DEF OnlyOf
<1>8. Queues(s2, T2)
  <2>1. Queues(s, T)
    BY <1>1 DEF Good
  <2>2. \A y \in Threads : Member(y, s2.ready) => T2[y] = "RUN" /\ ~Member(y, s2.runq)
    BY <2>1, <1>1, <1>2, <1>3, <1>4, <1>5 DEF Queues
  <2>3. /\ \A y \in Threads : Member(y, s2.runq) => T2[y] = "RUN"
        /\ \A y \in Threads : T2[y] = "RUN" => Member(y, s2.ready) \/ Member(y, s2.runq)
    BY <2>1, <1>1, <1>2, <1>3, <1>4, <1>5 DEF Queues
  <2>4. \A y \in Threads, u \in Mutexes : Member(y, s2.mq[u]) => T2[y] = "MUTEX"
    BY <2>1, <1>1, <1>2, <1>3, <1>4 DEF Queues
  <2>5. /\ \A y \in Threads, c \in Conds : Member(y, s2.cq[c]) => T2[y] = "COND"
        /\ \A y \in Threads : T2[y] = "COND" => \E c \in Conds : Member(y, s2.cq[c])
    BY <2>1, <1>1, <1>2, <1>3, <1>4, <1>5 DEF Queues
  <2>6. \A y, i \in Threads : Joins(s2, T2, y, i) => T2[y] = "MUTEX"
    BY <2>1, <1>1, <1>2, <1>4, <1>6 DEF Queues
  <2>7. ASSUME NEW y \in Threads, T2[y] = "MUTEX"
        PROVE  (\E u \in Mutexes : Member(y, s2.mq[u])) \/ \E i \in Threads : Joins(s2, T2, y, i)
    BY <2>1, <2>7, <1>1, <1>3, <1>4, <1>6 DEF Queues
  <2> QED
    BY <2>1, <2>2, <2>3, <2>4, <2>5, <2>6, <2>7, <1>3, <1>6 DEF Queues
<1>9. Reasons(s2, T2, h2)
  <2>1. Reasons(s, T, h2)
    BY <1>1, <1>2, ElsewhereReasons DEF Good
  <2> QED
    BY <2>1, <1>3, <1>6 DEF Reasons
<1>10. Requests(s2, T2, t)
  BY <1>1, <1>3, <1>4 DEF Good, Requests
<1>11. Locks(s2, h2, V)
  BY <1>1, <1>3, <1>7 DEF Good, Locks
<1>12. Copies(s2, h2, V, R)
  BY <1>1, <1>2, <1>3 DEF Good, Copies, OnlyOf
<1>13. Kids(s2, T2, h2, V, R)
  <2>1. \A y, i \in Threads : Kid(h2, y, i) <=> Kid(h, y, i)
    BY <1>7 DEF Kid
  <2>2. Kids(s, T, h, V, R)
    BY <1>1 DEF Good
  <2>3. \A i \in Threads : T[i] = "EXIT" => T2[i] = "EXIT"
    BY <1>1, <1>4, <1>5
  <2>4. \A y, i \in Threads : Kid(h2, y, i) => T2[i] # "FREE" /\ ~s2.det[i]
    BY <2>1, <2>2, <1>3, <1>4 DEF Kids
  <2> QED
    BY <1>3, <1>7, <2>1, <2>2, <2>3, <2>4 DEF Kids
<1>14. ASSUME Lost(s, T, h, V), h[t].holds = {} PROVE Lost(s2, T2, h2, V)
  <2>1. s.owner \in [Mutexes -> Threads]
    BY <1>1 DEF State
  <2>2. \A u \in Mutexes : s2.mq[u] # <<>> => Member(u, s2.reqs[s2.owner[u]])
    BY <2>1, <1>3, <1>14 DEF Lost
  <2>3. \A u \in Mutexes : (IF Member(s2.owner[u], s2.runq) THEN V[s2.owner[u]].locked[u] ELSE s2.locked[u])
                            => u \in h2[s2.owner[u]].holds
    BY <2>1, <1>3, <1>7, <1>14 DEF Lost
  <2>4. \A y \in Threads : T2[y] \in {"EXIT", "FREE"} => h2[y].holds = {}
    <3> SUFFICES ASSUME NEW y \in Threads, T2[y] \in {"EXIT", "FREE"} PROVE h2[y].holds = {}
      OBVIOUS
    <3>1. CASE y = t
      BY <3>1, <1>7, <1>14
    <3>2. CASE y # t
      <4>1. T[y] = T2[y]
        BY <3>2, <1>4
      <4> QED
        BY <4>1, <1>7, <1>14 DEF Lost
    <3> QED
      BY <3>1, <3>2
  <2> QED
    BY <2>2, <2>3, <2>4 DEF Lost
<1>15. \A n : Data(s, V, R, n) => Data(s2, V, R, n)
  BY <1>3 DEF Data
<1> QED
  BY <1>1, <1>3, <1>8, <1>9, <1>10, <1>11, <1>12, <1>13, <1>14, <1>15 DEF Mid, Good, T, T2, OnlyOf

(* t creates tn, in a slot that is free. *)
Creates(s, s2, h, h2, t, tn, d) ==
    /\ d \in BOOLEAN /\ s.st[tn] = "FREE" /\ ThreadsOK(h2)
    /\ \A y \in Threads : y # t /\ y # tn => h2[y] = h[y]
    /\ h2[t].holds = h[t].holds /\ h2[t].kids = Append(h[t].kids, IF d THEN NoThread ELSE tn)
    /\ h2[tn].stage = "new" /\ h2[tn].holds = {} /\ h2[tn].kids = <<>>
    /\ s2 = Tready([s EXCEPT !.det[tn] = d, !.joiner[tn] = NoThread, !.reqs[tn] = <<>>], tn)

LEMMA CreateMid ==
    ASSUME NEW s, NEW s2, NEW h, NEW h2, NEW V, NEW R, NEW t \in Threads, NEW tn \in Threads,
           NEW d, Mid(s, h, V, R, t, "OFF"),
           Creates(s, s2, h, h2, t, tn, d), s2.panic = "no"
    PROVE  /\ Mid(s2, h2, V, R, t, "OFF") /\ s2.runq = s.runq /\ s2.ev = s.ev /\ s2.nwake = s.nwake
           /\ Lost(s, [s.st EXCEPT ![t] = "OFF"], h, V) => Lost(s2, [s2.st EXCEPT ![t] = "OFF"], h2, V)
           /\ \A n : Data(s, V, R, n) => Data(s2, V, R, n)
<1> USE DEF Creates
<1> DEFINE T == [s.st EXCEPT ![t] = "OFF"]
           T2 == [s2.st EXCEPT ![t] = "OFF"]
           none == <<>>
           det2 == [s.det EXCEPT ![tn] = d]
           joiner2 == [s.joiner EXCEPT ![tn] = NoThread]
           reqs2 == [s.reqs EXCEPT ![tn] = none]
           s1 == [s EXCEPT !.det = det2, !.joiner = joiner2, !.reqs = reqs2]
           q == Append(s.ready, tn)
           st2 == [s.st EXCEPT ![tn] = "RUN"]
<1>1. /\ s \in State /\ s.st[t] = "RUN" /\ Good(s, T, h, V, R, t) /\ T[t] = "OFF"
      /\ tn # t /\ \A y \in Threads : y # t => T[y] = s.st[y]
  BY DEF Mid, Good, State
<1>2. /\ ~Member(t, s.ready) /\ ~Member(t, s.runq)
      /\ \A v \in Mutexes : ~Member(t, s.mq[v])
      /\ \A c \in Conds : ~Member(t, s.cq[c])
      /\ \A i \in Threads : ~Joins(s, T, t, i)
  BY OnNoQueue
<1> HIDE DEF T
<1>3. /\ T[tn] = "FREE" /\ ~Member(tn, s.ready) /\ ~Member(tn, s.runq)
      /\ \A v \in Mutexes : ~Member(tn, s.mq[v])
      /\ \A c \in Conds : ~Member(tn, s.cq[c])
      /\ \A i \in Threads : ~Joins(s, T, tn, i)
  <2>1. T[tn] = "FREE"
    BY <1>1
  <2> QED
    BY <1>1, <2>1 DEF Good, Queues
<1>4. /\ none \in Seq(Mutexes) /\ Once(none) /\ \A v : ~Member(v, none)
  BY DEF Once, Member
<1>5. s2 = Tready(s1, tn)
  OBVIOUS
<1> HIDE DEF none
<1>6. /\ det2 \in [Threads -> BOOLEAN] /\ \A y \in Threads : det2[y] = IF y = tn THEN d ELSE s.det[y]
  BY <1>1 DEF State
<1>7. /\ joiner2 \in [Threads -> Threads \cup {NoThread}]
      /\ \A y \in Threads : joiner2[y] = IF y = tn THEN NoThread ELSE s.joiner[y]
  BY <1>1 DEF State
<1>8. /\ reqs2 \in [Threads -> Seq(Mutexes)] /\ \A y \in Threads : reqs2[y] = IF y = tn THEN none ELSE s.reqs[y]
  BY <1>1, <1>4 DEF State
<1>9. /\ st2 \in [Threads -> States] /\ \A y \in Threads : st2[y] = IF y = tn THEN "RUN" ELSE s.st[y]
  BY <1>1 DEF State, States
<1>10. /\ q \in Seq(Threads) /\ Once(q) /\ \A y : Member(y, q) <=> Member(y, s.ready) \/ y = tn
  <2>1. s.ready \in Seq(Threads) /\ Once(s.ready)
    BY <1>1 DEF State, Good, Queues
  <2> QED
    BY <2>1, <1>3, InAppend
<1> HIDE DEF det2, joiner2, reqs2, st2, q
<1>11. /\ s1 \in State /\ s1.owner = s.owner /\ s1.locked = s.locked /\ s1.mq = s.mq /\ s1.reqs = reqs2
       /\ s1.cq = s.cq /\ s1.st = s.st /\ s1.det = det2 /\ s1.joiner = joiner2 /\ s1.ready = s.ready
       /\ s1.runq = s.runq /\ s1.x = s.x /\ s1.ev = s.ev /\ s1.nwake = s.nwake
  BY <1>1, <1>6, <1>7, <1>8 DEF State
<1> HIDE DEF s1
<1>12. s2 = [s1 EXCEPT !.st = st2, !.ready = q]
  <2>1. s2 = [s1 EXCEPT !.st[tn] = "RUN", !.ready = Append(@, tn)]
    <3>1. Tready(s1, tn).panic = "no"
      BY <1>5
    <3>2. s1 \in State
      BY <1>11
    <3> QED
      BY <1>5, <3>1, <3>2, TreadyEffect, Zenon
  <2> QED
    BY <2>1, <1>11 DEF st2, q
<1>13. /\ s2 \in State /\ s2.owner = s.owner /\ s2.locked = s.locked /\ s2.mq = s.mq /\ s2.reqs = reqs2
       /\ s2.cq = s.cq /\ s2.st = st2 /\ s2.det = det2 /\ s2.joiner = joiner2 /\ s2.ready = q
       /\ s2.runq = s.runq /\ s2.x = s.x /\ s2.ev = s.ev /\ s2.nwake = s.nwake
  BY <1>9, <1>10, <1>11, <1>12 DEF State
<1>14. /\ T2[t] = "OFF" /\ s2.st[t] = "RUN"
       /\ \A y \in Threads : T2[y] = IF y = tn THEN "RUN" ELSE T[y]
  BY <1>1, <1>9, <1>13 DEF State
<1> HIDE DEF T2
<1>15. \A y, i \in Threads : Joins(s2, T2, y, i) <=> Joins(s, T, y, i)
  <2>1. NoThread \notin Threads
    BY DSchedAssumption DEF NoThread, Threads
  <2> QED
    BY <2>1, <1>1, <1>3, <1>7, <1>13, <1>14 DEF Joins
<1>16. Queues(s2, T2)
  <2>1. Queues(s, T)
    BY <1>1 DEF Good
  <2>2. /\ \A y \in Threads : Member(y, s2.ready) => T2[y] = "RUN" /\ ~Member(y, s2.runq)
        /\ \A y \in Threads : Member(y, s2.runq) => T2[y] = "RUN"
        /\ \A y \in Threads : T2[y] = "RUN" => Member(y, s2.ready) \/ Member(y, s2.runq)
        /\ Once(s2.ready)
    BY <2>1, <1>3, <1>10, <1>13, <1>14 DEF Queues
  <2> QED
    BY <2>1, <2>2, <1>3, <1>13, <1>14, <1>15 DEF Queues
<1>17. Reasons(s2, T2, h2)
  <2>1. Reasons(s, T, h)
    BY <1>1 DEF Good
  <2>2. \A y \in Threads : y # t /\ y # tn => h2[y] = h[y] /\ OpOf(h2, y) = OpOf(h, y)
    BY DEF OpOf
  <2>3. \A y \in Threads : y # t /\ y # tn => \A u \in Mutexes : Locking(h2, y, u) <=> Locking(h, y, u)
    BY <2>2 DEF Locking
  <2>4. ASSUME NEW y \in Threads, Member(y, s2.ready)
        PROVE  \/ h2[y].stage = "new"
               \/ h2[y].stage = "blocked" /\ OpOf(h2, y).op \in {"await", "join"}
               \/ \E u \in Mutexes : Locking(h2, y, u) /\ s2.owner[u] = y /\ ~s2.locked[u]
    <3>1. CASE y = tn
      BY <3>1
    <3>2. CASE y # tn
      <4>1. Member(y, s.ready) /\ y # t
        BY <2>4, <3>2, <1>2, <1>10, <1>13
      <4> QED
        BY <4>1, <3>2, <2>1, <2>2, <2>3, <1>13 DEF Reasons
    <3> QED
      BY <3>1, <3>2
  <2>5. \A y \in Threads, u \in Mutexes : Member(y, s2.mq[u]) => Locking(h2, y, u)
    BY <2>1, <2>3, <1>2, <1>3, <1>13 DEF Reasons
  <2>6. /\ \A y \in Threads : Member(y, s2.runq) => h2[y].stage \in InChild
        /\ \A y \in Threads, c \in Conds : Member(y, s2.cq[c]) =>
              h2[y].stage = "blocked" /\ OpOf(h2, y).op = "await"
        /\ \A y, i \in Threads : Joins(s2, T2, y, i) =>
              h2[y].stage = "blocked" /\ OpOf(h2, y).op = "join"
    BY <2>1, <2>2, <1>2, <1>3, <1>13, <1>15 DEF Reasons
  <2> QED
    BY <2>4, <2>5, <2>6 DEF Reasons
<1>18. Requests(s2, T2, t)
  <2>1. Requests(s, T, t)
    BY <1>1 DEF Good
  <2>2. \A y \in Threads, u \in Mutexes : Member(u, s2.reqs[y]) => y # tn /\ Member(u, s.reqs[y])
    BY <1>4, <1>8, <1>13
  <2>3. \A y \in Threads : Once(s2.reqs[y])
    BY <2>1, <1>4, <1>8, <1>13 DEF Requests
  <2>4. \A y \in Threads, u \in Mutexes : Member(u, s2.reqs[y]) => s2.owner[u] = y /\ s2.mq[u] # <<>>
    BY <2>1, <2>2, <1>13 DEF Requests
  <2>5. \A y \in Threads, u \in Mutexes : Member(u, s2.reqs[y]) /\ ~s2.locked[u] => T2[y] = "RUN" \/ y = t
    BY <2>1, <2>2, <1>13, <1>14 DEF Requests
  <2> QED
    BY <2>3, <2>4, <2>5 DEF Requests
<1>19. Locks(s2, h2, V)
  BY <1>1, <1>13 DEF Good, Locks
<1>20. Copies(s2, h2, V, R)
  BY <1>1, <1>2, <1>3, <1>13 DEF Good, Copies
<1>21. Kids(s2, T2, h2, V, R)
  <2> DEFINE ks == h[t].kids
             kn == IF d THEN NoThread ELSE tn
  <2>1. Kids(s, T, h, V, R) /\ ks \in Seq(Threads \cup {NoThread})
    BY <1>1 DEF Good, ThreadsOK, Thread
  <2>2. /\ DOMAIN h2[t].kids = DOMAIN ks \cup {Len(ks) + 1} /\ Len(ks) + 1 \notin DOMAIN ks
        /\ h2[t].kids[Len(ks) + 1] = kn /\ \A i \in DOMAIN ks : h2[t].kids[i] = ks[i]
    BY <2>1
  <2>3. NoThread \notin Threads
    BY DSchedAssumption DEF NoThread, Threads
  <2>4. \A y \in Threads : ~Kid(h, y, tn)
    BY <2>1, <1>3 DEF Kids
  <2> HIDE DEF ks, kn
  <2>5. DOMAIN h2[tn].kids = {}
    OBVIOUS
  <2>6. \A y, i \in Threads : Kid(h2, y, i) => Kid(h, y, i) \/ (y = t /\ i = tn /\ ~d)
    <3> SUFFICES ASSUME NEW y \in Threads, NEW i \in Threads, NEW k \in DOMAIN h2[y].kids, h2[y].kids[k] = i
                 PROVE  Kid(h, y, i) \/ (y = t /\ i = tn /\ ~d)
      BY DEF Kid
    <3>1. CASE y = t
      BY <3>1, <2>2, <2>3 DEF Kid, ks, kn
    <3>2. CASE y # t
      BY <3>2, <2>5 DEF Kid
    <3> QED
      BY <3>1, <3>2
  <2>7. ASSUME NEW y \in Threads, NEW z \in Threads,
               NEW k1 \in DOMAIN h2[y].kids, NEW k2 \in DOMAIN h2[z].kids,
               h2[y].kids[k1] = h2[z].kids[k2], h2[y].kids[k1] # NoThread
        PROVE  y = z /\ k1 = k2
    <3> DEFINE new(p, k) == p = t /\ k = Len(ks) + 1
    <3>1. \A p \in Threads : \A k \in DOMAIN h2[p].kids : ~new(p, k) =>
            k \in DOMAIN h[p].kids /\ h2[p].kids[k] = h[p].kids[k]
      <4> SUFFICES ASSUME NEW p \in Threads, NEW k \in DOMAIN h2[p].kids, ~new(p, k)
                   PROVE  k \in DOMAIN h[p].kids /\ h2[p].kids[k] = h[p].kids[k]
        OBVIOUS
      <4>1. CASE p = t
        BY <4>1, <2>2 DEF ks
      <4>2. CASE p # t
        <5>1. p # tn
          BY <2>5
        <5> QED
          BY <4>2, <5>1
      <4> QED
        BY <4>1, <4>2
    <3>2. \A p \in Threads : \A k \in DOMAIN h2[p].kids : ~new(p, k) => h2[p].kids[k] # tn
      BY <2>4, <3>1 DEF Kid
    <3>3. CASE ~new(y, k1) /\ ~new(z, k2)
      BY <2>1, <2>7, <3>1, <3>3 DEF Kids
    <3>4. CASE new(y, k1) /\ ~new(z, k2)
      BY <2>2, <2>7, <3>2, <3>4 DEF kn
    <3>5. CASE ~new(y, k1) /\ new(z, k2)
      BY <2>2, <2>7, <3>2, <3>5 DEF kn
    <3> QED
      BY <3>3, <3>4, <3>5
  <2>8. \A y, i \in Threads : Kid(h2, y, i) => T2[i] # "FREE" /\ ~s2.det[i]
    BY <2>1, <2>4, <2>6, <1>6, <1>13, <1>14 DEF Kids
  <2>9. \A y, i \in Threads : Member(y, s2.runq) /\ Freed(V, R, y, i) =>
          /\ T2[i] = "EXIT" /\ R[y].st[i] = "EXIT" /\ V[y].st[i] = "FREE"
          /\ \A z \in Threads : ~Kid(h2, z, i)
    BY <2>1, <2>6, <1>3, <1>13, <1>14 DEF Kids
  <2>10. \A y, i \in Threads : Member(y, s2.runq) /\ Kid(h2, y, i) /\ R[y].st[i] = "EXIT" => T2[i] = "EXIT"
    BY <2>1, <2>4, <2>6, <1>2, <1>13, <1>14 DEF Kids
  <2> QED
    BY <2>1, <2>7, <2>8, <2>9, <2>10, <1>13 DEF Kids
<1>22. ASSUME Lost(s, T, h, V) PROVE Lost(s2, T2, h2, V)
  <2>1. s.owner \in [Mutexes -> Threads]
    BY <1>1 DEF State
  <2>2. \A u \in Mutexes : s.owner[u] = tn => ~s.locked[u] /\ s.mq[u] = <<>>
    BY <1>1, <1>3, <1>22 DEF Lost, Good, Requests
  <2>3. \A u \in Mutexes : s2.mq[u] # <<>> => Member(u, s2.reqs[s2.owner[u]])
    <3> SUFFICES ASSUME NEW u \in Mutexes, s.mq[u] # <<>> PROVE Member(u, s2.reqs[s.owner[u]])
      BY <1>13
    <3>1. s.owner[u] \in Threads /\ s.owner[u] # tn
      BY <2>1, <2>2
    <3>2. Member(u, s.reqs[s.owner[u]])
      BY <1>22 DEF Lost
    <3> QED
      BY <3>1, <3>2, <1>8, <1>13
  <2>4. ASSUME NEW u \in Mutexes, NEW y, y = s2.owner[u],
               IF Member(y, s2.runq) THEN V[y].locked[u] ELSE s2.locked[u]
        PROVE  u \in h2[y].holds
    <3>1. y # tn /\ y \in Threads
      BY <2>1, <2>2, <2>4, <1>3, <1>13
    <3>2. u \in h[y].holds
      BY <2>4, <1>13, <1>22 DEF Lost
    <3> QED
      BY <3>1, <3>2
  <2>5. \A y \in Threads : T2[y] \in {"EXIT", "FREE"} => h2[y].holds = {}
    BY <1>1, <1>14, <1>22 DEF Lost
  <2> QED
    BY <2>3, <2>4, <2>5 DEF Lost
<1>23. \A n : Data(s, V, R, n) => Data(s2, V, R, n)
  BY <1>13 DEF Data
<1> QED
  BY <1>13, <1>14, <1>16, <1>17, <1>18, <1>19, <1>20, <1>21, <1>22, <1>23 DEF Mid, Good, T, T2

-----------------------------------------------------------------------------
(* The threads after an operation *)

LEMMA OpKinds ==
    ASSUME NEW t \in Threads, ThreadsOK(th)
    PROVE  /\ Op(t) = OpOf(th, t)
           /\ Op(t).op \in {"lock", "unlock", "trylock", "await"} => Op(t).u \in Mutexes
           /\ Op(t).op \in {"signal", "broadcast", "await"} => Op(t).c \in Conds
           /\ Op(t).op = "create" => Op(t).g \in Progs /\ Op(t).det \in BOOLEAN
           /\ Op(t).op = "trylock" => Op(t).fail \in 1 .. Len(Code[th[t].prog])
           /\ Op(t).op \notin {"exit", "end"} => th[t].pc + 1 \in 1 .. Len(Code[th[t].prog])
<1>1. th[t].prog \in Progs /\ th[t].pc \in 1 .. Len(Code[th[t].prog])
  BY DEF ThreadsOK, Thread
<1>2. Code[th[t].prog] \in Seq(Ops)
  BY <1>1, DSchedAssumption
<1>3. Op(t) \in Ops
  BY <1>1, <1>2 DEF Op
<1>4. /\ Op(t).op \in {"lock", "unlock", "trylock", "await"} => Op(t).u \in Mutexes
      /\ Op(t).op \in {"signal", "broadcast", "await"} => Op(t).c \in Conds
      /\ Op(t).op = "create" => Op(t).g \in Progs /\ Op(t).det \in BOOLEAN
  BY <1>3 DEF Ops
<1>5. Op(t).op = "trylock" => Op(t).fail \in 1 .. Len(Code[th[t].prog])
  BY <1>1, DSchedAssumption DEF Op
<1>6. Op(t).op \notin {"exit", "end"} => th[t].pc # Len(Code[th[t].prog])
  BY <1>1, DSchedAssumption DEF Op
<1>7. Op(t).op \notin {"exit", "end"} => th[t].pc + 1 \in 1 .. Len(Code[th[t].prog])
  BY <1>1, <1>2, <1>6
<1> QED
  BY <1>4, <1>5, <1>7 DEF Op, OpOf

(* Of thread t only these fields are new. *)
Becomes(h2, t, stage, kids, holds) ==
    OnlyOf(th, h2, t) /\ h2[t].stage = stage /\ h2[t].kids = kids /\ h2[t].holds = holds

LEMMA AtBecomes ==
    ASSUME NEW t \in Threads, ThreadsOK(th), NEW stage \in Stages
    PROVE  /\ Becomes(At(t, stage), t, stage, th[t].kids, th[t].holds)
           /\ OpOf(At(t, stage), t) = OpOf(th, t)
  BY DEF At, Becomes, OnlyOf, ThreadsOK, Thread, OpOf

LEMMA Next1Becomes ==
    ASSUME NEW t \in Threads, ThreadsOK(th), Op(t).op \notin {"exit", "end"}
    PROVE  Becomes(Next1(t), t, th[t].stage, th[t].kids, th[t].holds)
<1>1. th[t].pc + 1 \in 1 .. Len(Code[th[t].prog])
  BY OpKinds
<1> QED
  BY <1>1, SMTT(30) DEF Next1, Becomes, OnlyOf, ThreadsOK, Thread

LEMMA ElsewhereBecomes ==
    ASSUME NEW t \in Threads, ThreadsOK(th), Op(t).op = "trylock"
    PROVE  Becomes(Elsewhere(t), t, th[t].stage, th[t].kids, th[t].holds)
<1> DEFINE pc == Op(t).fail
<1>1. pc \in 1 .. Len(Code[th[t].prog]) /\ Elsewhere(t) = [th EXCEPT ![t].pc = pc]
  BY OpKinds DEF Elsewhere
<1>2. pc \in Nat
  BY <1>1
<1> HIDE DEF pc
<1> QED
  BY <1>1, <1>2, ZenonT(30) DEF Becomes, OnlyOf, ThreadsOK, Thread

LEMMA HoldsBecomes ==
    ASSUME NEW t \in Threads, NEW h, NEW stage, NEW kids, NEW holds, Becomes(h, t, stage, kids, holds),
           NEW new \in SUBSET Mutexes, NEW h2, h2 = [h EXCEPT ![t].holds = new]
    PROVE  Becomes(h2, t, stage, kids, new) /\ OpOf(h2, t) = OpOf(h, t)
  BY DEF Becomes, OnlyOf, ThreadsOK, Thread, OpOf

LEMMA StageBecomes ==
    ASSUME NEW t \in Threads, NEW h, NEW stage, NEW kids, NEW holds, Becomes(h, t, stage, kids, holds),
           NEW new \in Stages, NEW h2, h2 = [h EXCEPT ![t].stage = new]
    PROVE  Becomes(h2, t, new, kids, holds) /\ OpOf(h2, t) = OpOf(h, t)
  BY DEF OpOf, Becomes, OnlyOf, ThreadsOK, Thread

LEMMA KidListBecomes ==
    ASSUME NEW t \in Threads, NEW h, NEW stage, NEW kids, NEW holds, Becomes(h, t, stage, kids, holds),
           NEW new \in Seq(Threads \cup {NoThread}), NEW h2, h2 = [h EXCEPT ![t].kids = new]
    PROVE  Becomes(h2, t, stage, new, holds)
  BY DEF Becomes, OnlyOf, ThreadsOK, Thread

LEMMA KidsBecomes ==
    ASSUME NEW t \in Threads, NEW h, NEW stage, NEW kids, NEW holds, Becomes(h, t, stage, kids, holds),
           NEW k \in DOMAIN kids, NEW h2, h2 = [h EXCEPT ![t].kids[k] = NoThread]
    PROVE  Becomes(h2, t, stage, [kids EXCEPT ![k] = NoThread], holds)
<1> DEFINE new == [h[t].kids EXCEPT ![k] = NoThread]
<1>1. h[t].kids \in Seq(Threads \cup {NoThread}) /\ h[t].kids = kids /\ h[t] \in Thread /\ h \in [Threads -> Thread]
  BY DEF Becomes, OnlyOf, ThreadsOK, Thread
<1>2. new \in Seq(Threads \cup {NoThread}) /\ new = [kids EXCEPT ![k] = NoThread]
  BY <1>1
<1>3. h2 = [h EXCEPT ![t].kids = new]
  BY <1>1
<1> HIDE DEF new
<1>4. Becomes(h2, t, stage, new, holds)
  BY <1>2, <1>3, KidListBecomes, Zenon
<1> QED
  BY <1>2, <1>4

LEMMA HoldingBecomes ==
    ASSUME NEW t \in Threads, ThreadsOK(th), Op(t).op \notin {"exit", "end"}, NEW u \in Mutexes
    PROVE  /\ Becomes(Holding(t, u), t, th[t].stage, th[t].kids, th[t].holds \cup {u})
           /\ Becomes(Released(t, u), t, th[t].stage, th[t].kids, th[t].holds \ {u})
<1>1. th[t].holds \in SUBSET Mutexes /\ Becomes(Next1(t), t, th[t].stage, th[t].kids, th[t].holds)
  BY Next1Becomes DEF ThreadsOK, Thread
<1> DEFINE more == th[t].holds \cup {u}
           less == th[t].holds \ {u}
<1>2. Holding(t, u) = [Next1(t) EXCEPT ![t].holds = more] /\ Released(t, u) = [Next1(t) EXCEPT ![t].holds = less]
  <2>1. Next1(t)[t].holds = th[t].holds
    BY <1>1 DEF Becomes
  <2> QED
    BY <2>1 DEF Holding, Released
<1>3. more \in SUBSET Mutexes /\ less \in SUBSET Mutexes
  BY <1>1
<1>4. Becomes(Holding(t, u), t, th[t].stage, th[t].kids, more)
  <2> HIDE DEF more
  <2> QED BY <1>1, <1>2, <1>3, HoldsBecomes
<1>5. Becomes(Released(t, u), t, th[t].stage, th[t].kids, less)
  <2> HIDE DEF less
  <2> QED BY <1>1, <1>2, <1>3, HoldsBecomes
<1> QED
  BY <1>4, <1>5

LEMMA JoinedBecomes ==
    ASSUME NEW t \in Threads, ThreadsOK(th), Op(t).op = "join", Op(t).k \in DOMAIN th[t].kids
    PROVE  Becomes(Joined(t), t, th[t].stage, [th[t].kids EXCEPT ![Op(t).k] = NoThread], th[t].holds)
<1>1. Becomes(Next1(t), t, th[t].stage, th[t].kids, th[t].holds)
  BY Next1Becomes
<1> QED
  BY <1>1, KidsBecomes DEF Joined

-----------------------------------------------------------------------------
(* The steps of a slice: of the library's state only the copy of t changes. *)

InCopy(t, s, h2) ==
    /\ OnlyOf(th, h2, t) /\ h2[t].stage \in InChild /\ (s.panic # "no" => h2[t].stage = "returning")
    /\ m' = m /\ ref' = ref /\ view' = [view EXCEPT ![t] = s] /\ th' = h2

LEMMA CopyRest ==
    ASSUME NEW t \in Threads, Rest, Member(t, m.runq), NEW s \in State, NEW h2, InCopy(t, s, h2),
           s.owner = view[t].owner, Signalled(s),
           \A u \in Mutexes : s.locked[u] # view[t].locked[u] => view[t].owner[u] = t,
           \A u \in h2[t].holds : view[t].owner[u] = t /\ s.locked[u],
           Kids(m, m.st, h2, view', ref)
    PROVE  /\ Rest'
           /\ Lost(m, m.st, th, view)
                /\ (\A u \in Mutexes : view[t].owner[u] = t /\ s.locked[u] => u \in h2[t].holds)
              => Lost(m, m.st, th, view)'
           /\ Data(m, view, ref, total) /\ s.x = view[t].x /\ total' = total => Data(m, view, ref, total)'
<1>1. /\ Good(m, m.st, th, view, ref, NoThread) /\ m \in State /\ m.st[t] = "RUN"
      /\ view \in [Threads -> State] /\ ref \in [Threads -> State] /\ ThreadsOK(th)
  BY DEF Rest, Good, Queues
<1>2. /\ m' = m /\ ref' = ref /\ th' = h2 /\ ThreadsOK(h2) /\ h2[t].stage \in InChild
      /\ view' \in [Threads -> State] /\ view'[t] = s
      /\ \A y \in Threads : y # t => view'[y] = view[y] /\ h2[y] = th[y]
      /\ s.panic # "no" => h2[t].stage = "returning"
  BY <1>1 DEF InCopy, OnlyOf
<1>3. Copies(m, th, view, ref) /\ Locks(m, th, view) /\ Reasons(m, m.st, th) /\ Queues(m, m.st)
  BY <1>1 DEF Good
<1>4. /\ ~Member(t, m.ready)
      /\ \A u \in Mutexes : ~Member(t, m.mq[u])
      /\ \A c \in Conds : ~Member(t, m.cq[c])
      /\ \A j \in Threads : ~Joins(m, m.st, t, j)
  BY <1>1, <1>3 DEF Queues
<1>5. \A u \in Mutexes : view[t].owner[u] = t <=> m.owner[u] = t
  BY <1>3 DEF Copies
<1>6. Reasons(m, m.st, h2)
  <2>1. \A y \in Threads : y # t => OpOf(h2, y) = OpOf(th, y) /\ h2[y].stage = th[y].stage
    BY <1>2 DEF OpOf
  <2>2. \A y \in Threads : y # t => \A u \in Mutexes : Locking(h2, y, u) <=> Locking(th, y, u)
    BY <2>1 DEF Locking
  <2>3. /\ \A y \in Threads : Member(y, m.runq) => h2[y].stage \in InChild
        /\ \A y \in Threads, u \in Mutexes : Member(y, m.mq[u]) => Locking(h2, y, u)
    BY <1>2, <1>3, <1>4, <2>1, <2>2 DEF Reasons
  <2>4. ASSUME NEW y \in Threads, Member(y, m.ready)
        PROVE  \/ h2[y].stage = "new"
               \/ h2[y].stage = "blocked" /\ OpOf(h2, y).op \in {"await", "join"}
               \/ \E u \in Mutexes : Locking(h2, y, u) /\ m.owner[u] = y /\ ~m.locked[u]
    BY <1>3, <1>4, <2>1, <2>2, <2>4 DEF Reasons
  <2>5. /\ \A y \in Threads, c \in Conds : Member(y, m.cq[c]) =>
              h2[y].stage = "blocked" /\ OpOf(h2, y).op = "await"
        /\ \A y, j \in Threads : Joins(m, m.st, y, j) =>
              h2[y].stage = "blocked" /\ OpOf(h2, y).op = "join"
    BY <1>3, <1>4, <2>1 DEF Reasons
  <2> QED
    BY <2>3, <2>4, <2>5 DEF Reasons
<1>7. Locks(m, h2, view')
  <2> SUFFICES ASSUME NEW y \in Threads, NEW u \in Mutexes, u \in h2[y].holds
               PROVE  m.owner[u] = y /\ IF Member(y, m.runq) THEN view'[y].locked[u] ELSE m.locked[u]
    BY DEF Locks
  <2>1. CASE y = t
    BY <2>1, <1>2, <1>5
  <2>2. CASE y # t
    BY <2>2, <1>2, <1>3 DEF Locks
  <2> QED
    BY <2>1, <2>2
<1>8. Copies(m, h2, view', ref)
  <2> SUFFICES ASSUME NEW y \in Threads, Member(y, m.runq)
               PROVE  /\ view'[y] \in State /\ ref[y] \in State
                      /\ \A u \in Mutexes : view'[y].owner[u] = y <=> m.owner[u] = y
                      /\ \A u \in Mutexes : view'[y].locked[u] # ref[y].locked[u] => m.owner[u] = y
                      /\ \A u \in Mutexes : m.owner[u] = y => m.locked[u] = ref[y].locked[u]
                      /\ ref[y].ev = <<>> /\ \A c \in Conds : ref[y].nwake[c] = 0
                      /\ \A c \in Conds : view'[y].nwake[c] # 0 => Member(c, view'[y].ev)
                      /\ view'[y].panic # "no" => h2[y].stage = "returning"
    BY DEF Copies
  <2>1. CASE y # t
    BY <2>1, <1>2, <1>3 DEF Copies
  <2>2. CASE y = t
    <3>1. /\ ref[t] \in State
          /\ \A u \in Mutexes : view[t].locked[u] # ref[t].locked[u] => m.owner[u] = t
          /\ \A u \in Mutexes : m.owner[u] = t => m.locked[u] = ref[t].locked[u]
          /\ ref[t].ev = <<>> /\ \A c \in Conds : ref[t].nwake[c] = 0
      BY <1>3 DEF Copies
    <3>2. \A u \in Mutexes : s.locked[u] # ref[t].locked[u] => m.owner[u] = t
      BY <3>1, <1>5
    <3> QED
      BY <2>2, <3>1, <3>2, <1>2, <1>5 DEF Signalled
  <2> QED
    BY <2>1, <2>2
<1>9. \A y \in Threads : h2[y].stage \in InChild => Member(y, m.runq)
  BY <1>2 DEF Rest
<1>10. Rest'
  <2>1. Requests(m, m.st, NoThread) /\ m.ev = <<>> /\ \A c \in Conds : m.nwake[c] = 0
    BY <1>1 DEF Good, Rest
  <2> QED
    BY <1>1, <1>2, <1>3, <1>6, <1>7, <1>8, <1>9, <2>1 DEF Rest, Good
<1>11. ASSUME Lost(m, m.st, th, view),
              \A u \in Mutexes : view[t].owner[u] = t /\ s.locked[u] => u \in h2[t].holds
       PROVE  Lost(m, m.st, h2, view')
  <2>1. \A u \in Mutexes : m.mq[u] # <<>> => Member(u, m.reqs[m.owner[u]])
    BY <1>11 DEF Lost
  <2>2. ASSUME NEW u \in Mutexes, NEW o, o = m.owner[u],
               IF Member(o, m.runq) THEN view'[o].locked[u] ELSE m.locked[u]
        PROVE  u \in h2[o].holds
    <3>1. CASE o = t
      BY <2>2, <3>1, <1>2, <1>5, <1>11
    <3>2. CASE o # t
      <4>1. o \in Threads
        BY <2>2, <1>1 DEF State
      <4> QED
        BY <2>2, <3>2, <4>1, <1>2, <1>11 DEF Lost
    <3> QED
      BY <3>1, <3>2
  <2>3. \A y \in Threads : m.st[y] \in {"EXIT", "FREE"} => h2[y].holds = {}
    BY <1>1, <1>2, <1>11 DEF Lost
  <2> QED
    BY <2>1, <2>2, <2>3 DEF Lost
<1>12. ASSUME Data(m, view, ref, total), s.x = view[t].x PROVE Data(m, view', ref, total)
  <2>1. m.owner[DataMutex] \in Threads
    BY <1>1, DSchedAssumption DEF State
  <2> QED
    BY <2>1, <1>2, <1>12 DEF Data
<1> QED
  BY <1>2, <1>10, <1>11, <1>12

LEMMA KidsSame ==
    ASSUME NEW t \in Threads, Rest, NEW s, NEW h2, InCopy(t, s, h2), s.st = view[t].st, h2[t].kids = th[t].kids
    PROVE  Kids(m, m.st, h2, view', ref)
<1>1. Kids(m, m.st, th, view, ref) /\ view \in [Threads -> State]
  BY DEF Rest, Good
<1>2. /\ \A y \in Threads : view'[y].st = view[y].st /\ h2[y].kids = th[y].kids
  BY <1>1 DEF InCopy, OnlyOf
<1>3. /\ \A y, j \in Threads : Kid(h2, y, j) <=> Kid(th, y, j)
      /\ \A y, j \in Threads : Freed(view', ref, y, j) <=> Freed(view, ref, y, j)
  BY <1>2 DEF Kid, Freed
<1> QED
  BY <1>1, <1>2, <1>3 DEF Kids

LEMMA KidsJoined ==
    ASSUME NEW t \in Threads, Rest, Member(t, m.runq), NEW s, NEW h2, InCopy(t, s, h2),
           NEW j \in Threads, NEW k \in DOMAIN th[t].kids, th[t].kids[k] = j, view[t].st[j] = "EXIT",
           s.st = [view[t].st EXCEPT ![j] = "FREE"], h2[t].kids = [th[t].kids EXCEPT ![k] = NoThread]
    PROVE  Kids(m, m.st, h2, view', ref)
<1>1. Kids(m, m.st, th, view, ref) /\ view \in [Threads -> State]
  BY DEF Rest, Good
<1>2. /\ view[t].st \in [Threads -> States] /\ view'[t].st = s.st
      /\ \A y \in Threads : y # t => view'[y].st = view[y].st /\ h2[y].kids = th[y].kids
  BY <1>1 DEF InCopy, OnlyOf, State
<1>3. NoThread \notin Threads
  BY DSchedAssumption DEF NoThread, Threads
<1>4. Kid(th, t, j)
  BY DEF Kid
<1>5. ref[t].st[j] = "EXIT" /\ m.st[j] = "EXIT" /\ \A y \in Threads : Member(y, m.runq) => ~Freed(view, ref, y, j)
  BY <1>1, <1>4 DEF Kids, Freed
<1>6. /\ \A y \in Threads : DOMAIN h2[y].kids = DOMAIN th[y].kids
      /\ \A y \in Threads : \A i \in DOMAIN h2[y].kids : h2[y].kids[i] = th[y].kids[i] \/ h2[y].kids[i] = NoThread
      /\ h2[t].kids[k] = NoThread
  BY <1>2
<1>7. \A y, i \in Threads : Kid(h2, y, i) => Kid(th, y, i)
  BY <1>3, <1>6 DEF Kid
<1>8. \A y \in Threads : ~Kid(h2, y, j)
  <2> SUFFICES ASSUME NEW y \in Threads, NEW i \in DOMAIN h2[y].kids, h2[y].kids[i] = j PROVE FALSE
    BY DEF Kid
  <2>1. th[y].kids[i] = j /\ i \in DOMAIN th[y].kids
    BY <1>3, <1>6
  <2>2. y = t /\ i = k
    BY <2>1, <1>1, <1>3 DEF Kids
  <2> QED
    BY <2>2, <1>3, <1>6
<1>9. \A y, i \in Threads : Freed(view', ref, y, i) <=> Freed(view, ref, y, i) \/ (y = t /\ i = j)
  BY <1>2, <1>5 DEF Freed
<1>10. view'[t].st[j] = "FREE" /\ \A y, i \in Threads : ~(y = t /\ i = j) => view'[y].st[i] = view[y].st[i]
  BY <1>2
<1>11. \A y, z \in Threads : \A k1 \in DOMAIN h2[y].kids, k2 \in DOMAIN h2[z].kids :
         h2[y].kids[k1] = h2[z].kids[k2] /\ h2[y].kids[k1] # NoThread => y = z /\ k1 = k2
  BY <1>1, <1>6 DEF Kids
<1>12. \A y, i \in Threads : Kid(h2, y, i) => m.st[i] # "FREE" /\ ~m.det[i]
  BY <1>1, <1>7 DEF Kids
<1>13. \A y, i \in Threads : Member(y, m.runq) /\ Freed(view', ref, y, i) =>
         /\ m.st[i] = "EXIT" /\ ref[y].st[i] = "EXIT" /\ view'[y].st[i] = "FREE"
         /\ \A z \in Threads : ~Kid(h2, z, i)
  BY <1>1, <1>5, <1>7, <1>8, <1>9, <1>10 DEF Kids
<1>14. \A y, z, i \in Threads :
         /\ Member(y, m.runq) /\ Freed(view', ref, y, i)
         /\ Member(z, m.runq) /\ Freed(view', ref, z, i)
         => y = z
  BY <1>1, <1>5, <1>9 DEF Kids
<1>15. \A y, i \in Threads : Member(y, m.runq) /\ Kid(h2, y, i) /\ ref[y].st[i] = "EXIT" => m.st[i] = "EXIT"
  BY <1>1, <1>7 DEF Kids
<1> QED
  BY <1>11, <1>12, <1>13, <1>14, <1>15 DEF Kids

-----------------------------------------------------------------------------
(* The library's functions on its state *)

LEMMA Failing ==
    ASSUME NEW s \in State, NEW why \in Panics, why # "no"
    PROVE  /\ Fail(s, why) \in State /\ Fail(s, why).panic # "no"
           /\ Fail(s, why).owner = s.owner /\ Fail(s, why).locked = s.locked /\ Fail(s, why).st = s.st
           /\ Fail(s, why).ev = s.ev /\ Fail(s, why).nwake = s.nwake /\ Fail(s, why).x = s.x
           /\ Fail(s, why).mq = s.mq
<1> DEFINE p == IF s.panic = "no" THEN why ELSE s.panic
<1>1. p \in Panics /\ p # "no" /\ Fail(s, why) = [s EXCEPT !.panic = p]
  BY DEF State, Fail
<1> HIDE DEF p
<1> QED
  BY <1>1 DEF State

LockedTo(s, s2, u, b) == s2 = [s EXCEPT !.locked[u] = b]

LEMMA Locked ==
    ASSUME NEW s \in State, NEW u \in Mutexes, NEW b \in BOOLEAN, NEW s2, LockedTo(s, s2, u, b)
    PROVE  /\ Touched(s, s2, u) /\ s2.owner = s.owner /\ s2.panic = s.panic
           /\ s2.locked[u] = b /\ \A v \in Mutexes : v # u => s2.locked[v] = s.locked[v]
<1> DEFINE locked2 == [s.locked EXCEPT ![u] = b]
<1>1. /\ locked2 \in [Mutexes -> BOOLEAN] /\ locked2[u] = b
      /\ \A v \in Mutexes : v # u => locked2[v] = s.locked[v]
  BY DEF State
<1>2. s2 = [s EXCEPT !.locked = locked2]
  BY DEF LockedTo
<1> HIDE DEF locked2
<1>3. /\ s2 \in State /\ s2.locked = locked2 /\ s2.owner = s.owner /\ s2.panic = s.panic
      /\ s2.mq = s.mq /\ s2.reqs = s.reqs /\ s2.cq = s.cq /\ s2.nwake = s.nwake /\ s2.ev = s.ev
      /\ s2.st = s.st /\ s2.det = s.det /\ s2.joiner = s.joiner /\ s2.ready = s.ready
      /\ s2.runq = s.runq /\ s2.x = s.x
  BY <1>1, <1>2 DEF State
<1> QED
  BY <1>1, <1>3 DEF Touched

LEMMA GrabEffect ==
    ASSUME NEW s \in State, NEW t \in Threads, NEW u \in Mutexes, NEW s2, s2 = Grab(s, t, u)
    PROVE  /\ s2 \in State /\ s2.owner = s.owner /\ s2.st = s.st /\ s2.x = s.x /\ s2.ev = s.ev
           /\ s2.nwake = s.nwake
           /\ s2.locked[u] \/ s.owner[u] # t
           /\ \A v \in Mutexes : s2.locked[v] = s.locked[v] \/ (v = u /\ s2.locked[v] /\ s.owner[u] = t)
           /\ s2.panic = "no" => /\ s.panic = "no" /\ s.owner[u] = t /\ ~s.locked[u]
                                 /\ Touched(s, s2, u) /\ s2.locked[u]
<1>1. "already locked" \in Panics /\ "already locked" # "no"
  BY DEF Panics
<1>2. CASE s.owner[u] # t \/ s.locked[u]
  BY <1>1, <1>2, Failing DEF Grab
<1>3. CASE ~(s.owner[u] # t \/ s.locked[u])
  <2> DEFINE b == TRUE
  <2>1. LockedTo(s, s2, u, b) /\ b \in BOOLEAN
    BY <1>3 DEF Grab, LockedTo
  <2> HIDE DEF b
  <2>2. /\ Touched(s, s2, u) /\ s2.owner = s.owner /\ s2.panic = s.panic
        /\ s2.locked[u] = b /\ \A v \in Mutexes : v # u => s2.locked[v] = s.locked[v]
    BY <2>1, Locked
  <2> USE DEF b
  <2> QED
    BY <1>3, <2>2 DEF Touched
<1> QED
  BY <1>2, <1>3

LEMMA ReleaseEffect ==
    ASSUME NEW s \in State, NEW t \in Threads, NEW u \in Mutexes, NEW s2, s2 = Release(s, t, u)
    PROVE  /\ s2 \in State /\ s2.owner = s.owner /\ s2.st = s.st /\ s2.x = s.x /\ s2.ev = s.ev
           /\ s2.nwake = s.nwake
           /\ ~s2.locked[u] \/ s.owner[u] # t
           /\ \A v \in Mutexes : s2.locked[v] = s.locked[v] \/ (v = u /\ s.owner[u] = t)
           /\ s2.panic = "no" => /\ s.panic = "no" /\ s.owner[u] = t /\ s.locked[u]
                                 /\ Touched(s, s2, u) /\ ~s2.locked[u] /\ s2 = [s EXCEPT !.locked[u] = FALSE]
<1>1. "not locked" \in Panics /\ "not locked" # "no"
  BY DEF Panics
<1>2. CASE s.owner[u] # t \/ ~s.locked[u]
  BY <1>1, <1>2, Failing DEF Release
<1>3. CASE ~(s.owner[u] # t \/ ~s.locked[u])
  <2> DEFINE b == FALSE
  <2>1. LockedTo(s, s2, u, b) /\ b \in BOOLEAN
    BY <1>3 DEF Release, LockedTo
  <2> HIDE DEF b
  <2>2. /\ Touched(s, s2, u) /\ s2.owner = s.owner /\ s2.panic = s.panic
        /\ s2.locked[u] = b /\ \A v \in Mutexes : v # u => s2.locked[v] = s.locked[v]
    BY <2>1, Locked
  <2> USE DEF b
  <2> QED
    BY <1>3, <2>1, <2>2 DEF Touched, LockedTo
<1> QED
  BY <1>2, <1>3

LEMMA StealEffect ==
    ASSUME NEW s \in State, NEW t \in Threads, NEW u \in Mutexes, NEW s2, s2 = Steal(s, t, u)
    PROVE  /\ s2 \in State /\ s2.x = s.x /\ s2.locked = s.locked
           /\ s2.panic = "no" => /\ s.panic = "no" /\ s.mq[u] = <<>> /\ s2.owner[u] = t
                                 /\ Touched(s, s2, u)
<1>1. "stolen with a queue" \in Panics /\ "stolen with a queue" # "no"
  BY DEF Panics
<1>2. CASE s.mq[u] # <<>>
  BY <1>1, <1>2, Failing DEF Steal
<1>3. CASE s.mq[u] = <<>>
  <2> DEFINE owner2 == [s.owner EXCEPT ![u] = t]
  <2>1. /\ owner2 \in [Mutexes -> Threads] /\ owner2[u] = t
        /\ \A v \in Mutexes : v # u => owner2[v] = s.owner[v]
    BY DEF State
  <2>2. s2 = [s EXCEPT !.owner = owner2]
    BY <1>3 DEF Steal
  <2> HIDE DEF owner2
  <2>3. /\ s2 \in State /\ s2.locked = s.locked /\ s2.owner = owner2 /\ s2.panic = s.panic
        /\ s2.mq = s.mq /\ s2.reqs = s.reqs /\ s2.cq = s.cq /\ s2.nwake = s.nwake /\ s2.ev = s.ev
        /\ s2.st = s.st /\ s2.det = s.det /\ s2.joiner = s.joiner /\ s2.ready = s.ready
        /\ s2.runq = s.runq /\ s2.x = s.x
    BY <2>1, <2>2 DEF State
  <2> QED
    BY <1>3, <2>1, <2>3 DEF Touched
<1> QED
  BY <1>2, <1>3

LEMMA CondEventEffect ==
    ASSUME NEW s \in State, Signalled(s), NEW o, o.c \in Conds, NEW s2, s2 = CondEvent(s, o)
    PROVE  /\ s2 \in State /\ s2.owner = s.owner /\ s2.locked = s.locked /\ s2.mq = s.mq /\ s2.reqs = s.reqs
           /\ s2.cq = s.cq /\ s2.st = s.st /\ s2.det = s.det /\ s2.joiner = s.joiner /\ s2.ready = s.ready
           /\ s2.runq = s.runq /\ s2.x = s.x /\ s2.panic = s.panic /\ Signalled(s2)
<1> DEFINE e == IF s.nwake[o.c] = 0 THEN <<o.c>> \o s.ev ELSE s.ev
           n == IF o.op = "broadcast" THEN MAXTHREADS
                ELSE IF s.nwake[o.c] < MAXTHREADS THEN s.nwake[o.c] + 1 ELSE s.nwake[o.c]
           nwake2 == [s.nwake EXCEPT ![o.c] = n]
<1>1. s.ev \in Seq(Conds) /\ s.nwake \in [Conds -> 0 .. MAXTHREADS] /\ MAXTHREADS \in Nat
  BY DSchedAssumption DEF State
<1>2. e \in Seq(Conds) /\ \A c : Member(c, e) <=> Member(c, s.ev) \/ (c = o.c /\ s.nwake[o.c] = 0)
  <2>1. <<o.c>> \o s.ev \in Seq(Conds) /\ \A c : Member(c, <<o.c>> \o s.ev) <=> Member(c, s.ev) \/ c = o.c
    BY <1>1, InCons
  <2> QED
    BY <1>1, <2>1
<1>3. n \in 0 .. MAXTHREADS
  BY <1>1
<1>4. s2 = [s EXCEPT !.ev = e, !.nwake = nwake2]
  BY DEF CondEvent
<1> HIDE DEF e, n
<1>5. nwake2 \in [Conds -> 0 .. MAXTHREADS] /\ \A c \in Conds : c # o.c => nwake2[c] = s.nwake[c]
  BY <1>1, <1>3
<1> HIDE DEF nwake2
<1>6. /\ s2 \in State /\ s2.owner = s.owner /\ s2.locked = s.locked /\ s2.mq = s.mq /\ s2.reqs = s.reqs
      /\ s2.cq = s.cq /\ s2.st = s.st /\ s2.det = s.det /\ s2.joiner = s.joiner /\ s2.ready = s.ready
      /\ s2.runq = s.runq /\ s2.x = s.x /\ s2.panic = s.panic /\ s2.ev = e /\ s2.nwake = nwake2
  BY <1>2, <1>4, <1>5 DEF State
<1>7. Signalled(s2)
  BY <1>2, <1>5, <1>6 DEF Signalled
<1> QED
  BY <1>6, <1>7

-----------------------------------------------------------------------------
(* Each step of a slice keeps the invariant. *)

Kept ==
    /\ Rest'
    /\ ExitsUnlocked /\ Lost(m, m.st, th, view) => Lost(m, m.st, th, view)'
    /\ AddsLocked /\ Data(m, view, ref, total) => Data(m, view, ref, total)'

LEMMA InSliceRuns ==
    ASSUME NEW t \in Threads, Rest, th[t].stage = "user"
    PROVE  /\ Member(t, m.runq) /\ ThreadsOK(th) /\ th[t] \in Thread
           /\ view[t] \in State /\ view[t].panic = "no" /\ Signalled(view[t])
           /\ \A u \in Mutexes : view[t].owner[u] = t <=> m.owner[u] = t
           /\ \A u \in th[t].holds : view[t].owner[u] = t /\ view[t].locked[u]
           /\ Lost(m, m.st, th, view) =>
                \A u \in Mutexes : view[t].owner[u] = t /\ view[t].locked[u] => u \in th[t].holds
<1>1. Member(t, m.runq) /\ ThreadsOK(th) /\ th[t] \in Thread
  BY DEF Rest, InChild, Good, ThreadsOK
<1>2. Copies(m, th, view, ref) /\ Locks(m, th, view) /\ m \in State
  BY DEF Rest, Good
<1>3. /\ view[t] \in State /\ view[t].panic = "no" /\ Signalled(view[t])
      /\ \A u \in Mutexes : view[t].owner[u] = t <=> m.owner[u] = t
  BY <1>1, <1>2 DEF Copies, Signalled
<1>4. th[t].holds \in SUBSET Mutexes
  BY <1>1 DEF Thread
<1>5. \A u \in th[t].holds : view[t].owner[u] = t /\ view[t].locked[u]
  BY <1>1, <1>2, <1>3, <1>4 DEF Locks
<1>6. ASSUME Lost(m, m.st, th, view), NEW u \in Mutexes, view[t].owner[u] = t, view[t].locked[u]
      PROVE  u \in th[t].holds
  BY <1>1, <1>3, <1>6 DEF Lost
<1> QED
  BY <1>1, <1>3, <1>5, <1>6

LEMMA FastCopy ==
    ASSUME NEW t \in Threads, NEW s, NEW self, NEW stage, NEW kids, NEW holds,
           Becomes(self, t, stage, kids, holds), Fast(t, s, self)
    PROVE  \E h2 : /\ InCopy(t, s, h2) /\ h2[t].kids = kids /\ h2[t].holds = holds
                   /\ total' = total /\ clash' = clash
<1>1. PICK new \in (IF s.panic = "no" THEN {"user"} ELSE {"returning"})
                   \cup (IF npreempt < MaxPreempt THEN {"returning"} ELSE {}) :
         th' = [self EXCEPT ![t].stage = new]
  BY DEF Fast
<1>2. new \in {"user", "returning"} /\ (s.panic # "no" => new = "returning")
  BY <1>1
<1>3. new \in Stages /\ new \in InChild
  BY <1>2 DEF Stages, InChild
<1>4. Becomes(th', t, new, kids, holds)
  BY <1>1, <1>3, StageBecomes
<1>5. InCopy(t, s, th')
  BY <1>2, <1>3, <1>4 DEF InCopy, Becomes, Fast
<1> QED
  BY <1>4, <1>5 DEF Becomes, Fast

LEMMA StopCopy ==
    ASSUME NEW t \in Threads, Rest, th[t].stage = "user", NEW stage \in InChild, Stop(t, stage)
    PROVE  Kept /\ clash' = clash
<1>1. /\ Member(t, m.runq) /\ ThreadsOK(th) /\ view \in [Threads -> State]
      /\ view[t] \in State /\ view[t].panic = "no" /\ Signalled(view[t])
      /\ \A u \in th[t].holds : view[t].owner[u] = t /\ view[t].locked[u]
      /\ Lost(m, m.st, th, view) =>
                \A u \in Mutexes : view[t].owner[u] = t /\ view[t].locked[u] => u \in th[t].holds
  BY InSliceRuns DEF Rest
<1>2. th' = At(t, stage) /\ stage \in Stages
  BY DEF Stop, At, InChild, Stages
<1>3. Becomes(th', t, stage, th[t].kids, th[t].holds)
  BY <1>1, <1>2, AtBecomes
<1>4. view' = [view EXCEPT ![t] = view[t]]
  BY <1>1 DEF Stop
<1>5. InCopy(t, view[t], th')
  BY <1>1, <1>3, <1>4 DEF InCopy, Becomes, Stop
<1>6. th'[t].kids = th[t].kids /\ th'[t].holds = th[t].holds /\ total' = total /\ clash' = clash
  BY <1>3 DEF Becomes, Stop
<1>7. Kids(m, m.st, th', view', ref)
  BY <1>5, <1>6, KidsSame
<1>8. /\ Rest'
      /\ Lost(m, m.st, th, view) => Lost(m, m.st, th, view)'
      /\ Data(m, view, ref, total) => Data(m, view, ref, total)'
  <2> DEFINE s == view[t]
  <2>1. \A u \in th'[t].holds : view[t].owner[u] = t /\ s.locked[u]
    BY <1>1, <1>6
  <2>2. Lost(m, m.st, th, view) => \A u \in Mutexes : view[t].owner[u] = t /\ s.locked[u] => u \in th'[t].holds
    BY <1>1, <1>6
  <2>3. /\ s \in State /\ s.owner = view[t].owner /\ Signalled(s) /\ InCopy(t, s, th') /\ s.x = view[t].x
        /\ \A u \in Mutexes : s.locked[u] # view[t].locked[u] => view[t].owner[u] = t
    BY <1>1, <1>5
  <2> HIDE DEF s
  <2> QED
    BY <1>1, <1>6, <1>7, <2>1, <2>2, <2>3, CopyRest
<1> QED
  BY <1>6, <1>8 DEF Kept

(* An operation of the library on the copy, except pthread_join. *)
LEMMA FastKeeps ==
    ASSUME NEW t \in Threads, Rest, th[t].stage = "user", NEW s \in State, NEW self, NEW stage, NEW holds,
           Becomes(self, t, stage, th[t].kids, holds), Fast(t, s, self),
           s.owner = view[t].owner, s.st = view[t].st, s.x = view[t].x, Signalled(s),
           \A u \in Mutexes : s.locked[u] # view[t].locked[u] => view[t].owner[u] = t,
           \A u \in holds : view[t].owner[u] = t /\ s.locked[u],
           Lost(m, m.st, th, view) =>
             \A u \in Mutexes : view[t].owner[u] = t /\ s.locked[u] => u \in holds
    PROVE  Kept /\ clash' = clash
<1>1. PICK h2 : InCopy(t, s, h2) /\ h2[t].kids = th[t].kids /\ h2[t].holds = holds
                /\ total' = total /\ clash' = clash
  BY FastCopy
<1>2. Kids(m, m.st, h2, view', ref)
  BY <1>1, KidsSame
<1>3. Member(t, m.runq)
  BY InSliceRuns
<1>4. \A u \in h2[t].holds : view[t].owner[u] = t /\ s.locked[u]
  BY <1>1
<1>5. /\ Rest'
      /\ Lost(m, m.st, th, view) => Lost(m, m.st, th, view)'
      /\ Data(m, view, ref, total) => Data(m, view, ref, total)'
  BY <1>1, <1>2, <1>3, <1>4, CopyRest
<1> QED
  BY <1>1, <1>5 DEF Kept

LEMMA GrabKeeps ==
    ASSUME NEW t \in Threads, Rest, th[t].stage = "user", NEW u \in Mutexes, view[t].owner[u] = t,
           Op(t).op \notin {"exit", "end"}, Fast(t, Grab(view[t], t, u), Holding(t, u))
    PROVE  Kept /\ clash' = clash
<1> DEFINE s == Grab(view[t], t, u)
           holds == th[t].holds \cup {u}
<1>1. /\ ThreadsOK(th) /\ view[t] \in State /\ Signalled(view[t]) /\ th[t].holds \subseteq Mutexes
      /\ \A v \in th[t].holds : view[t].owner[v] = t /\ view[t].locked[v]
      /\ Lost(m, m.st, th, view) =>
                \A v \in Mutexes : view[t].owner[v] = t /\ view[t].locked[v] => v \in th[t].holds
  BY InSliceRuns DEF Thread
<1>2. Becomes(Holding(t, u), t, th[t].stage, th[t].kids, holds)
  BY <1>1, HoldingBecomes
<1>3. /\ s \in State /\ s.owner = view[t].owner /\ s.st = view[t].st /\ s.x = view[t].x /\ s.ev = view[t].ev
      /\ s.nwake = view[t].nwake /\ s.locked[u]
      /\ \A v \in Mutexes : s.locked[v] = view[t].locked[v] \/ (v = u /\ s.locked[v] /\ view[t].owner[u] = t)
  BY <1>1, GrabEffect
<1>4. Fast(t, s, Holding(t, u))
  OBVIOUS
<1> HIDE DEF s
<1>5. Signalled(s)
  BY <1>1, <1>3 DEF Signalled
<1>6. /\ \A v \in Mutexes : s.locked[v] # view[t].locked[v] => view[t].owner[v] = t
      /\ \A v \in holds : view[t].owner[v] = t /\ s.locked[v]
      /\ Lost(m, m.st, th, view) => \A v \in Mutexes : view[t].owner[v] = t /\ s.locked[v] => v \in holds
  BY <1>1, <1>3
<1> HIDE DEF holds
<1> QED
  BY <1>2, <1>3, <1>4, <1>5, <1>6, FastKeeps

LEMMA MutexLockKeeps ==
    ASSUME NEW t \in Threads, Rest, MutexLock(t)
    PROVE  Kept /\ clash' = clash
<1>1. th[t].stage = "user" /\ Op(t).op = "lock"
  BY DEF MutexLock, InSlice
<1>2. Op(t).u \in Mutexes
  BY <1>1, InSliceRuns, OpKinds
<1>3. CASE view[t].owner[Op(t).u] = t /\ Fast(t, Grab(view[t], t, Op(t).u), Holding(t, Op(t).u))
  BY <1>1, <1>2, <1>3, GrabKeeps
<1>4. CASE MCall(t)
  BY <1>1, <1>4, StopCopy DEF MCall, InChild
<1> QED
  BY <1>3, <1>4 DEF MutexLock

LEMMA MutexTrylockKeeps ==
    ASSUME NEW t \in Threads, Rest, MutexTrylock(t)
    PROVE  Kept /\ clash' = clash
<1>1. th[t].stage = "user" /\ Op(t).op = "trylock"
  BY DEF MutexTrylock, InSlice
<1>2. Op(t).u \in Mutexes
  BY <1>1, InSliceRuns, OpKinds
<1>3. CASE view[t].owner[Op(t).u] = t /\ Fast(t, Grab(view[t], t, Op(t).u), Holding(t, Op(t).u))
  BY <1>1, <1>2, <1>3, GrabKeeps
<1>4. CASE Fast(t, view[t], Elsewhere(t))
  <2> DEFINE s == view[t]
  <2>1. Becomes(Elsewhere(t), t, th[t].stage, th[t].kids, th[t].holds)
    BY <1>1, InSliceRuns, ElsewhereBecomes
  <2>2. /\ s \in State /\ Signalled(s) /\ s.owner = view[t].owner /\ s.st = view[t].st /\ s.x = view[t].x
        /\ \A v \in Mutexes : s.locked[v] # view[t].locked[v] => view[t].owner[v] = t
        /\ \A v \in th[t].holds : view[t].owner[v] = t /\ s.locked[v]
        /\ Lost(m, m.st, th, view) =>
                \A v \in Mutexes : view[t].owner[v] = t /\ s.locked[v] => v \in th[t].holds
    BY <1>1, InSliceRuns
  <2>3. Fast(t, s, Elsewhere(t))
    BY <1>4
  <2> HIDE DEF s
  <2> QED
    BY <1>1, <2>1, <2>2, <2>3, FastKeeps
<1> QED
  BY <1>3, <1>4 DEF MutexTrylock

LEMMA MutexUnlockKeeps ==
    ASSUME NEW t \in Threads, Rest, MutexUnlock(t)
    PROVE  Kept /\ clash' = clash
<1> DEFINE u == Op(t).u
           s == Release(view[t], t, u)
           holds == th[t].holds \ {u}
<1>1. th[t].stage = "user" /\ Op(t).op = "unlock" /\ Fast(t, s, Released(t, u))
  BY DEF MutexUnlock, InSlice
<1>2. /\ ThreadsOK(th) /\ view[t] \in State /\ Signalled(view[t]) /\ th[t].holds \subseteq Mutexes
      /\ \A v \in th[t].holds : view[t].owner[v] = t /\ view[t].locked[v]
      /\ Lost(m, m.st, th, view) =>
                \A v \in Mutexes : view[t].owner[v] = t /\ view[t].locked[v] => v \in th[t].holds
  BY <1>1, InSliceRuns DEF Thread
<1>3. u \in Mutexes /\ Op(t).op \notin {"exit", "end"}
  BY <1>1, <1>2, OpKinds
<1> HIDE DEF u
<1>4. Becomes(Released(t, u), t, th[t].stage, th[t].kids, holds)
  BY <1>2, <1>3, HoldingBecomes
<1>5. /\ s \in State /\ s.owner = view[t].owner /\ s.st = view[t].st /\ s.x = view[t].x /\ s.ev = view[t].ev
      /\ s.nwake = view[t].nwake /\ (~s.locked[u] \/ view[t].owner[u] # t)
      /\ \A v \in Mutexes : s.locked[v] = view[t].locked[v] \/ (v = u /\ view[t].owner[u] = t)
  BY <1>2, <1>3, ReleaseEffect
<1> HIDE DEF s
<1>6. Signalled(s)
  BY <1>2, <1>5 DEF Signalled
<1>7. /\ \A v \in Mutexes : s.locked[v] # view[t].locked[v] => view[t].owner[v] = t
      /\ \A v \in holds : view[t].owner[v] = t /\ s.locked[v]
      /\ Lost(m, m.st, th, view) => \A v \in Mutexes : view[t].owner[v] = t /\ s.locked[v] => v \in holds
  BY <1>2, <1>5
<1> HIDE DEF holds
<1> QED
  BY <1>1, <1>4, <1>5, <1>6, <1>7, FastKeeps

LEMMA CondSignalKeeps ==
    ASSUME NEW t \in Threads, Rest, CondSignal(t)
    PROVE  Kept /\ clash' = clash
<1> DEFINE s == IF view[t].cq[Op(t).c] = <<>> THEN view[t] ELSE CondEvent(view[t], Op(t))
<1>1. th[t].stage = "user" /\ Op(t).op \in {"signal", "broadcast"} /\ Fast(t, s, Next1(t))
  BY DEF CondSignal, InSlice
<1>2. /\ ThreadsOK(th) /\ view[t] \in State /\ Signalled(view[t])
      /\ \A v \in th[t].holds : view[t].owner[v] = t /\ view[t].locked[v]
      /\ Lost(m, m.st, th, view) =>
                \A v \in Mutexes : view[t].owner[v] = t /\ view[t].locked[v] => v \in th[t].holds
  BY <1>1, InSliceRuns
<1>3. Op(t).c \in Conds /\ Op(t).op \notin {"exit", "end"}
  BY <1>1, <1>2, OpKinds
<1>4. Becomes(Next1(t), t, th[t].stage, th[t].kids, th[t].holds)
  BY <1>2, <1>3, Next1Becomes
<1>5. /\ s \in State /\ s.owner = view[t].owner /\ s.st = view[t].st /\ s.x = view[t].x /\ Signalled(s)
      /\ s.locked = view[t].locked
  <2>1. CASE view[t].cq[Op(t).c] = <<>>
    BY <2>1, <1>2
  <2>2. CASE view[t].cq[Op(t).c] # <<>>
    <3>1. s = CondEvent(view[t], Op(t))
      BY <2>2
    <3> QED
      BY <3>1, <1>2, <1>3, CondEventEffect
  <2> QED
    BY <2>1, <2>2
<1> HIDE DEF s
<1>6. /\ \A v \in Mutexes : s.locked[v] # view[t].locked[v] => view[t].owner[v] = t
      /\ \A v \in th[t].holds : view[t].owner[v] = t /\ s.locked[v]
      /\ Lost(m, m.st, th, view) => \A v \in Mutexes : view[t].owner[v] = t /\ s.locked[v] => v \in th[t].holds
  BY <1>2, <1>5
<1> QED
  BY <1>1, <1>4, <1>5, <1>6, FastKeeps

LEMMA JoinKeeps ==
    ASSUME NEW t \in Threads, Rest, JoinsOwn, Join(t)
    PROVE  Kept /\ clash' = clash
<1> DEFINE tj == th[t].kids[Op(t).k]
           s == [view[t] EXCEPT !.st[tj] = "FREE"]
           kids == [th[t].kids EXCEPT ![Op(t).k] = NoThread]
<1>1. th[t].stage = "user" /\ Op(t).op = "join"
  BY DEF Join, InSlice
<1>2. Op(t).k \in DOMAIN th[t].kids /\ tj \in Threads
  BY <1>1 DEF JoinsOwn
<1>3. CASE MCall(t)
  BY <1>1, <1>3, StopCopy DEF MCall, InChild
<1>4. CASE view[t].st[tj] = "EXIT" /\ Fast(t, s, Joined(t))
  <2>1. /\ ThreadsOK(th) /\ view[t] \in State /\ Signalled(view[t]) /\ Member(t, m.runq)
        /\ \A v \in th[t].holds : view[t].owner[v] = t /\ view[t].locked[v]
        /\ Lost(m, m.st, th, view) =>
                \A v \in Mutexes : view[t].owner[v] = t /\ view[t].locked[v] => v \in th[t].holds
    BY <1>1, InSliceRuns
  <2>2. Becomes(Joined(t), t, th[t].stage, kids, th[t].holds)
    BY <1>1, <1>2, <2>1, JoinedBecomes
  <2> HIDE DEF kids
  <2>3. PICK h2 : InCopy(t, s, h2) /\ h2[t].kids = kids /\ h2[t].holds = th[t].holds
                  /\ total' = total /\ clash' = clash
    BY <1>4, <2>2, FastCopy
  <2> DEFINE st2 == [view[t].st EXCEPT ![tj] = "FREE"]
  <2>4. st2 \in [Threads -> States]
    BY <1>2, <2>1 DEF State, States
  <2>5. s = [view[t] EXCEPT !.st = st2]
    OBVIOUS
  <2> HIDE DEF st2, s
  <2>6. /\ s \in State /\ s.owner = view[t].owner /\ s.locked = view[t].locked /\ s.st = st2
        /\ s.x = view[t].x /\ s.ev = view[t].ev /\ s.nwake = view[t].nwake
    BY <2>1, <2>4, <2>5 DEF State
  <2>7. Kids(m, m.st, h2, view', ref)
    <3>1. s.st = [view[t].st EXCEPT ![tj] = "FREE"]
      BY <2>6 DEF st2
    <3>2. h2[t].kids = [th[t].kids EXCEPT ![Op(t).k] = NoThread]
      BY <2>3 DEF kids
    <3> QED
      BY <1>2, <1>4, <2>1, <2>3, <3>1, <3>2, KidsJoined
  <2>8. /\ Signalled(s)
        /\ \A v \in Mutexes : s.locked[v] # view[t].locked[v] => view[t].owner[v] = t
        /\ \A v \in h2[t].holds : view[t].owner[v] = t /\ s.locked[v]
        /\ Lost(m, m.st, th, view) => \A v \in Mutexes : view[t].owner[v] = t /\ s.locked[v] => v \in h2[t].holds
    BY <2>1, <2>3, <2>6 DEF Signalled
  <2>9. /\ Rest'
        /\ Lost(m, m.st, th, view) => Lost(m, m.st, th, view)'
        /\ Data(m, view, ref, total) => Data(m, view, ref, total)'
    BY <2>1, <2>3, <2>6, <2>7, <2>8, CopyRest
  <2> QED
    BY <2>3, <2>9 DEF Kept
<1> QED
  BY <1>3, <1>4 DEF Join

LEMMA ComputeKeeps ==
    ASSUME NEW t \in Threads, Rest, Compute(t)
    PROVE  Kept /\ clash' = clash
<1>1. th[t].stage = "user" /\ m' = m /\ ref' = ref /\ clash' = clash
  BY DEF Compute, InSlice
<1>2. /\ ThreadsOK(th) /\ view[t] \in State /\ Signalled(view[t]) /\ Member(t, m.runq)
      /\ view \in [Threads -> State] /\ th[t].holds \subseteq Mutexes /\ view[t].panic = "no"
      /\ \A v \in th[t].holds : view[t].owner[v] = t /\ view[t].locked[v]
      /\ Lost(m, m.st, th, view) =>
              \A v \in Mutexes : view[t].owner[v] = t /\ view[t].locked[v] => v \in th[t].holds
  BY <1>1, InSliceRuns DEF Rest, Thread
<1>3. "user" \in InChild /\ "exiting" \in InChild /\ "user" \in Stages /\ "exiting" \in Stages
  BY DEF InChild, Stages
<1>4. CASE Op(t).op = "add" /\ view' = [view EXCEPT ![t].x = @ + 1] /\ total' = total + 1 /\ th' = Next1(t)
  <2> DEFINE x2 == view[t].x + 1
             s == [view[t] EXCEPT !.x = x2]
  <2>1. Becomes(th', t, th[t].stage, th[t].kids, th[t].holds)
    BY <1>2, <1>4, Next1Becomes
  <2>2. view' = [view EXCEPT ![t] = s]
    BY <1>4
  <2>3. x2 \in Nat
    BY <1>2 DEF State
  <2> HIDE DEF x2
  <2>4. /\ s \in State /\ s.owner = view[t].owner /\ s.locked = view[t].locked /\ s.st = view[t].st
        /\ s.x = x2 /\ s.ev = view[t].ev /\ s.nwake = view[t].nwake /\ s.panic = view[t].panic
    BY <1>2, <2>3 DEF State
  <2> HIDE DEF s
  <2>5. InCopy(t, s, th') /\ th'[t].kids = th[t].kids /\ th'[t].holds = th[t].holds
    BY <1>1, <1>2, <1>3, <2>1, <2>2, <2>4 DEF InCopy, Becomes
  <2>6. Kids(m, m.st, th', view', ref)
    BY <2>4, <2>5, KidsSame
  <2>7. /\ Signalled(s)
        /\ \A v \in Mutexes : s.locked[v] # view[t].locked[v] => view[t].owner[v] = t
        /\ \A v \in th'[t].holds : view[t].owner[v] = t /\ s.locked[v]
        /\ Lost(m, m.st, th, view) => \A v \in Mutexes : view[t].owner[v] = t /\ s.locked[v] => v \in th'[t].holds
    BY <1>2, <2>4, <2>5 DEF Signalled
  <2>8. Rest' /\ (Lost(m, m.st, th, view) => Lost(m, m.st, th, view)')
    BY <1>2, <2>4, <2>5, <2>6, <2>7, CopyRest
  <2>9. ASSUME AddsLocked, Data(m, view, ref, total) PROVE Data(m', view', ref', total')
    <3>1. DataMutex \in th[t].holds
      BY <1>1, <1>4, <2>9 DEF AddsLocked
    <3>2. m.owner[DataMutex] = t
      BY <3>1, <1>1, <1>2, InSliceRuns
    <3>3. m.x = ref[t].x /\ view[t].x = total /\ \A y \in Threads : Member(y, m.runq) /\ y # t => view[y].x = ref[y].x
      BY <1>2, <2>9, <3>2 DEF Data
    <3>4. view'[t].x = total' /\ \A y \in Threads : y # t => view'[y] = view[y]
      BY <1>2, <1>4, <2>2, <2>4, <3>3 DEF x2
    <3> QED
      BY <1>1, <1>2, <3>2, <3>3, <3>4 DEF Data
  <2> QED
    BY <1>1, <2>8, <2>9 DEF Kept
<1>5. CASE /\ th' = Next1(t) \/ th' = At(t, "exiting")
           /\ Op(t).op = "end" \/ th' = Next1(t)
           /\ th' = Next1(t) => Op(t).op \notin {"exit", "end"}
           /\ view' = view /\ total' = total
  <2>1. InCopy(t, view[t], th') /\ th'[t].kids = th[t].kids /\ th'[t].holds = th[t].holds
    <3>1. Becomes(th', t, th'[t].stage, th[t].kids, th[t].holds) /\ th'[t].stage \in InChild
      <4>1. CASE th' = Next1(t)
        <5>1. Becomes(th', t, th[t].stage, th[t].kids, th[t].holds)
          BY <1>2, <1>5, <4>1, Next1Becomes
        <5> QED
          BY <1>1, <1>3, <5>1 DEF Becomes
      <4>2. CASE th' = At(t, "exiting")
        <5>1. Becomes(th', t, "exiting", th[t].kids, th[t].holds)
          BY <1>2, <1>3, <4>2, AtBecomes
        <5> QED
          BY <1>3, <5>1 DEF Becomes
      <4> QED
        BY <1>5, <4>1, <4>2
    <3>2. view' = [view EXCEPT ![t] = view[t]]
      BY <1>2, <1>5
    <3> QED
      BY <1>1, <1>2, <3>1, <3>2 DEF InCopy, Becomes
  <2> DEFINE s == view[t]
  <2>2. Kids(m, m.st, th', view', ref)
    BY <2>1, KidsSame
  <2>3. /\ s \in State /\ s.owner = view[t].owner /\ Signalled(s) /\ InCopy(t, s, th') /\ s.x = view[t].x
        /\ \A v \in Mutexes : s.locked[v] # view[t].locked[v] => view[t].owner[v] = t
        /\ \A v \in th'[t].holds : view[t].owner[v] = t /\ s.locked[v]
        /\ Lost(m, m.st, th, view) => \A v \in Mutexes : view[t].owner[v] = t /\ s.locked[v] => v \in th'[t].holds
    BY <1>2, <2>1
  <2> HIDE DEF s
  <2>4. /\ Rest'
        /\ Lost(m, m.st, th, view) => Lost(m, m.st, th, view)'
        /\ Data(m, view, ref, total) => Data(m, view, ref, total)'
    BY <1>2, <1>5, <2>2, <2>3, CopyRest
  <2> QED
    BY <1>1, <2>4 DEF Kept
<1>6. \/ Op(t).op = "add" /\ view' = [view EXCEPT ![t].x = @ + 1] /\ total' = total + 1 /\ th' = Next1(t)
      \/ Op(t).op \in {"await", "spin"} /\ th' = Next1(t) /\ view' = view /\ total' = total
      \/ Op(t).op = "end" /\ th' = At(t, "exiting") /\ view' = view /\ total' = total
  BY DEF Compute, Next1, At
<1> QED
  <2>1. CASE Op(t).op \in {"await", "spin"} /\ th' = Next1(t) /\ view' = view /\ total' = total
    BY <1>5, <2>1
  <2>2. CASE Op(t).op = "end" /\ th' = At(t, "exiting") /\ view' = view /\ total' = total
    <3>1. th'[t].stage = "exiting" /\ Next1(t)[t].stage = "user"
      BY <1>1, <1>2, <2>2 DEF At, Next1, ThreadsOK, Thread
    <3> QED
      BY <1>5, <2>2, <3>1
  <2> QED
    BY <1>4, <1>6, <2>1, <2>2

LEMMA SliceKeeps ==
    ASSUME NEW t \in Threads, Rest, JoinsOwn, Slice(t) \/ Preempt(t)
    PROVE  Kept /\ clash' = clash
<1>1. CASE CallMaster(t)
  BY <1>1, StopCopy DEF CallMaster, MCall, InChild, InSlice
<1>2. CASE Preempt(t)
  BY <1>2, StopCopy DEF Preempt, InChild, InSlice
<1> QED
  BY <1>1, <1>2, MutexLockKeeps, MutexTrylockKeeps, MutexUnlockKeeps, CondSignalKeeps, JoinKeeps, ComputeKeeps
  DEF Slice

-----------------------------------------------------------------------------
(* The master on its way with thread t, from the library's state m to s *)

Way(s, self, t, w) ==
    /\ Mid(s, self, view, ref, t, w) /\ Signalled(s) /\ Others(s, self, t)
    /\ ExitsUnlocked /\ Lost(m, m.st, th, view) => Lost(s, [s.st EXCEPT ![t] = w], self, view)
    /\ Data(m, view, ref, total) => Data(s, view, ref, total)

LEMMA NotFailed ==
    ASSUME NEW t \in Threads, NEW s \in State, NEW s2, m' = [Tevents(s, t) EXCEPT !.runq = s2]
                                                       \/ m' = [Tevents(s, t) EXCEPT !.st = s2]
    PROVE  (m'.panic = "no" => s.panic = "no") /\ m'.x = s.x
<1> DEFINE s1 == Tevents(s, t)
<1>1. Same(s, s1) /\ {"panic", "x"} \subseteq DOMAIN s1
  BY TeventsSame DEF Same, State
<1>2. m' = [s1 EXCEPT !.runq = s2] \/ m' = [s1 EXCEPT !.st = s2]
  OBVIOUS
<1> HIDE DEF s1
<1>3. m'.panic = s1.panic /\ m'.x = s1.x
  BY <1>1, <1>2
<1> QED
  BY <1>1, <1>3 DEF Same

LEMMA RestartsSame ==
    ASSUME NEW t \in Threads, NEW s \in State, NEW self, Restarts(t, s, self)
    PROVE  (m'.panic = "no" => s.panic = "no") /\ m'.x = s.x
<1>1. m' = [Tevents(s, t) EXCEPT !.runq = Append(Tevents(s, t).runq, t)]
  BY DEF Restarts, StartSlice, Trun
<1> QED
  BY <1>1, NotFailed

LEMMA BlockSame ==
    ASSUME NEW t \in Threads, NEW s \in State, NEW self, NEW w, Block(t, s, w, self)
    PROVE  (m'.panic = "no" => s.panic = "no") /\ m'.x = s.x
<1>1. m' = [Tevents(s, t) EXCEPT !.st = [Tevents(s, t).st EXCEPT ![t] = w]]
  BY DEF Block, Tblock
<1> QED
  BY <1>1, NotFailed

LEMMA RestartsKeeps ==
    ASSUME NEW t \in Threads, Rest, NEW s \in State, NEW self, s.panic = "no" => Way(s, self, t, "OFF"),
           Restarts(t, s, self), m'.panic = "no"
    PROVE  Kept
<1>1. Way(s, self, t, "OFF")
  BY RestartsSame
<1>2. view \in [Threads -> State] /\ ref \in [Threads -> State]
  BY DEF Rest
<1>3. /\ Rest'
      /\ Lost(s, [s.st EXCEPT ![t] = "OFF"], self, view) => Lost(m, m.st, th, view)'
      /\ Data(s, view, ref, total) => Data(m, view, ref, total)'
  <2>1. Mid(s, self, view, ref, t, "OFF") /\ Signalled(s) /\ Others(s, self, t)
    BY <1>1 DEF Way
  <2> QED
    BY <1>2, <2>1, SliceRest, Zenon
<1> QED
  BY <1>1, <1>3 DEF Way, Kept

LEMMA MretKeeps ==
    ASSUME NEW t \in Threads, Rest, NEW s \in State, NEW self, s.panic = "no" => Way(s, self, t, "OFF"),
           Mret(t, s, self), m'.panic = "no"
    PROVE  Kept
<1>1. Restarts(t, s, self)
  BY DEF Mret, Restarts
<1> QED
  BY <1>1, RestartsKeeps

LEMMA BlockKeeps ==
    ASSUME NEW t \in Threads, Rest, NEW s \in State, NEW self, NEW w \in States, w # "RUN",
           s.panic = "no" => Way(s, self, t, w) /\ self[t].stage \notin InChild,
           Block(t, s, w, self), m'.panic = "no"
    PROVE  Kept
<1>1. Way(s, self, t, w) /\ self[t].stage \notin InChild
  BY BlockSame
<1>2. view \in [Threads -> State] /\ ref \in [Threads -> State]
  BY DEF Rest
<1>3. /\ Rest'
      /\ Lost(s, [s.st EXCEPT ![t] = w], self, view) => Lost(m, m.st, th, view)'
      /\ Data(s, view, ref, total) => Data(m, view, ref, total)'
  <2>1. Mid(s, self, view, ref, t, w) /\ Signalled(s) /\ Others(s, self, t)
    BY <1>1 DEF Way
  <2> QED
    BY <1>1, <1>2, <2>1, BlockRest, Zenon
<1> QED
  BY <1>1, <1>3 DEF Way, Kept

LEMMA MergeWay ==
    ASSUME NEW t \in Threads, Rest, NEW stage, Collect(t, stage)
    PROVE  /\ Merge(t) \in State /\ Way(Merge(t), th, t, "OFF") /\ ThreadsOK(th) /\ th[t].stage = stage
           /\ Merge(t).panic = view[t].panic /\ Merge(t).owner = m.owner
           /\ stage # "returning" => Merge(t).panic = "no"
<1>1. m.runq # <<>> /\ t = Head(m.runq) /\ th[t].stage = stage
  BY DEF Collect
<1>2. /\ Mid(Merge(t), th, view, ref, t, "OFF") /\ Signalled(Merge(t)) /\ Others(Merge(t), th, t)
      /\ Merge(t).panic = view[t].panic /\ Merge(t).owner = m.owner
      /\ Lost(m, m.st, th, view) => Lost(Merge(t), [Merge(t).st EXCEPT ![t] = "OFF"], th, view)
      /\ Data(m, view, ref, total) => Data(Merge(t), view, ref, total)
  BY <1>1, MergeMid
<1>3. Member(t, m.runq)
  <2>1. m.runq \in Seq(Threads)
    BY DEF Rest, Good, State
  <2> QED
    BY <2>1, <1>1, InTail
<1>4. view[t].panic # "no" => stage = "returning"
  BY <1>1, <1>3 DEF Rest, Good, Copies
<1> QED
  BY <1>1, <1>2, <1>4 DEF Way, Mid, Good

LEMMA DequeuedWay ==
    ASSUME NEW t \in Threads, Rest, Resuming(t)
    PROVE  /\ Dequeued \in State /\ Way(Dequeued, th, t, "OFF") /\ ThreadsOK(th) /\ Member(t, m.ready)
           /\ Dequeued.owner = m.owner /\ Dequeued.locked = m.locked /\ Dequeued.st = m.st
           /\ Dequeued.panic = "no"
<1>1. m.ready # <<>> /\ t = Head(m.ready) /\ m.panic = "no"
  BY DEF Resuming
<1>2. /\ Mid(Dequeued, th, view, ref, t, "OFF") /\ Signalled(Dequeued) /\ Others(Dequeued, th, t)
      /\ Dequeued.panic = m.panic
      /\ Dequeued.owner = m.owner /\ Dequeued.locked = m.locked /\ Dequeued.st = m.st
      /\ Lost(m, m.st, th, view) => Lost(Dequeued, [Dequeued.st EXCEPT ![t] = "OFF"], th, view)
      /\ Data(m, view, ref, total) => Data(Dequeued, view, ref, total)
  BY <1>1, DequeuedMid
<1>3. Member(t, m.ready)
  <2>1. m.ready \in Seq(Threads)
    BY DEF Rest, Good, State
  <2> QED
    BY <2>1, <1>1, InTail
<1> QED
  BY <1>1, <1>2, <1>3 DEF Way, Mid, Good

LEMMA OthersStay ==
    ASSUME NEW t \in Threads, NEW s, NEW s2, NEW self, Others(s, th, t), OnlyOf(th, self, t), s2.runq = s.runq
    PROVE  Others(s2, self, t)
  BY DEF Others, OnlyOf

(* t takes u, which it owns, or lets it go, or takes it from a thread that is blocked. *)
LEMMA LockWay ==
    ASSUME NEW t \in Threads, NEW s, NEW s2, NEW self, NEW u \in Mutexes, Way(s, th, t, "OFF"),
           Touched(s, s2, u), s2.owner[u] = t, OnlyOf(th, self, t), self[t].kids = th[t].kids,
           s.owner[u] # t => ~s.locked[u] /\ s.st[s.owner[u]] # "RUN" /\ s.mq[u] = <<>>,
           self[t].holds = IF s2.locked[u] THEN th[t].holds \cup {u} ELSE th[t].holds \ {u}
    PROVE  Way(s2, self, t, "OFF")
<1>1. /\ Mid(s2, self, view, ref, t, "OFF")
      /\ Lost(s, [s.st EXCEPT ![t] = "OFF"], th, view) => Lost(s2, [s2.st EXCEPT ![t] = "OFF"], self, view)
      /\ \A n : Data(s, view, ref, n) => Data(s2, view, ref, n)
  <2>1. Mid(s, th, view, ref, t, "OFF")
    BY DEF Way
  <2> QED
    BY <2>1, LockMid, ZenonT(60)
<1>2. Others(s2, self, t) /\ Signalled(s2)
  BY OthersStay DEF Way, Touched, Signalled
<1> QED
  BY <1>1, <1>2 DEF Way

(* mutexlock in the master *)
LEMMA LockInMasterKeeps ==
    ASSUME NEW t \in Threads, Rest, NEW s \in State, NEW u \in Mutexes, Way(s, th, t, "OFF"), ThreadsOK(th),
           NEW stage, OnlyOf(th, stage, t), stage[t].kids = th[t].kids, stage[t].holds = th[t].holds,
           Locking(stage, t, u),
           NEW self, OnlyOf(th, self, t), self[t].kids = th[t].kids, self[t].holds = th[t].holds \cup {u},
           LockInMaster(t, s, u, stage, self), m'.panic = "no"
    PROVE  Kept
<1>1. CASE s.owner[u] = t /\ Mret(t, Grab(s, t, u), self)
  <2> DEFINE s2 == Grab(s, t, u)
  <2>1. /\ s2 \in State /\ s2.owner = s.owner
        /\ s2.panic = "no" => Touched(s, s2, u) /\ s2.locked[u]
    BY GrabEffect
  <2>2. Mret(t, s2, self)
    BY <1>1
  <2> HIDE DEF s2
  <2>3. s2.panic = "no" => Way(s2, self, t, "OFF")
    BY <1>1, <2>1, LockWay
  <2> QED
    BY <2>1, <2>2, <2>3, MretKeeps
<1>2. CASE s.owner[u] # t /\ Stealable(s, u) /\ Mret(t, Grab(Steal(s, t, u), t, u), self)
  <2> DEFINE s1 == Steal(s, t, u)
             s2 == Grab(s1, t, u)
  <2>1. s1 \in State /\ (s1.panic = "no" => s.mq[u] = <<>> /\ s1.owner[u] = t /\ Touched(s, s1, u))
    BY StealEffect
  <2> HIDE DEF s1
  <2>2. /\ s2 \in State /\ s2.owner = s1.owner
        /\ s2.panic = "no" => s1.panic = "no" /\ Touched(s1, s2, u) /\ s2.locked[u]
    BY <2>1, GrabEffect
  <2>3. Mret(t, s2, self)
    BY <1>2 DEF s1
  <2> HIDE DEF s2
  <2>4. s2.panic = "no" => Way(s2, self, t, "OFF")
    <3> SUFFICES ASSUME s2.panic = "no" PROVE Way(s2, self, t, "OFF")
      OBVIOUS
    <3>1. Touched(s, s2, u)
      BY <2>1, <2>2 DEF Touched
    <3>2. ~s.locked[u] /\ s.st[s.owner[u]] # "RUN"
      BY <1>2 DEF Stealable
    <3> QED
      BY <2>1, <2>2, <3>1, <3>2, LockWay
  <2> QED
    BY <2>2, <2>3, <2>4, MretKeeps
<1>3. CASE s.owner[u] # t /\ ~Stealable(s, u) /\ Block(t, Request(s, t, u), "MUTEX", stage)
  <2> DEFINE s2 == Request(s, t, u)
  <2>1. /\ Mid(s2, stage, view, ref, t, "MUTEX") /\ s2.runq = s.runq /\ s2.ev = s.ev /\ s2.nwake = s.nwake
        /\ Lost(s, [s.st EXCEPT ![t] = "OFF"], th, view) => Lost(s2, [s2.st EXCEPT ![t] = "MUTEX"], stage, view)
        /\ \A n : Data(s, view, ref, n) => Data(s2, view, ref, n)
    <3>1. Mid(s, th, view, ref, t, "OFF")
      BY DEF Way
    <3> QED
      BY <1>3, <3>1, RequestMid, Zenon
  <2>2. Block(t, s2, "MUTEX", stage)
    BY <1>3
  <2> HIDE DEF s2
  <2>3. Others(s2, stage, t) /\ Signalled(s2)
    BY <2>1, OthersStay DEF Way, Signalled
  <2>4. Way(s2, stage, t, "MUTEX") /\ s2 \in State
    BY <2>1, <2>3 DEF Way, Mid, Good
  <2>5. stage[t].stage \notin InChild /\ "MUTEX" \in States
    BY DEF Locking, InChild, States
  <2> QED
    BY <2>2, <2>4, <2>5, BlockKeeps
<1> QED
  BY <1>1, <1>2, <1>3 DEF LockInMaster

-----------------------------------------------------------------------------
(* Each step of the master keeps the invariant. *)

LEMMA CollectPreemptedKeeps ==
    ASSUME NEW t \in Threads, Rest, m'.panic = "no", CollectPreempted(t) \/ CollectReturning(t)
    PROVE  Kept
<1>1. Collect(t, "preempted") \/ Collect(t, "returning")
  BY DEF CollectPreempted, CollectReturning
<1>2. Restarts(t, Merge(t), th)
  BY DEF CollectPreempted, CollectReturning, Restarts, At, Mret
<1>3. Merge(t) \in State /\ Way(Merge(t), th, t, "OFF")
  BY <1>1, MergeWay
<1> QED
  BY <1>2, <1>3, RestartsKeeps

LEMMA CollectLockKeeps ==
    ASSUME NEW t \in Threads, Rest, m'.panic = "no", CollectLock(t)
    PROVE  Kept
<1> DEFINE u == Op(t).u
<1>1. Collect(t, "called") /\ Op(t).op = "lock" /\ LockInMaster(t, Merge(t), u, At(t, "blocked"), Holding(t, u))
  BY DEF CollectLock
<1>2. Merge(t) \in State /\ Way(Merge(t), th, t, "OFF") /\ ThreadsOK(th)
  BY <1>1, MergeWay
<1>3. u \in Mutexes /\ Op(t) = OpOf(th, t)
  BY <1>1, <1>2, OpKinds
<1>4. /\ Becomes(At(t, "blocked"), t, "blocked", th[t].kids, th[t].holds)
      /\ OpOf(At(t, "blocked"), t) = OpOf(th, t)
  BY <1>2, AtBecomes DEF Stages
<1>5. Locking(At(t, "blocked"), t, u)
  BY <1>1, <1>3, <1>4 DEF Locking, Becomes
<1> HIDE DEF u
<1>6. Becomes(Holding(t, u), t, th[t].stage, th[t].kids, th[t].holds \cup {u})
  BY <1>1, <1>2, <1>3, HoldingBecomes
<1> QED
  BY <1>1, <1>2, <1>3, <1>4, <1>5, <1>6, LockInMasterKeeps DEF Becomes

(* mutextrylock and mutexunlock in the master, and mutexlock for its owner. *)
LEMMA OwnedKeeps ==
    ASSUME NEW t \in Threads, Rest, NEW s, Way(s, th, t, "OFF"), NEW s2 \in State, NEW u \in Mutexes, NEW self,
           s2.panic = "no" => Touched(s, s2, u) /\ s.owner[u] = t /\ s2.owner[u] = t,
           OnlyOf(th, self, t), self[t].kids = th[t].kids,
           s2.panic = "no" =>
             self[t].holds = IF s2.locked[u] THEN th[t].holds \cup {u} ELSE th[t].holds \ {u},
           Mret(t, s2, self), m'.panic = "no"
    PROVE  Kept
<1>1. ASSUME s2.panic = "no" PROVE Way(s2, self, t, "OFF")
  BY <1>1, LockWay, ZenonT(60)
<1> QED
  BY <1>1, MretKeeps

LEMMA GrabbedKeeps ==
    ASSUME NEW t \in Threads, Rest, NEW s \in State, Way(s, th, t, "OFF"), NEW u \in Mutexes, NEW self,
           OnlyOf(th, self, t), self[t].kids = th[t].kids, self[t].holds = th[t].holds \cup {u},
           Mret(t, Grab(s, t, u), self), m'.panic = "no"
    PROVE  Kept
<1> DEFINE s2 == Grab(s, t, u)
<1>1. s2 \in State /\ (s2.panic = "no" => Touched(s, s2, u) /\ s.owner[u] = t /\ s2.owner[u] = t /\ s2.locked[u])
  BY GrabEffect
<1>2. Mret(t, s2, self)
  OBVIOUS
<1> HIDE DEF s2
<1> QED
  BY <1>1, <1>2, OwnedKeeps, ZenonT(30)

(* What t was about to do in its slice comes to nothing, or it has signalled. *)
LEMMA ThreadWay ==
    ASSUME NEW t \in Threads, NEW s, NEW s2, NEW self, Way(s, th, t, "OFF"), OnlyOf(th, self, t),
           self[t].holds = th[t].holds, self[t].kids = th[t].kids, Signalled(s2),
           s2 \in State, s2.owner = s.owner, s2.locked = s.locked, s2.mq = s.mq, s2.reqs = s.reqs,
           s2.cq = s.cq, s2.st = s.st, s2.det = s.det, s2.joiner = s.joiner, s2.ready = s.ready,
           s2.runq = s.runq, s2.x = s.x
    PROVE  Way(s2, self, t, "OFF")
<1>1. /\ Mid(s2, self, view, ref, t, "OFF")
      /\ Lost(s, [s.st EXCEPT ![t] = "OFF"], th, view) => Lost(s2, [s2.st EXCEPT ![t] = "OFF"], self, view)
      /\ \A n : Data(s, view, ref, n) => Data(s2, view, ref, n)
  <2>1. Mid(s, th, view, ref, t, "OFF")
    BY DEF Way
  <2> QED
    BY <2>1, ThreadMid, Zenon
<1>2. Others(s2, self, t)
  BY OthersStay DEF Way
<1> QED
  BY <1>1, <1>2 DEF Way

LEMMA CollectTrylockKeeps ==
    ASSUME NEW t \in Threads, Rest, m'.panic = "no", CollectTrylock(t)
    PROVE  Kept
<1> DEFINE u == Op(t).u
           s == Merge(t)
<1>1. Collect(t, "called") /\ Op(t).op = "trylock"
  BY DEF CollectTrylock
<1>2. s \in State /\ Way(s, th, t, "OFF") /\ ThreadsOK(th)
  BY <1>1, MergeWay
<1>3. u \in Mutexes
  BY <1>1, <1>2, OpKinds
<1>4. CASE Mret(t, Grab(s, t, u), Holding(t, u))
  <2> HIDE DEF s, u
  <2>1. Becomes(Holding(t, u), t, th[t].stage, th[t].kids, th[t].holds \cup {u})
    BY <1>1, <1>2, <1>3, HoldingBecomes
  <2> QED
    BY <1>2, <1>3, <1>4, <2>1, GrabbedKeeps DEF Becomes
<1>5. CASE Mret(t, s, Elsewhere(t))
  <2> HIDE DEF s
  <2>1. Becomes(Elsewhere(t), t, th[t].stage, th[t].kids, th[t].holds)
    BY <1>1, <1>2, ElsewhereBecomes
  <2>2. Way(s, Elsewhere(t), t, "OFF")
    <3>1. Signalled(s)
      BY <1>2 DEF Way
    <3> QED
      BY <1>2, <2>1, <3>1, ThreadWay DEF Becomes
  <2> QED
    BY <1>2, <1>5, <2>2, MretKeeps
<1> QED
  BY <1>4, <1>5 DEF CollectTrylock

LEMMA CollectUnlockKeeps ==
    ASSUME NEW t \in Threads, Rest, m'.panic = "no", CollectUnlock(t)
    PROVE  Kept
<1> DEFINE u == Op(t).u
           s == Merge(t)
           s2 == Release(s, t, u)
<1>1. Collect(t, "called") /\ Op(t).op = "unlock" /\ Mret(t, s2, Released(t, u))
  BY DEF CollectUnlock
<1>2. s \in State /\ Way(s, th, t, "OFF") /\ ThreadsOK(th)
  BY <1>1, MergeWay
<1>3. u \in Mutexes
  BY <1>1, <1>2, OpKinds
<1> HIDE DEF u, s
<1>4. Becomes(Released(t, u), t, th[t].stage, th[t].kids, th[t].holds \ {u})
  BY <1>1, <1>2, <1>3, HoldingBecomes
<1>5. s2 \in State /\ (s2.panic = "no" => Touched(s, s2, u) /\ s.owner[u] = t /\ s2.owner[u] = t /\ ~s2.locked[u])
  BY <1>2, <1>3, ReleaseEffect
<1> HIDE DEF s2
<1> QED
  BY <1>1, <1>2, <1>3, <1>4, <1>5, OwnedKeeps DEF Becomes

LEMMA CollectSignalKeeps ==
    ASSUME NEW t \in Threads, Rest, m'.panic = "no", CollectSignal(t)
    PROVE  Kept
<1> DEFINE s == Merge(t)
           s2 == CondEvent(s, Op(t))
<1>1. Collect(t, "called") /\ Op(t).op \in {"signal", "broadcast"} /\ Mret(t, s2, Next1(t))
  BY DEF CollectSignal
<1>2. s \in State /\ Way(s, th, t, "OFF") /\ ThreadsOK(th)
  BY <1>1, MergeWay
<1>3. Op(t).c \in Conds /\ Op(t).op \notin {"exit", "end"}
  BY <1>1, <1>2, OpKinds
<1> HIDE DEF s
<1>4. Becomes(Next1(t), t, th[t].stage, th[t].kids, th[t].holds)
  BY <1>2, <1>3, Next1Becomes
<1>5. /\ s2 \in State /\ s2.owner = s.owner /\ s2.locked = s.locked /\ s2.mq = s.mq /\ s2.reqs = s.reqs
      /\ s2.cq = s.cq /\ s2.st = s.st /\ s2.det = s.det /\ s2.joiner = s.joiner /\ s2.ready = s.ready
      /\ s2.runq = s.runq /\ s2.x = s.x /\ Signalled(s2)
  BY <1>2, <1>3, CondEventEffect DEF Way
<1> HIDE DEF s2
<1>6. Way(s2, Next1(t), t, "OFF")
  BY <1>2, <1>4, <1>5, ThreadWay DEF Becomes
<1> QED
  BY <1>1, <1>5, <1>6, MretKeeps

LEMMA CollectWaitKeeps ==
    ASSUME NEW t \in Threads, Rest, m'.panic = "no", CollectWait(t)
    PROVE  Kept
<1> DEFINE u == Op(t).u
           c == Op(t).c
           s == Merge(t)
           cq2 == [s.cq EXCEPT ![c] = Append(@, t)]
           s1 == [s EXCEPT !.cq = cq2]
           s3 == Release(s1, t, u)
           holds == th[t].holds \ {u}
           self == [At(t, "blocked") EXCEPT ![t].holds = holds]
<1>1. Collect(t, "called") /\ Op(t).op = "await"
  BY DEF CollectWait
<1>2. s \in State /\ Way(s, th, t, "OFF") /\ ThreadsOK(th)
  BY <1>1, MergeWay
<1>3. u \in Mutexes /\ c \in Conds /\ Op(t) = OpOf(th, t)
  BY <1>1, <1>2, OpKinds
<1>4. /\ Becomes(At(t, "blocked"), t, "blocked", th[t].kids, th[t].holds)
      /\ OpOf(At(t, "blocked"), t) = OpOf(th, t)
  BY <1>2, AtBecomes DEF Stages
<1>5. Block(t, s3, "COND", self)
  <2>1. At(t, "blocked")[t].holds = th[t].holds
    BY <1>4 DEF Becomes
  <2> QED
    BY <2>1 DEF CollectWait
<1>6. holds \in SUBSET Mutexes
  BY <1>2 DEF ThreadsOK, Thread
<1>7. Becomes(self, t, "blocked", th[t].kids, holds) /\ OpOf(self, t) = OpOf(At(t, "blocked"), t)
  <2> HIDE DEF holds
  <2> QED BY <1>4, <1>6, HoldsBecomes
<1>8. cq2 \in [Conds -> Seq(Threads)]
  BY <1>2, <1>3 DEF State
<1> HIDE DEF self, cq2, s
<1>9. s1 \in State /\ s1.owner = s.owner /\ s1.locked = s.locked /\ s1.panic = s.panic
  BY <1>2, <1>8 DEF State
<1>10. /\ s3 \in State
       /\ s3.panic = "no" => s1.panic = "no" /\ s1.owner[u] = t /\ s1.locked[u] /\ s3 = [s1 EXCEPT !.locked[u] = FALSE]
  <2> HIDE DEF s1, u
  <2> QED BY <1>3, <1>9, ReleaseEffect
<1>11. ASSUME s3.panic = "no" PROVE Way(s3, self, t, "COND")
  <2> DEFINE s2 == Release(s, t, u)
  <2>1. s.owner[u] = t /\ s.locked[u] /\ s.panic = "no"
    BY <1>9, <1>10, <1>11
  <2>2. s2 = [s EXCEPT !.locked[u] = FALSE]
    BY <2>1 DEF Release
  <2>3. s2.panic = "no"
    BY <1>2, <2>1, <2>2 DEF State
  <2>4. Touched(s, s2, u) /\ ~s2.locked[u] /\ s2.owner = s.owner
    <3> HIDE DEF u
    <3> QED BY <1>2, <1>3, <2>3, ReleaseEffect
  <2>5. Way(s2, self, t, "OFF")
    <3> HIDE DEF s2, u
    <3>1. self[t].holds = IF s2.locked[u] THEN th[t].holds \cup {u} ELSE th[t].holds \ {u}
      BY <1>7, <2>4 DEF Becomes
    <3>2. OnlyOf(th, self, t) /\ self[t].kids = th[t].kids
      BY <1>7 DEF Becomes
    <3>3. s2.owner[u] = t
      BY <2>1, <2>4
    <3> QED
      BY <1>2, <1>3, <2>1, <2>4, <3>1, <3>2, <3>3, LockWay
  <2>6. s3 = [s2 EXCEPT !.cq = cq2] /\ s2.cq = s.cq
    <3> DEFINE locked2 == [s.locked EXCEPT ![u] = FALSE]
    <3>1. s3 = [s1 EXCEPT !.locked = locked2] /\ s2 = [s EXCEPT !.locked = locked2]
      BY <1>9, <1>10, <1>11, <2>2
    <3> HIDE DEF locked2, s2, s3
    <3> QED
      BY <1>2, <3>1 DEF State
  <2>7. s3 = [s2 EXCEPT !.cq[c] = Append(@, t)]
    BY <2>6 DEF cq2
  <2> HIDE DEF s2, s3, c
  <2>8. /\ Mid(s3, self, view, ref, t, "COND") /\ s3.runq = s2.runq /\ s3.ev = s2.ev /\ s3.nwake = s2.nwake
        /\ Lost(s2, [s2.st EXCEPT ![t] = "OFF"], self, view) => Lost(s3, [s3.st EXCEPT ![t] = "COND"], self, view)
        /\ \A n : Data(s2, view, ref, n) => Data(s3, view, ref, n)
    <3>1. Mid(s2, self, view, ref, t, "OFF")
      BY <2>5 DEF Way
    <3>2. OnlyOf(self, self, t) /\ self[t].stage = "blocked" /\ OpOf(self, t).op = "await"
      BY <1>1, <1>3, <1>4, <1>7 DEF Becomes, OnlyOf
    <3> QED
      BY <1>3, <2>7, <3>1, <3>2, WaitMid
  <2>9. Others(s3, self, t) /\ Signalled(s3)
    BY <2>5, <2>8 DEF Way, Others, Signalled
  <2> QED
    BY <2>5, <2>8, <2>9 DEF Way
<1>12. self[t].stage \notin InChild /\ "COND" \in States
  BY <1>7 DEF Becomes, InChild, States
<1> QED
  <2> HIDE DEF s3
  <2> QED BY <1>5, <1>10, <1>11, <1>12, BlockKeeps

LEMMA TreadyState ==
    ASSUME NEW s \in State, NEW y \in Threads
    PROVE  Tready(s, y) \in State /\ Tready(s, y).x = s.x
<1>1. CASE s.st[y] = "RUN"
  BY <1>1, Failing DEF Tready, Panics
<1>2. CASE s.st[y] # "RUN"
  <2> DEFINE q == Append(s.ready, y)
             st2 == [s.st EXCEPT ![y] = "RUN"]
  <2>1. q \in Seq(Threads) /\ st2 \in [Threads -> States]
    BY DEF State, States
  <2>2. Tready(s, y) = [s EXCEPT !.st = st2, !.ready = q]
    BY <1>2 DEF Tready
  <2> HIDE DEF q, st2
  <2> QED
    BY <2>1, <2>2 DEF State
<1> QED
  BY <1>1, <1>2

LEMMA CollectExitKeeps ==
    ASSUME NEW t \in Threads, Rest, m'.panic = "no", CollectExit(t)
    PROVE  Kept
<1> DEFINE s == Merge(t)
           w == IF s.det[t] THEN "FREE" ELSE "EXIT"
           s2 == IF s.joiner[t] = NoThread THEN s ELSE Tready(s, s.joiner[t])
           self == At(t, "none")
<1>1. Collect(t, "called") /\ Op(t).op = "exit" /\ Block(t, s2, w, self)
  BY DEF CollectExit
<1>2. s \in State /\ Way(s, th, t, "OFF") /\ ThreadsOK(th) /\ th[t].stage = "called"
  BY <1>1, MergeWay
<1>3. Becomes(self, t, "none", th[t].kids, th[t].holds)
  BY <1>2, AtBecomes DEF Stages
<1> HIDE DEF s, self
<1>4. s2 \in State
  <2>1. s.joiner[t] \in Threads \cup {NoThread}
    BY <1>2 DEF State
  <2> QED
    BY <1>2, <2>1, TreadyState
<1>5. w \in States /\ w # "RUN"
  BY DEF States
<1>6. ASSUME s2.panic = "no" PROVE Way(s2, self, t, w)
  <2>1. Mid(s, th, view, ref, t, "OFF")
    BY <1>2 DEF Way
  <2>2. OnlyOf(th, self, t) /\ self[t].holds = th[t].holds /\ self[t].kids = th[t].kids
    BY <1>3 DEF Becomes
  <2>3. Exits(s, s2, t, w)
    BY DEF Exits
  <2> HIDE DEF s2, w
  <2>5. /\ Mid(s2, self, view, ref, t, w) /\ s2.runq = s.runq /\ s2.ev = s.ev /\ s2.nwake = s.nwake
        /\ Lost(s, [s.st EXCEPT ![t] = "OFF"], th, view) /\ th[t].holds = {}
             => Lost(s2, [s2.st EXCEPT ![t] = w], self, view)
        /\ \A n : Data(s, view, ref, n) => Data(s2, view, ref, n)
    BY <1>6, <2>1, <2>2, <2>3, ExitMid
  <2>6. Others(s2, self, t) /\ Signalled(s2)
    BY <1>2, <2>2, <2>5, OthersStay DEF Way, Signalled
  <2>7. ExitsUnlocked => th[t].holds = {}
    BY <1>1, <1>2 DEF ExitsUnlocked
  <2> QED
    BY <1>2, <2>5, <2>6, <2>7 DEF Way
<1>7. self[t].stage \notin InChild
  BY <1>3 DEF Becomes, InChild
<1> HIDE DEF s2, w
<1> QED
  BY <1>1, <1>4, <1>5, <1>6, <1>7, BlockKeeps

(* t has joined its kid in the master. *)
LEMMA JoinedKeeps ==
    ASSUME NEW t \in Threads, Rest, JoinsOwn, NEW s \in State, Way(s, th, t, "OFF"), ThreadsOK(th),
           th[t].stage \in {"user", "called", "blocked"}, Op(t).op = "join",
           NEW s2, Freeing(s, s2, th[t].kids[Op(t).k]), Mret(t, s2, Joined(t)), m'.panic = "no"
    PROVE  Kept
<1> DEFINE tj == th[t].kids[Op(t).k]
<1>1. Op(t).k \in DOMAIN th[t].kids /\ tj \in Threads
  BY DEF JoinsOwn
<1>2. Becomes(Joined(t), t, th[t].stage, [th[t].kids EXCEPT ![Op(t).k] = NoThread], th[t].holds)
  BY <1>1, JoinedBecomes
<1>3. /\ Mid(s2, Joined(t), view, ref, t, "OFF") /\ s2.runq = s.runq /\ s2.ev = s.ev /\ s2.nwake = s.nwake
      /\ Lost(s, [s.st EXCEPT ![t] = "OFF"], th, view) => Lost(s2, [s2.st EXCEPT ![t] = "OFF"], Joined(t), view)
      /\ \A n : Data(s, view, ref, n) => Data(s2, view, ref, n)
  <2>1. Mid(s, th, view, ref, t, "OFF")
    BY DEF Way
  <2>2. /\ OnlyOf(th, Joined(t), t) /\ Joined(t)[t].holds = th[t].holds
        /\ Reaps(s, s2, th, Joined(t), t, tj, Op(t).k)
    BY <1>1, <1>2 DEF Becomes, Reaps
  <2> QED
    BY <1>1, <2>1, <2>2, JoinedMid
<1>4. Others(s2, Joined(t), t) /\ Signalled(s2)
  BY <1>2, <1>3, OthersStay DEF Way, Signalled, Becomes
<1>5. Way(s2, Joined(t), t, "OFF") /\ s2 \in State
  BY <1>3, <1>4 DEF Way, Mid, Good
<1> QED
  BY <1>5, MretKeeps

LEMMA CollectJoinKeeps ==
    ASSUME NEW t \in Threads, Rest, JoinsOwn, m'.panic = "no", CollectJoin(t)
    PROVE  Kept
<1> DEFINE s == Merge(t)
           tj == th[t].kids[Op(t).k]
<1>1. Collect(t, "called") /\ Op(t).op = "join"
  BY DEF CollectJoin
<1>2. s \in State /\ Way(s, th, t, "OFF") /\ ThreadsOK(th) /\ th[t].stage = "called"
  BY <1>1, MergeWay
<1>3. tj \in Threads
  BY <1>1, <1>2 DEF JoinsOwn
<1>4. CASE s.st[tj] = "EXIT" /\ Mret(t, [s EXCEPT !.st[tj] = "FREE"], Joined(t))
  <2> HIDE DEF s
  <2> DEFINE s2 == [s EXCEPT !.st[tj] = "FREE"]
  <2>1. Freeing(s, s2, tj) /\ Mret(t, s2, Joined(t))
    BY <1>4 DEF Freeing
  <2> HIDE DEF s2
  <2> QED BY <1>1, <1>2, <2>1, JoinedKeeps
<1>5. CASE /\ s.st[tj] # "EXIT"
           /\ Block(t, IF s.st[tj] = "FREE" \/ s.joiner[tj] # NoThread THEN Fail(s, "join")
                       ELSE [s EXCEPT !.joiner[tj] = t],
                    "MUTEX", At(t, "blocked"))
  <2> DEFINE s2 == IF s.st[tj] = "FREE" \/ s.joiner[tj] # NoThread THEN Fail(s, "join")
                   ELSE [s EXCEPT !.joiner[tj] = t]
             self == At(t, "blocked")
  <2>1. Block(t, s2, "MUTEX", self)
    BY <1>5
  <2>2. Becomes(self, t, "blocked", th[t].kids, th[t].holds) /\ OpOf(self, t).op = "join"
    BY <1>1, <1>2, AtBecomes, OpKinds DEF Stages
  <2> HIDE DEF s, tj, self
  <2>3. CASE s.st[tj] = "FREE" \/ s.joiner[tj] # NoThread
    <3>1. s2 = Fail(s, "join") /\ "join" \in Panics /\ "join" # "no"
      BY <2>3 DEF Panics
    <3>2. s2 \in State /\ s2.panic # "no"
      <4> HIDE DEF s2
      <4> QED BY <1>2, <3>1, Failing
    <3> HIDE DEF s2
    <3> QED
      BY <2>1, <3>2, BlockSame
  <2>4. CASE ~(s.st[tj] = "FREE" \/ s.joiner[tj] # NoThread)
    <3>1. s2 = [s EXCEPT !.joiner[tj] = t] /\ s.st[tj] \notin {"EXIT", "FREE"} /\ s.joiner[tj] = NoThread
      BY <1>5, <2>4
    <3> HIDE DEF s2
    <3>2. /\ Mid(s2, self, view, ref, t, "MUTEX") /\ s2.runq = s.runq /\ s2.ev = s.ev /\ s2.nwake = s.nwake
          /\ Lost(s, [s.st EXCEPT ![t] = "OFF"], th, view) => Lost(s2, [s2.st EXCEPT ![t] = "MUTEX"], self, view)
          /\ \A n : Data(s, view, ref, n) => Data(s2, view, ref, n)
      <4>1. Mid(s, th, view, ref, t, "OFF")
        BY <1>2 DEF Way
      <4>2. /\ OnlyOf(th, self, t) /\ self[t].holds = th[t].holds /\ self[t].kids = th[t].kids
            /\ self[t].stage = "blocked"
        BY <2>2 DEF Becomes
      <4> QED
        BY <1>3, <2>2, <3>1, <4>1, <4>2, JoinerMid
    <3>3. Others(s2, self, t) /\ Signalled(s2)
      BY <1>2, <2>2, <3>2, OthersStay DEF Way, Signalled, Becomes
    <3>4. Way(s2, self, t, "MUTEX") /\ s2 \in State
      BY <1>2, <3>2, <3>3 DEF Way, Mid, Good
    <3>5. self[t].stage \notin InChild /\ "MUTEX" \in States
      BY <2>2 DEF Becomes, InChild, States
    <3> QED
      BY <2>1, <3>4, <3>5, BlockKeeps
  <2> QED
    BY <2>3, <2>4
<1> QED
  BY <1>4, <1>5 DEF CollectJoin

LEMMA LeastOf ==
    ASSUME NEW S, S \subseteq Nat, S # {}
    PROVE  \E k \in S : \A l \in S : k <= l
<1>1. \A k, l \in Nat : k < l => <<k, l>> \in OpToRel(<, Nat)
  BY Zenon DEF OpToRel
<1>2. \E k \in S : \A l \in S : ~(<<l, k>> \in OpToRel(<, Nat))
  BY NatLessThanWellFounded, WFMin, Zenon
<1>3. PICK k \in S : \A l \in S : ~(l < k)
  BY <1>1, <1>2, Zenon
<1> QED
  BY <1>3

(* pthread_create: the slot is free, and the threads with the new one. *)
FreeSlots(s) == {tn \in Threads \ {0} : s.st[tn] = "FREE"}
Slot(s) == CHOOSE tn \in FreeSlots(s) : \A k \in FreeSlots(s) : tn <= k
Kid1(t, s) == IF Op(t).det THEN NoThread ELSE Slot(s)
WithNew(t, s) == [Next1(t) EXCEPT ![t].kids = Append(@, Kid1(t, s)), ![Slot(s)] = NewThread(Op(t).g, "new")]
InSlot(t, s) ==
    Tready([s EXCEPT !.det[Slot(s)] = Op(t).det, !.joiner[Slot(s)] = NoThread, !.reqs[Slot(s)] = <<>>], Slot(s))

LEMMA CreateEffect ==
    ASSUME NEW t \in Threads, ThreadsOK(th), Op(t).op = "create", NEW s \in State, s.st[t] = "RUN",
           FreeSlots(s) # {}
    PROVE  /\ Slot(s) \in Threads /\ Creates(s, InSlot(t, s), th, WithNew(t, s), t, Slot(s), Op(t).det)
           /\ InSlot(t, s) \in State /\ InSlot(t, s).x = s.x
<1> DEFINE o == Op(t)
           tn == Slot(s)
           kid == Kid1(t, s)
           self == WithNew(t, s)
<1>1. o.g \in Progs /\ o.det \in BOOLEAN
  BY OpKinds
<1>2. tn \in FreeSlots(s)
  <2>1. FreeSlots(s) \subseteq Nat
    BY DSchedAssumption DEF Threads, FreeSlots
  <2>2. \E i \in FreeSlots(s) : \A k \in FreeSlots(s) : i <= k
    BY <2>1, LeastOf
  <2> QED
    BY <2>2 DEF Slot
<1>3. tn \in Threads /\ s.st[tn] = "FREE" /\ tn # t
  BY <1>2 DEF FreeSlots
<1>4. Becomes(Next1(t), t, th[t].stage, th[t].kids, th[t].holds)
  BY Next1Becomes
<1>5. kid \in Threads \cup {NoThread} /\ kid = IF o.det THEN NoThread ELSE tn
  BY <1>3 DEF Kid1
<1>6. self = [Next1(t) EXCEPT ![t].kids = Append(@, kid), ![tn] = NewThread(o.g, "new")]
  BY DEF WithNew
<1> HIDE DEF kid, tn, self
<1>7. /\ ThreadsOK(self) /\ self[t].holds = th[t].holds /\ self[t].kids = Append(th[t].kids, kid)
      /\ self[tn].stage = "new" /\ self[tn].holds = {} /\ self[tn].kids = <<>>
      /\ \A y \in Threads : y # t /\ y # tn => self[y] = th[y]
  <2> DEFINE ks == Append(th[t].kids, kid)
             h1 == [Next1(t) EXCEPT ![t].kids = ks]
             n == NewThread(o.g, "new")
  <2>1. ks \in Seq(Threads \cup {NoThread})
    <3>1. th[t].kids \in Seq(Threads \cup {NoThread})
      BY DEF ThreadsOK, Thread
    <3> QED BY <1>5, <3>1
  <2>2. self = [h1 EXCEPT ![tn] = n]
    BY <1>3, <1>4, <1>6 DEF Becomes
  <2> HIDE DEF ks
  <2>3. Becomes(h1, t, th[t].stage, ks, th[t].holds)
    BY <1>4, <2>1, KidListBecomes
  <2> HIDE DEF h1
  <2>4. /\ n \in Thread /\ n.pc \in 1 .. Len(Code[n.prog])
        /\ n.stage = "new" /\ n.holds = {} /\ n.kids = <<>>
    <3>1. Code[o.g] \in Seq(Ops) /\ Len(Code[o.g]) > 0
      BY <1>1, DSchedAssumption
    <3>2. 1 \in 1 .. Len(Code[o.g])
      BY <3>1
    <3> QED
      BY <1>1, <3>2 DEF NewThread, Thread, Stages
  <2> HIDE DEF n
  <2>5. h1 \in [Threads -> Thread]
    BY <2>3 DEF Becomes, OnlyOf, ThreadsOK
  <2>6. self \in [Threads -> Thread] /\ self[tn] = n /\ \A y \in Threads : y # tn => self[y] = h1[y]
    BY <1>3, <2>2, <2>4, <2>5
  <2> QED
    BY <1>3, <2>3, <2>4, <2>6 DEF Becomes, OnlyOf, ThreadsOK, ks
<1>8. InSlot(t, s) = Tready([s EXCEPT !.det[tn] = o.det, !.joiner[tn] = NoThread, !.reqs[tn] = <<>>], tn)
  BY DEF InSlot, tn
<1>9. Creates(s, InSlot(t, s), th, self, t, tn, o.det)
  BY <1>1, <1>3, <1>5, <1>7, <1>8 DEF Creates
<1>10. InSlot(t, s) \in State /\ InSlot(t, s).x = s.x
  <2> DEFINE none == <<>>
             det2 == [s.det EXCEPT ![tn] = o.det]
             joiner2 == [s.joiner EXCEPT ![tn] = NoThread]
             reqs2 == [s.reqs EXCEPT ![tn] = none]
             s1 == [s EXCEPT !.det = det2, !.joiner = joiner2, !.reqs = reqs2]
  <2>1. none \in Seq(Mutexes)
    OBVIOUS
  <2>2. InSlot(t, s) = Tready(s1, tn)
    BY <1>8
  <2> HIDE DEF none, o
  <2>3. /\ det2 \in [Threads -> BOOLEAN] /\ joiner2 \in [Threads -> Threads \cup {NoThread}]
        /\ reqs2 \in [Threads -> Seq(Mutexes)]
    BY <1>1, <1>3, <2>1 DEF State
  <2> HIDE DEF det2, joiner2, reqs2
  <2>4. s1 \in State /\ s1.x = s.x
    BY <2>3 DEF State
  <2> HIDE DEF s1
  <2> QED
    BY <1>3, <2>2, <2>4, TreadyState
<1> QED
  BY <1>3, <1>9, <1>10 DEF tn, self

LEMMA CollectCreateDef ==
    ASSUME NEW t \in Threads, CollectCreate(t)
    PROVE  /\ Collect(t, "called") /\ Op(t).op = "create"
           /\ FreeSlots(Merge(t)) = {} => Mret(t, Fail(Merge(t), "too many threads"), th)
           /\ FreeSlots(Merge(t)) # {} => Mret(t, InSlot(t, Merge(t)), WithNew(t, Merge(t)))
  BY DEF CollectCreate, FreeSlots, Slot, Kid1, WithNew, InSlot

LEMMA CollectCreateKeeps ==
    ASSUME NEW t \in Threads, Rest, m'.panic = "no", CollectCreate(t)
    PROVE  Kept
<1> DEFINE s == Merge(t)
           tn == Slot(s)
           d == Op(t).det
<1>1. Collect(t, "called") /\ Op(t).op = "create"
  BY CollectCreateDef
<1>2. s \in State /\ Way(s, th, t, "OFF") /\ ThreadsOK(th)
  BY <1>1, MergeWay
<1>3. CASE FreeSlots(s) = {}
  <2> DEFINE s2 == Fail(s, "too many threads")
  <2>1. Mret(t, s2, th)
    BY <1>3, CollectCreateDef
  <2>2. s2 \in State /\ s2.panic # "no"
    BY <1>2, Failing DEF Panics
  <2> HIDE DEF s2
  <2>3. Restarts(t, s2, th)
    BY <2>1 DEF Mret, Restarts
  <2> QED
    BY <2>2, <2>3, RestartsSame
<1>4. CASE FreeSlots(s) # {}
  <2> DEFINE s2 == InSlot(t, s)
             self == WithNew(t, s)
  <2>1. Mret(t, s2, self)
    BY <1>4, CollectCreateDef
  <2> HIDE DEF s
  <2>2. s.st[t] = "RUN" /\ Mid(s, th, view, ref, t, "OFF")
    BY <1>2 DEF Way, Mid
  <2>3. tn \in Threads /\ Creates(s, s2, th, self, t, tn, d) /\ s2 \in State
    BY <1>1, <1>2, <1>4, <2>2, CreateEffect
  <2> HIDE DEF s2, self, tn, d
  <2>4. ASSUME s2.panic = "no" PROVE Way(s2, self, t, "OFF")
    <3>1. /\ Mid(s2, self, view, ref, t, "OFF") /\ s2.runq = s.runq /\ s2.ev = s.ev /\ s2.nwake = s.nwake
          /\ Lost(s, [s.st EXCEPT ![t] = "OFF"], th, view) => Lost(s2, [s2.st EXCEPT ![t] = "OFF"], self, view)
          /\ \A n : Data(s, view, ref, n) => Data(s2, view, ref, n)
      BY <2>2, <2>3, <2>4, CreateMid
    <3>2. Others(s2, self, t) /\ Signalled(s2)
      <4>1. self[tn].stage \notin InChild /\ \A y \in Threads : y # t /\ y # tn => self[y] = th[y]
        BY <2>3 DEF InChild, Creates
      <4> QED
        BY <1>2, <3>1, <4>1 DEF Way, Others, Signalled
    <3> QED
      BY <1>2, <3>1, <3>2 DEF Way
  <2> QED
    BY <2>1, <2>3, <2>4, MretKeeps
<1> QED
  BY <1>3, <1>4

LEMMA ReadyFor ==
    ASSUME NEW t \in Threads, Rest, Member(t, m.ready)
    PROVE  /\ Op(t) = OpOf(th, t)
           /\ th[t].stage = "relock" => Op(t).op = "await"
           /\ (th[t].stage = "blocked" /\ Op(t).op = "lock") \/ th[t].stage = "relock"
                => Op(t).u \in Mutexes /\ m.owner[Op(t).u] = t /\ ~m.locked[Op(t).u]
<1>1. Reasons(m, m.st, th)
  BY DEF Rest, Good
<1>2. \/ th[t].stage = "new"
      \/ th[t].stage = "blocked" /\ OpOf(th, t).op \in {"await", "join"}
      \/ \E u \in Mutexes : Locking(th, t, u) /\ m.owner[u] = t /\ ~m.locked[u]
  BY <1>1 DEF Reasons
<1> QED
  BY <1>2 DEF Locking, Op, OpOf

LEMMA HoldBecomes ==
    ASSUME NEW t \in Threads, ThreadsOK(th), NEW u \in Mutexes
    PROVE  Becomes([th EXCEPT ![t].holds = @ \cup {u}], t, th[t].stage, th[t].kids, th[t].holds \cup {u})
<1> DEFINE more == th[t].holds \cup {u}
<1>1. more \in SUBSET Mutexes /\ Becomes(th, t, th[t].stage, th[t].kids, th[t].holds)
  BY DEF ThreadsOK, Thread, Becomes, OnlyOf
<1> HIDE DEF more
<1>2. Becomes([th EXCEPT ![t].holds = more], t, th[t].stage, th[t].kids, more)
  BY <1>1, HoldsBecomes
<1> QED
  BY <1>2 DEF more

LEMMA ResumeKeeps ==
    ASSUME NEW t \in Threads, Rest, m'.panic = "no", Resume(t)
    PROVE  Kept
<1> DEFINE u == Op(t).u
<1>1. Resuming(t)
  BY DEF Resume
<1>2. Dequeued \in State /\ Way(Dequeued, th, t, "OFF") /\ ThreadsOK(th) /\ Member(t, m.ready)
  BY <1>1, DequeuedWay
<1>3. CASE Mret(t, Dequeued, th)
  BY <1>2, <1>3, MretKeeps
<1>4. CASE th[t].stage = "blocked" /\ Op(t).op = "lock" /\ Mret(t, Grab(Dequeued, t, u), Holding(t, u))
  <2>1. u \in Mutexes
    BY <1>2, <1>4, ReadyFor
  <2> HIDE DEF u
  <2>2. Becomes(Holding(t, u), t, th[t].stage, th[t].kids, th[t].holds \cup {u})
    BY <1>2, <1>4, <2>1, HoldingBecomes
  <2> QED
    BY <1>2, <1>4, <2>1, <2>2, GrabbedKeeps DEF Becomes
<1>5. CASE th[t].stage = "relock" /\ Mret(t, Grab(Dequeued, t, u), [th EXCEPT ![t].holds = @ \cup {u}])
  <2>1. u \in Mutexes
    BY <1>2, <1>5, ReadyFor
  <2> HIDE DEF u
  <2> DEFINE self == [th EXCEPT ![t].holds = @ \cup {u}]
  <2>2. Becomes(self, t, th[t].stage, th[t].kids, th[t].holds \cup {u})
    BY <1>2, <2>1, HoldBecomes
  <2>3. Mret(t, Grab(Dequeued, t, u), self)
    BY <1>5
  <2> HIDE DEF self
  <2> QED
    BY <1>2, <2>1, <2>2, <2>3, GrabbedKeeps DEF Becomes
<1> QED
  BY <1>3, <1>4, <1>5 DEF Resume

LEMMA ResumeWaitKeeps ==
    ASSUME NEW t \in Threads, Rest, m'.panic = "no", ResumeWait(t)
    PROVE  Kept
<1> DEFINE u == Op(t).u
           self == [th EXCEPT ![t].holds = @ \cup {u}]
<1>1. /\ Resuming(t) /\ th[t].stage = "blocked" /\ Op(t).op = "await"
      /\ LockInMaster(t, Dequeued, u, At(t, "relock"), self)
  BY DEF ResumeWait
<1>2. Dequeued \in State /\ Way(Dequeued, th, t, "OFF") /\ ThreadsOK(th)
  BY <1>1, DequeuedWay
<1>3. u \in Mutexes /\ Op(t) = OpOf(th, t)
  BY <1>1, <1>2, OpKinds
<1>4. Becomes(At(t, "relock"), t, "relock", th[t].kids, th[t].holds) /\ OpOf(At(t, "relock"), t) = OpOf(th, t)
  BY <1>2, AtBecomes DEF Stages
<1>5. Locking(At(t, "relock"), t, u)
  BY <1>1, <1>3, <1>4 DEF Locking, Becomes
<1> HIDE DEF u
<1>6. Becomes(self, t, th[t].stage, th[t].kids, th[t].holds \cup {u})
  BY <1>2, <1>3, HoldBecomes
<1> HIDE DEF self
<1> QED
  BY <1>1, <1>2, <1>3, <1>4, <1>5, <1>6, LockInMasterKeeps DEF Becomes

LEMMA ResumeJoinKeeps ==
    ASSUME NEW t \in Threads, Rest, JoinsOwn, m'.panic = "no", ResumeJoin(t)
    PROVE  Kept
<1> DEFINE tj == th[t].kids[Op(t).k]
           s2 == IF m.st[tj] # "EXIT" THEN Fail(Dequeued, "join") ELSE [Dequeued EXCEPT !.st[tj] = "FREE"]
<1>1. Resuming(t) /\ th[t].stage = "blocked" /\ Op(t).op = "join" /\ Mret(t, s2, Joined(t))
  BY DEF ResumeJoin
<1>2. Dequeued \in State /\ Way(Dequeued, th, t, "OFF") /\ ThreadsOK(th) /\ Dequeued.st = m.st
  BY <1>1, DequeuedWay
<1>3. CASE m.st[tj] # "EXIT"
  <2>1. s2 = Fail(Dequeued, "join") /\ "join" \in Panics /\ "join" # "no"
    BY <1>3 DEF Panics
  <2> HIDE DEF s2
  <2>2. s2 \in State /\ s2.panic # "no"
    BY <1>2, <2>1, Failing
  <2>3. Restarts(t, s2, Joined(t))
    BY <1>1 DEF Mret, Restarts
  <2> QED
    BY <2>2, <2>3, RestartsSame
<1>4. CASE m.st[tj] = "EXIT"
  <2>1. Freeing(Dequeued, s2, tj)
    BY <1>2, <1>4 DEF Freeing
  <2> HIDE DEF s2
  <2> QED
    BY <1>1, <1>2, <2>1, JoinedKeeps
<1> QED
  BY <1>3, <1>4

LEMMA SchedKeeps ==
    ASSUME NEW t \in Threads, Rest, JoinsOwn, Sched(t), ~CollectEnd(t), m'.panic = "no"
    PROVE  Kept
  BY CollectPreemptedKeeps, CollectLockKeeps, CollectTrylockKeeps, CollectUnlockKeeps, CollectSignalKeeps,
     CollectWaitKeeps, CollectCreateKeeps, CollectJoinKeeps, CollectExitKeeps, ResumeKeeps, ResumeWaitKeeps,
     ResumeJoinKeeps DEF Sched

-----------------------------------------------------------------------------
(* Who holds a mutex, and what its holder sees, also where a step of the master
   ends in a panic *)

Settled ==
    /\ MutualExclusion'
    /\ Data(m, view, ref, total) => DataFresh'

(* The master leaves t with mret, and then x in its memory, or with tblock. *)
Leaves(t, x, self) ==
    \/ \E s \in State : s.x = x /\ Restarts(t, s, self)
    \/ self[t].stage # "user" /\ \E s, w : Block(t, s, w, self)

(* t may take u: it owns u, or the owner is blocked and has not locked u. *)
Grabbable(s, t, u) == s.owner[u] = t \/ (~s.locked[u] /\ s.st[s.owner[u]] # "RUN")

LEMMA RestExclusion ==
    ASSUME Rest
    PROVE  MutualExclusion
<1>1. Locks(m, th, view)
  BY DEF Rest, Good
<1> QED
  BY <1>1 DEF Locks, MutualExclusion

LEMMA RestFresh ==
    ASSUME Rest, Data(m, view, ref, total)
    PROVE  DataFresh
<1> SUFFICES ASSUME NEW t \in Threads, th[t].stage = "user", DataMutex \in th[t].holds
             PROVE  view[t].x = total
  BY DEF DataFresh
<1>1. Locks(m, th, view) /\ Member(t, m.runq)
  BY DEF Rest, Good, InChild
<1>2. m.owner[DataMutex] = t
  BY <1>1, DSchedAssumption DEF Locks
<1> QED
  BY <1>1, <1>2 DEF Data

(* What t holds, and what it takes, nobody else holds, and x is up to date. *)
LEMMA TakenFresh ==
    ASSUME NEW t \in Threads, NEW s, Mid(s, th, view, ref, t, "OFF"), NEW u \in Mutexes,
           u \in th[t].holds \/ Grabbable(s, t, u)
    PROVE  /\ \A y \in Threads : u \in th[y].holds => y = t
           /\ u = DataMutex /\ Data(s, view, ref, total) => s.x = total
<1>1. Locks(s, th, view) /\ Queues(s, [s.st EXCEPT ![t] = "OFF"]) /\ s \in State
  BY DEF Mid, Good
<1>2. ~Member(t, s.runq) /\ \A y \in Threads : Member(y, s.runq) => s.st[y] = "RUN"
  BY <1>1 DEF Queues, State
<1>3. s.owner[u] \in Threads
  BY <1>1 DEF State
<1>4. s.owner[u] = t \/ (~s.locked[u] /\ ~Member(s.owner[u], s.runq))
  BY <1>1, <1>2, <1>3 DEF Grabbable, Locks
<1>5. \A y \in Threads : u \in th[y].holds => y = t
  BY <1>1, <1>4 DEF Locks
<1>6. ~Member(s.owner[u], s.runq)
  BY <1>2, <1>4
<1> QED
  BY <1>5, <1>6 DEF Data

LEMMA LeavesOnly ==
    ASSUME NEW t \in Threads, NEW x, NEW self, ThreadsOK(self), view \in [Threads -> State],
           Leaves(t, x, self)
    PROVE  /\ \A y \in Threads : th'[y].holds = self[y].holds
           /\ \A y \in Threads : y # t => th'[y] = self[y] /\ view'[y] = view[y]
           /\ th'[t].stage = "user" => view'[t].x = x
           /\ total' = total
<1>0. self \in [Threads -> Thread]
  BY DEF ThreadsOK
<1>1. ASSUME NEW s \in State, s.x = x, Restarts(t, s, self)
      PROVE  /\ \A y \in Threads : th'[y].holds = self[y].holds
             /\ \A y \in Threads : y # t => th'[y] = self[y] /\ view'[y] = view[y]
             /\ view'[t].x = x /\ total' = total
  <2>1. th' = [self EXCEPT ![t].stage = "user"] /\ total' = total
    BY <1>1 DEF Restarts
  <2>2. m'.x = s.x
    BY <1>1, RestartsSame
  <2>3. view' = [view EXCEPT ![t] = m']
    BY <1>1 DEF Restarts, StartSlice
  <2>4. /\ \A y \in Threads : th'[y].holds = self[y].holds
        /\ \A y \in Threads : y # t => th'[y] = self[y]
    BY <2>1, <1>0 DEF Thread
  <2>5. view'[t].x = s.x /\ \A y \in Threads : y # t => view'[y] = view[y]
    BY <2>2, <2>3
  <2> QED
    BY <1>1, <2>1, <2>4, <2>5
<1>2. CASE self[t].stage # "user" /\ \E s, w : Block(t, s, w, self)
  BY <1>2 DEF Block
<1> QED
  BY <1>1, <1>2 DEF Leaves

LEMMA LeavesSettled ==
    ASSUME NEW t \in Threads, Rest, NEW s, Way(s, th, t, "OFF"),
           NEW self, ThreadsOK(self), Leaves(t, s.x, self),
           \A y \in Threads : y # t =>
               self[y] = th[y] \/ (self[y].holds = {} /\ self[y].stage = "new"),
           \A u \in self[t].holds : u \in th[t].holds \/ Grabbable(s, t, u)
    PROVE  Settled
<1>1. /\ \A y \in Threads : th'[y].holds = self[y].holds
      /\ \A y \in Threads : y # t => th'[y] = self[y] /\ view'[y] = view[y]
      /\ th'[t].stage = "user" => view'[t].x = s.x
      /\ total' = total
  <2>1. view \in [Threads -> State]
    BY DEF Rest
  <2> QED
    BY <2>1, LeavesOnly
<1>2. Mid(s, th, view, ref, t, "OFF")
  BY DEF Way
<1>3. MutualExclusion
  BY RestExclusion
<1>4. \A y \in Threads : y # t => th'[y].holds = th[y].holds \/ th'[y].holds = {}
  BY <1>1
<1>5. ASSUME NEW u \in Mutexes, NEW y \in Threads, u \in th'[t].holds, u \in th'[y].holds
      PROVE  y = t
  <2>1. u \in th[t].holds \/ Grabbable(s, t, u)
    BY <1>1, <1>5
  <2> QED
    BY <1>2, <1>4, <1>5, <2>1, TakenFresh
<1>6. MutualExclusion'
  BY <1>3, <1>4, <1>5 DEF MutualExclusion
<1>7. ASSUME Data(m, view, ref, total), NEW y \in Threads,
             th'[y].stage = "user", DataMutex \in th'[y].holds
      PROVE  view'[y].x = total'
  <2>1. CASE y # t
    <3>1. DataFresh
      BY <1>7, RestFresh
    <3>2. th'[y] = th[y] /\ view'[y] = view[y]
      BY <1>1, <1>7, <2>1
    <3> QED
      BY <1>1, <1>7, <3>1, <3>2 DEF DataFresh
  <2>2. CASE y = t
    <3>1. Data(s, view, ref, total)
      BY <1>7 DEF Way
    <3>2. DataMutex \in th[t].holds \/ Grabbable(s, t, DataMutex)
      BY <1>1, <1>7, <2>2
    <3>3. s.x = total
      BY <1>2, <3>1, <3>2, TakenFresh, DSchedAssumption
    <3> QED
      BY <1>1, <1>7, <2>2, <3>3
  <2> QED
    BY <2>1, <2>2
<1> QED
  BY <1>6, <1>7 DEF Settled, DataFresh

LEMMA BecomesSettled ==
    ASSUME NEW t \in Threads, Rest, NEW s, Way(s, th, t, "OFF"),
           NEW self, NEW stage, NEW kids, NEW holds, Becomes(self, t, stage, kids, holds),
           \A u \in holds : u \in th[t].holds \/ Grabbable(s, t, u), Leaves(t, s.x, self)
    PROVE  Settled
  BY LeavesSettled DEF Becomes, OnlyOf

LEMMA MretLeaves ==
    ASSUME NEW t \in Threads, NEW s \in State, NEW self, Mret(t, s, self)
    PROVE  Leaves(t, s.x, self)
  BY DEF Mret, Restarts, Leaves

LEMMA LockInMasterSettled ==
    ASSUME NEW t \in Threads, Rest, NEW s \in State, NEW u \in Mutexes, Way(s, th, t, "OFF"),
           NEW stage, Becomes(stage, t, stage[t].stage, th[t].kids, th[t].holds), stage[t].stage # "user",
           NEW self, Becomes(self, t, th[t].stage, th[t].kids, th[t].holds \cup {u}),
           LockInMaster(t, s, u, stage, self)
    PROVE  Settled
<1>1. CASE s.owner[u] = t /\ Mret(t, Grab(s, t, u), self)
  <2>1. Grab(s, t, u) \in State /\ Grab(s, t, u).x = s.x
    BY GrabEffect
  <2>2. Leaves(t, s.x, self)
    BY <1>1, <2>1, MretLeaves
  <2>3. Grabbable(s, t, u)
    BY <1>1 DEF Grabbable
  <2> QED
    BY <2>2, <2>3, BecomesSettled
<1>2. CASE s.owner[u] # t /\ Stealable(s, u) /\ Mret(t, Grab(Steal(s, t, u), t, u), self)
  <2>1. Steal(s, t, u) \in State /\ Steal(s, t, u).x = s.x
    BY StealEffect
  <2>2. Grab(Steal(s, t, u), t, u) \in State /\ Grab(Steal(s, t, u), t, u).x = s.x
    BY <2>1, GrabEffect
  <2>3. Leaves(t, s.x, self)
    BY <1>2, <2>2, MretLeaves
  <2>4. Grabbable(s, t, u)
    BY <1>2 DEF Grabbable, Stealable
  <2> QED
    BY <2>3, <2>4, BecomesSettled
<1>3. CASE s.owner[u] # t /\ ~Stealable(s, u) /\ Block(t, Request(s, t, u), "MUTEX", stage)
  <2>1. Leaves(t, s.x, stage)
    BY <1>3 DEF Leaves
  <2> QED
    BY <2>1, BecomesSettled
<1> QED
  BY <1>1, <1>2, <1>3 DEF LockInMaster

LEMMA CollectPreemptedSettled ==
    ASSUME NEW t \in Threads, Rest, CollectPreempted(t) \/ CollectReturning(t)
    PROVE  Settled
<1>1. Collect(t, "preempted") \/ Collect(t, "returning")
  BY DEF CollectPreempted, CollectReturning
<1>2. Restarts(t, Merge(t), th)
  BY DEF CollectPreempted, CollectReturning, Restarts, At, Mret
<1>3. Merge(t) \in State /\ Way(Merge(t), th, t, "OFF") /\ ThreadsOK(th)
  BY <1>1, MergeWay
<1>4. Leaves(t, Merge(t).x, th)
  BY <1>2, <1>3 DEF Leaves
<1> QED
  BY <1>3, <1>4, LeavesSettled

LEMMA CollectLockSettled ==
    ASSUME NEW t \in Threads, Rest, CollectLock(t)
    PROVE  Settled
<1> DEFINE u == Op(t).u
<1>1. Collect(t, "called") /\ Op(t).op = "lock" /\ LockInMaster(t, Merge(t), u, At(t, "blocked"), Holding(t, u))
  BY DEF CollectLock
<1>2. Merge(t) \in State /\ Way(Merge(t), th, t, "OFF") /\ ThreadsOK(th)
  BY <1>1, MergeWay
<1>3. u \in Mutexes
  BY <1>1, <1>2, OpKinds
<1>4. Becomes(At(t, "blocked"), t, "blocked", th[t].kids, th[t].holds)
  BY <1>2, AtBecomes DEF Stages
<1> HIDE DEF u
<1>5. Becomes(Holding(t, u), t, th[t].stage, th[t].kids, th[t].holds \cup {u})
  BY <1>1, <1>2, <1>3, HoldingBecomes
<1>6. At(t, "blocked")[t].stage = "blocked"
  BY <1>4 DEF Becomes
<1> QED
  BY <1>1, <1>2, <1>3, <1>4, <1>5, <1>6, LockInMasterSettled

LEMMA CollectTrylockSettled ==
    ASSUME NEW t \in Threads, Rest, CollectTrylock(t)
    PROVE  Settled
<1> DEFINE u == Op(t).u
           s == Merge(t)
<1>1. Collect(t, "called") /\ Op(t).op = "trylock"
  BY DEF CollectTrylock
<1>2. s \in State /\ Way(s, th, t, "OFF") /\ ThreadsOK(th)
  BY <1>1, MergeWay
<1>3. u \in Mutexes
  BY <1>1, <1>2, OpKinds
<1>4. CASE s.owner[u] = t /\ Mret(t, Grab(s, t, u), Holding(t, u))
  <2> HIDE DEF s, u
  <2>1. Becomes(Holding(t, u), t, th[t].stage, th[t].kids, th[t].holds \cup {u})
    BY <1>1, <1>2, <1>3, HoldingBecomes
  <2>2. Grab(s, t, u) \in State /\ Grab(s, t, u).x = s.x
    BY <1>2, <1>3, GrabEffect
  <2>3. Leaves(t, s.x, Holding(t, u))
    BY <1>4, <2>2, MretLeaves
  <2>4. Grabbable(s, t, u)
    BY <1>4 DEF Grabbable
  <2> QED
    BY <1>2, <2>1, <2>3, <2>4, BecomesSettled
<1>5. CASE Mret(t, s, Elsewhere(t))
  <2> HIDE DEF s
  <2>1. Becomes(Elsewhere(t), t, th[t].stage, th[t].kids, th[t].holds)
    BY <1>1, <1>2, ElsewhereBecomes
  <2> QED
    BY <1>2, <1>5, <2>1, MretLeaves, BecomesSettled
<1> QED
  BY <1>4, <1>5 DEF CollectTrylock

LEMMA CollectUnlockSettled ==
    ASSUME NEW t \in Threads, Rest, CollectUnlock(t)
    PROVE  Settled
<1> DEFINE u == Op(t).u
           s == Merge(t)
           s2 == Release(s, t, u)
<1>1. Collect(t, "called") /\ Op(t).op = "unlock" /\ Mret(t, s2, Released(t, u))
  BY DEF CollectUnlock
<1>2. s \in State /\ Way(s, th, t, "OFF") /\ ThreadsOK(th)
  BY <1>1, MergeWay
<1>3. u \in Mutexes
  BY <1>1, <1>2, OpKinds
<1> HIDE DEF u, s
<1>4. Becomes(Released(t, u), t, th[t].stage, th[t].kids, th[t].holds \ {u})
  BY <1>1, <1>2, <1>3, HoldingBecomes
<1>5. s2 \in State /\ s2.x = s.x
  BY <1>2, <1>3, ReleaseEffect
<1>6. Leaves(t, s.x, Released(t, u))
  BY <1>1, <1>5, MretLeaves
<1> QED
  BY <1>2, <1>4, <1>6, BecomesSettled

LEMMA CollectSignalSettled ==
    ASSUME NEW t \in Threads, Rest, CollectSignal(t)
    PROVE  Settled
<1> DEFINE s == Merge(t)
           s2 == CondEvent(s, Op(t))
<1>1. Collect(t, "called") /\ Op(t).op \in {"signal", "broadcast"} /\ Mret(t, s2, Next1(t))
  BY DEF CollectSignal
<1>2. s \in State /\ Way(s, th, t, "OFF") /\ ThreadsOK(th)
  BY <1>1, MergeWay
<1>3. Op(t).c \in Conds /\ Op(t).op \notin {"exit", "end"}
  BY <1>1, <1>2, OpKinds
<1> HIDE DEF s
<1>4. Becomes(Next1(t), t, th[t].stage, th[t].kids, th[t].holds)
  BY <1>2, <1>3, Next1Becomes
<1>5. s2 \in State /\ s2.x = s.x
  BY <1>2, <1>3, CondEventEffect DEF Way
<1>6. Leaves(t, s.x, Next1(t))
  BY <1>1, <1>5, MretLeaves
<1> QED
  BY <1>2, <1>4, <1>6, BecomesSettled

LEMMA CollectBlocksSettled ==
    ASSUME NEW t \in Threads, Rest, CollectWait(t) \/ CollectExit(t)
    PROVE  Settled
<1>1. Collect(t, "called")
  BY DEF CollectWait, CollectExit
<1>2. Way(Merge(t), th, t, "OFF") /\ ThreadsOK(th)
  BY <1>1, MergeWay
<1>3. CASE CollectWait(t)
  <2> DEFINE u == Op(t).u
             holds == th[t].holds \ {u}
             self == [At(t, "blocked") EXCEPT ![t].holds = holds]
  <2>1. Becomes(At(t, "blocked"), t, "blocked", th[t].kids, th[t].holds)
    BY <1>2, AtBecomes DEF Stages
  <2>2. \E s : Block(t, s, "COND", self)
    <3>1. At(t, "blocked")[t].holds = th[t].holds
      BY <2>1 DEF Becomes
    <3> QED
      BY <1>3, <3>1 DEF CollectWait
  <2>3. holds \in SUBSET Mutexes
    BY <1>2 DEF ThreadsOK, Thread
  <2>4. Becomes(self, t, "blocked", th[t].kids, holds)
    <3> HIDE DEF holds
    <3> QED BY <2>1, <2>3, HoldsBecomes
  <2> HIDE DEF self
  <2>5. Leaves(t, Merge(t).x, self)
    BY <2>2, <2>4 DEF Leaves, Becomes
  <2> QED
    BY <1>2, <2>4, <2>5, BecomesSettled
<1>4. CASE CollectExit(t)
  <2> DEFINE self == At(t, "none")
  <2>1. Becomes(self, t, "none", th[t].kids, th[t].holds)
    BY <1>2, AtBecomes DEF Stages
  <2>2. \E s, w : Block(t, s, w, self)
    BY <1>4 DEF CollectExit
  <2> HIDE DEF self
  <2>3. Leaves(t, Merge(t).x, self)
    BY <2>1, <2>2 DEF Leaves, Becomes
  <2> QED
    BY <1>2, <2>1, <2>3, BecomesSettled
<1> QED
  BY <1>3, <1>4

LEMMA FreeingState ==
    ASSUME NEW s \in State, NEW j \in Threads, NEW s2, Freeing(s, s2, j)
    PROVE  s2 \in State /\ s2.x = s.x
<1> DEFINE st2 == [s.st EXCEPT ![j] = "FREE"]
<1>1. st2 \in [Threads -> States] /\ s2 = [s EXCEPT !.st = st2]
  BY DEF State, States, Freeing
<1> HIDE DEF st2
<1> QED
  BY <1>1 DEF State

LEMMA JoinSettled ==
    ASSUME NEW t \in Threads, Rest, JoinsOwn, CollectJoin(t) \/ ResumeJoin(t)
    PROVE  Settled
<1> DEFINE tj == th[t].kids[Op(t).k]
<1>1. CASE CollectJoin(t)
  <2> DEFINE s == Merge(t)
  <2>1. Collect(t, "called") /\ Op(t).op = "join"
    BY <1>1 DEF CollectJoin
  <2>2. s \in State /\ Way(s, th, t, "OFF") /\ ThreadsOK(th) /\ th[t].stage = "called"
    BY <2>1, MergeWay
  <2>3. Op(t).k \in DOMAIN th[t].kids /\ tj \in Threads
    BY <2>1, <2>2 DEF JoinsOwn
  <2>4. CASE s.st[tj] = "EXIT" /\ Mret(t, [s EXCEPT !.st[tj] = "FREE"], Joined(t))
    <3> HIDE DEF s
    <3> DEFINE s2 == [s EXCEPT !.st[tj] = "FREE"]
    <3>1. Freeing(s, s2, tj) /\ Mret(t, s2, Joined(t))
      BY <2>4 DEF Freeing
    <3> HIDE DEF s2
    <3>2. s2 \in State /\ s2.x = s.x
      BY <2>2, <2>3, <3>1, FreeingState
    <3>3. Leaves(t, s.x, Joined(t))
      BY <3>1, <3>2, MretLeaves
    <3>4. Becomes(Joined(t), t, th[t].stage, [th[t].kids EXCEPT ![Op(t).k] = NoThread], th[t].holds)
      BY <2>1, <2>2, <2>3, JoinedBecomes
    <3> QED
      BY <2>2, <3>3, <3>4, BecomesSettled
  <2>5. CASE \E z : Block(t, z, "MUTEX", At(t, "blocked"))
    <3> DEFINE self == At(t, "blocked")
    <3>1. Becomes(self, t, "blocked", th[t].kids, th[t].holds)
      BY <2>2, AtBecomes DEF Stages
    <3> HIDE DEF s, self
    <3>2. Leaves(t, s.x, self)
      BY <2>5, <3>1 DEF Leaves, Becomes, self
    <3> QED
      BY <2>2, <3>1, <3>2, BecomesSettled
  <2> QED
    BY <1>1, <2>4, <2>5 DEF CollectJoin
<1>2. CASE ResumeJoin(t)
  <2> DEFINE s2 == IF m.st[tj] # "EXIT" THEN Fail(Dequeued, "join") ELSE [Dequeued EXCEPT !.st[tj] = "FREE"]
  <2>1. Resuming(t) /\ th[t].stage = "blocked" /\ Op(t).op = "join" /\ Mret(t, s2, Joined(t))
    BY <1>2 DEF ResumeJoin
  <2>2. Dequeued \in State /\ Way(Dequeued, th, t, "OFF") /\ ThreadsOK(th) /\ Dequeued.st = m.st
    BY <2>1, DequeuedWay
  <2>3. Op(t).k \in DOMAIN th[t].kids /\ tj \in Threads
    BY <2>1 DEF JoinsOwn
  <2>4. s2 \in State /\ s2.x = Dequeued.x
    <3>1. CASE m.st[tj] # "EXIT"
      <4>1. s2 = Fail(Dequeued, "join") /\ "join" \in Panics /\ "join" # "no"
        BY <3>1 DEF Panics
      <4> HIDE DEF s2
      <4> QED
        BY <2>2, <4>1, Failing
    <3>2. CASE m.st[tj] = "EXIT"
      <4>1. Freeing(Dequeued, s2, tj)
        BY <2>2, <3>2 DEF Freeing
      <4> HIDE DEF s2, tj
      <4> QED
        BY <2>2, <2>3, <4>1, FreeingState
    <3> QED
      BY <3>1, <3>2
  <2> HIDE DEF s2
  <2>5. Leaves(t, Dequeued.x, Joined(t))
    BY <2>1, <2>4, MretLeaves
  <2>6. Becomes(Joined(t), t, th[t].stage, [th[t].kids EXCEPT ![Op(t).k] = NoThread], th[t].holds)
    BY <2>1, <2>2, <2>3, JoinedBecomes
  <2> QED
    BY <2>2, <2>5, <2>6, BecomesSettled
<1> QED
  BY <1>1, <1>2

LEMMA CollectCreateSettled ==
    ASSUME NEW t \in Threads, Rest, CollectCreate(t)
    PROVE  Settled
<1> DEFINE s == Merge(t)
           tn == Slot(s)
           d == Op(t).det
<1>1. Collect(t, "called") /\ Op(t).op = "create"
  BY CollectCreateDef
<1>2. s \in State /\ Way(s, th, t, "OFF") /\ ThreadsOK(th)
  BY <1>1, MergeWay
<1>3. CASE FreeSlots(s) = {}
  <2> DEFINE s2 == Fail(s, "too many threads")
  <2>1. Mret(t, s2, th)
    BY <1>3, CollectCreateDef
  <2>2. s2 \in State /\ s2.x = s.x
    BY <1>2, Failing DEF Panics
  <2> HIDE DEF s2, s
  <2>3. Leaves(t, s.x, th)
    BY <2>1, <2>2, MretLeaves
  <2> QED
    BY <1>2, <2>3, LeavesSettled
<1>4. CASE FreeSlots(s) # {}
  <2> DEFINE s2 == InSlot(t, s)
             self == WithNew(t, s)
  <2>1. Mret(t, s2, self)
    BY <1>4, CollectCreateDef
  <2> HIDE DEF s
  <2>2. s.st[t] = "RUN"
    BY <1>2 DEF Way, Mid
  <2>3. tn \in Threads /\ Creates(s, s2, th, self, t, tn, d) /\ s2 \in State /\ s2.x = s.x
    BY <1>1, <1>2, <1>4, <2>2, CreateEffect
  <2> HIDE DEF s2, self, tn, d
  <2>4. Leaves(t, s.x, self)
    BY <2>1, <2>3, MretLeaves
  <2>5. /\ ThreadsOK(self) /\ self[t].holds = th[t].holds
        /\ \A y \in Threads : y # t => self[y] = th[y] \/ (self[y].holds = {} /\ self[y].stage = "new")
    BY <2>3 DEF Creates
  <2> QED
    BY <1>2, <2>4, <2>5, LeavesSettled
<1> QED
  BY <1>3, <1>4

LEMMA ResumeSettled ==
    ASSUME NEW t \in Threads, Rest, Resume(t)
    PROVE  Settled
<1> DEFINE u == Op(t).u
<1>1. Resuming(t)
  BY DEF Resume
<1>2. /\ Dequeued \in State /\ Way(Dequeued, th, t, "OFF") /\ ThreadsOK(th) /\ Member(t, m.ready)
      /\ Dequeued.owner = m.owner
  BY <1>1, DequeuedWay
<1>3. CASE Mret(t, Dequeued, th)
  BY <1>2, <1>3, MretLeaves, LeavesSettled
<1>4. ASSUME NEW self, (th[t].stage = "blocked" /\ Op(t).op = "lock") \/ th[t].stage = "relock",
             Mret(t, Grab(Dequeued, t, u), self),
             u \in Mutexes => Becomes(self, t, th[t].stage, th[t].kids, th[t].holds \cup {u})
      PROVE  Settled
  <2>1. u \in Mutexes /\ m.owner[u] = t
    BY <1>2, <1>4, ReadyFor
  <2> HIDE DEF u
  <2>2. Grab(Dequeued, t, u) \in State /\ Grab(Dequeued, t, u).x = Dequeued.x
    BY <1>2, <2>1, GrabEffect
  <2>3. Leaves(t, Dequeued.x, self)
    BY <1>4, <2>2, MretLeaves
  <2>4. Grabbable(Dequeued, t, u)
    BY <1>2, <2>1 DEF Grabbable
  <2> QED
    BY <1>2, <1>4, <2>1, <2>3, <2>4, BecomesSettled
<1>5. CASE th[t].stage = "blocked" /\ Op(t).op = "lock" /\ Mret(t, Grab(Dequeued, t, u), Holding(t, u))
  BY <1>2, <1>4, <1>5, HoldingBecomes
<1>6. CASE th[t].stage = "relock" /\ Mret(t, Grab(Dequeued, t, u), [th EXCEPT ![t].holds = @ \cup {u}])
  <2> DEFINE self == [th EXCEPT ![t].holds = @ \cup {u}]
  <2>1. u \in Mutexes => Becomes(self, t, th[t].stage, th[t].kids, th[t].holds \cup {u})
    BY <1>2, HoldBecomes
  <2>2. Mret(t, Grab(Dequeued, t, u), self)
    BY <1>6
  <2> HIDE DEF self
  <2> QED
    BY <1>4, <1>6, <2>1, <2>2
<1> QED
  BY <1>3, <1>5, <1>6 DEF Resume

LEMMA ResumeWaitSettled ==
    ASSUME NEW t \in Threads, Rest, ResumeWait(t)
    PROVE  Settled
<1> DEFINE u == Op(t).u
           self == [th EXCEPT ![t].holds = @ \cup {u}]
<1>1. /\ Resuming(t) /\ th[t].stage = "blocked" /\ Op(t).op = "await"
      /\ LockInMaster(t, Dequeued, u, At(t, "relock"), self)
  BY DEF ResumeWait
<1>2. Dequeued \in State /\ Way(Dequeued, th, t, "OFF") /\ ThreadsOK(th)
  BY <1>1, DequeuedWay
<1>3. u \in Mutexes
  BY <1>1, <1>2, OpKinds
<1>4. Becomes(At(t, "relock"), t, "relock", th[t].kids, th[t].holds)
  BY <1>2, AtBecomes DEF Stages
<1> HIDE DEF u
<1>5. Becomes(self, t, th[t].stage, th[t].kids, th[t].holds \cup {u})
  BY <1>2, <1>3, HoldBecomes
<1> HIDE DEF self
<1>6. At(t, "relock")[t].stage = "relock"
  BY <1>4 DEF Becomes
<1> QED
  BY <1>1, <1>2, <1>3, <1>4, <1>5, <1>6, LockInMasterSettled

LEMMA CollectEndSettled ==
    ASSUME NEW t \in Threads, Rest, CollectEnd(t)
    PROVE  Settled
<1>1. ThreadsOK(th) /\ 0 \in Threads /\ th' = At(0, "done") /\ view' = view /\ total' = total
  BY DSchedAssumption DEF Rest, Good, CollectEnd, Threads
<1>2. Becomes(At(0, "done"), 0, "done", th[0].kids, th[0].holds)
  BY <1>1, AtBecomes DEF Stages
<1>3. \A y \in Threads : th'[y].holds = th[y].holds /\ (th'[y].stage = "user" => th[y].stage = "user")
  BY <1>1, <1>2 DEF Becomes, OnlyOf
<1>4. MutualExclusion'
  BY <1>3, RestExclusion DEF MutualExclusion
<1>5. Data(m, view, ref, total) => DataFresh'
  BY <1>1, <1>3, RestFresh DEF DataFresh
<1> QED
  BY <1>4, <1>5 DEF Settled

LEMMA SchedSettled ==
    ASSUME NEW t \in Threads, Rest, JoinsOwn, Sched(t)
    PROVE  Settled
  BY CollectPreemptedSettled, CollectLockSettled, CollectTrylockSettled, CollectUnlockSettled,
     CollectSignalSettled, CollectBlocksSettled, CollectCreateSettled, JoinSettled, ResumeSettled,
     ResumeWaitSettled, CollectEndSettled DEF Sched

-----------------------------------------------------------------------------
(* What the invariant says of the queues, the requests and the merges *)

LEMMA RestQueues ==
    ASSUME Rest
    PROVE  QueueExact
<1>1. Queues(m, m.st) /\ m \in State
  BY DEF Rest, Good
<1>2. Once(m.ready) /\ Once(m.runq) /\ (\A u \in Mutexes : Once(m.mq[u])) /\ (\A c \in Conds : Once(m.cq[c]))
  BY <1>1 DEF Queues
<1>3. ASSUME NEW t \in Threads
      PROVE  IF Kinds[m.st[t]] = {} THEN Places(t) = {}
             ELSE \E q \in Places(t) : Places(t) = {q} /\ q[1] \in Kinds[m.st[t]]
  <2> DEFINE P == Places(t)
             a == <<"ready", 0>>
             b == <<"run", 0>>
  <2>1. \A q : q \in P <=> \/ Member(t, m.ready) /\ q = a
                           \/ Member(t, m.runq) /\ q = b
                           \/ \E u \in Mutexes : Member(t, m.mq[u]) /\ q = <<"mutex", u>>
                           \/ \E c \in Conds : Member(t, m.cq[c]) /\ q = <<"cond", c>>
                           \/ \E j \in Threads : Joins(m, m.st, t, j) /\ q = <<"join", j>>
    BY Zenon DEF Places, Joins
  <2> HIDE DEF P
  <2>2. /\ Kinds["RUN"] = {"ready", "run"} /\ Kinds["MUTEX"] = {"mutex", "join"} /\ Kinds["COND"] = {"cond"}
        /\ Kinds["FREE"] = {} /\ Kinds["EXIT"] = {}
    BY DEF Kinds
  <2>3. m.st[t] \in States
    BY <1>1 DEF State
  <2>4. CASE m.st[t] = "RUN"
    <3>1. /\ Member(t, m.ready) \/ Member(t, m.runq)
          /\ ~(Member(t, m.ready) /\ Member(t, m.runq))
          /\ \A u \in Mutexes : ~Member(t, m.mq[u])
          /\ \A c \in Conds : ~Member(t, m.cq[c])
          /\ \A j \in Threads : ~Joins(m, m.st, t, j)
      BY <1>1, <2>4 DEF Queues
    <3>2. CASE Member(t, m.ready)
      <4>1. P = {a} /\ a[1] = "ready"
        BY <2>1, <3>1, <3>2
      <4> QED
        BY <2>2, <2>4, <4>1 DEF P
    <3>3. CASE Member(t, m.runq)
      <4>1. P = {b} /\ b[1] = "run"
        BY <2>1, <3>1, <3>3
      <4> QED
        BY <2>2, <2>4, <4>1 DEF P
    <3> QED
      BY <3>1, <3>2, <3>3
  <2>5. CASE m.st[t] = "MUTEX"
    <3>1. /\ ~Member(t, m.ready) /\ ~Member(t, m.runq)
          /\ \A c \in Conds : ~Member(t, m.cq[c])
          /\ (\E u \in Mutexes : Member(t, m.mq[u])) \/ \E j \in Threads : Joins(m, m.st, t, j)
          /\ \A j \in Threads, u \in Mutexes : ~(Joins(m, m.st, t, j) /\ Member(t, m.mq[u]))
          /\ \A u, v \in Mutexes : Member(t, m.mq[u]) /\ Member(t, m.mq[v]) => u = v
          /\ \A j, k \in Threads : Joins(m, m.st, t, j) /\ Joins(m, m.st, t, k) => j = k
      BY <1>1, <2>5 DEF Queues
    <3>2. ASSUME NEW u \in Mutexes, Member(t, m.mq[u])
          PROVE  \E q \in P : P = {q} /\ q[1] \in {"mutex", "join"}
      <4> DEFINE q == <<"mutex", u>>
      <4>1. q[1] = "mutex" /\ q \in P
        BY <2>1, <3>2
      <4>2. \A z \in P : z = q
        BY <2>1, <3>1, <3>2
      <4> HIDE DEF q
      <4> QED
        BY <4>1, <4>2
    <3>3. ASSUME NEW j \in Threads, Joins(m, m.st, t, j)
          PROVE  \E q \in P : P = {q} /\ q[1] \in {"mutex", "join"}
      <4> DEFINE q == <<"join", j>>
      <4>1. q[1] = "join" /\ q \in P
        BY <2>1, <3>3
      <4>2. \A z \in P : z = q
        BY <2>1, <3>1, <3>3
      <4> HIDE DEF q
      <4> QED
        BY <4>1, <4>2
    <3> QED
      BY <2>2, <2>5, <3>1, <3>2, <3>3 DEF P
  <2>6. CASE m.st[t] = "COND"
    <3>1. /\ ~Member(t, m.ready) /\ ~Member(t, m.runq)
          /\ \A u \in Mutexes : ~Member(t, m.mq[u])
          /\ \A j \in Threads : ~Joins(m, m.st, t, j)
          /\ \A c, d \in Conds : Member(t, m.cq[c]) /\ Member(t, m.cq[d]) => c = d
      BY <1>1, <2>6 DEF Queues
    <3>2. PICK c \in Conds : Member(t, m.cq[c])
      BY <1>1, <2>6 DEF Queues
    <3> DEFINE q == <<"cond", c>>
    <3>3. q[1] = "cond" /\ q \in P
      BY <2>1, <3>2
    <3>4. \A z \in P : z = q
      BY <2>1, <3>1, <3>2
    <3> HIDE DEF q
    <3>5. P = {q}
      BY <3>3, <3>4
    <3> QED
      BY <2>2, <2>6, <3>3, <3>5 DEF P
  <2>7. CASE m.st[t] \in {"FREE", "EXIT"}
    <3>1. /\ ~Member(t, m.ready) /\ ~Member(t, m.runq)
          /\ \A u \in Mutexes : ~Member(t, m.mq[u])
          /\ \A c \in Conds : ~Member(t, m.cq[c])
          /\ \A j \in Threads : ~Joins(m, m.st, t, j)
      BY <1>1, <2>7 DEF Queues
    <3>2. P = {}
      BY <2>1, <3>1
    <3> QED
      BY <2>2, <2>7, <3>2 DEF P
  <2> QED
    BY <2>3, <2>4, <2>5, <2>6, <2>7 DEF States
<1> QED
  BY <1>2, <1>3 DEF QueueExact

LEMMA RestReqs ==
    ASSUME Rest, Lost(m, m.st, th, view)
    PROVE  ReqsExact
<1>1. Requests(m, m.st, NoThread) /\ NoThread \notin Threads
  BY DSchedAssumption DEF Rest, Good, NoThread, Threads
<1> QED
  BY <1>1 DEF Requests, Lost, ReqsExact

(* The process ends when the master has merged the thread that has called exit. *)
LEMMA EndReqs ==
    ASSUME NEW t \in Threads, Rest, Lost(m, m.st, th, view), CollectEnd(t)
    PROVE  ReqsExact'
<1> DEFINE s == Merge(t)
           T == [s.st EXCEPT ![t] = "OFF"]
<1>1. m' = s /\ m.runq # <<>> /\ t = Head(m.runq)
  BY DEF CollectEnd, Collect
<1>2. Mid(s, th, view, ref, t, "OFF") /\ Lost(s, T, th, view)
  BY <1>1, MergeMid
<1> HIDE DEF s
<1>3. s.st[t] = "RUN" /\ Requests(s, T, t) /\ s \in State
  BY <1>2 DEF Mid, Good
<1>4. \A y \in Threads : y # t => T[y] = s.st[y]
  BY <1>3 DEF State
<1> HIDE DEF T
<1>5. \A y \in Threads, u \in Mutexes : Member(u, s.reqs[y]) /\ ~s.locked[u] => s.st[y] = "RUN"
  BY <1>3, <1>4 DEF Requests
<1>6. \A u \in Mutexes, y \in Threads : Member(u, s.reqs[y]) <=> (s.owner[u] = y /\ s.mq[u] # <<>>)
  BY <1>2, <1>3 DEF Requests, Lost
<1> QED
  BY <1>1, <1>5, <1>6 DEF ReqsExact

(* What t has changed in its copy the master has not changed since. *)
LEMMA NoClashes ==
    ASSUME NEW t \in Threads, Rest, Data(m, view, ref, total), m.runq # <<>>, t = Head(m.runq)
    PROVE  ~Clashes(t)
<1>1. Member(t, m.runq)
  <2>1. m.runq \in Seq(Threads)
    BY DEF Rest, Good, State
  <2> QED
    BY <2>1, InTail
<1>2. Copies(m, th, view, ref) /\ Kids(m, m.st, th, view, ref)
  BY DEF Rest, Good
<1>3. \A u \in Mutexes : view[t].locked[u] # ref[t].locked[u] => m.locked[u] = ref[t].locked[u]
  BY <1>1, <1>2 DEF Copies
<1>4. m.ev = ref[t].ev /\ \A c \in Conds : m.nwake[c] = ref[t].nwake[c]
  BY <1>1, <1>2 DEF Copies, Rest
<1>5. \A j \in Threads : view[t].st[j] # ref[t].st[j] => m.st[j] = ref[t].st[j]
  BY <1>1, <1>2 DEF Kids, Freed
<1>6. view[t].x # ref[t].x => m.x = ref[t].x
  BY <1>1 DEF Data
<1> QED
  BY <1>3, <1>4, <1>5, <1>6 DEF Clashes

-----------------------------------------------------------------------------
(* The invariant holds at the start, and every step keeps it. *)

LEMMA InitRest ==
    ASSUME Init
    PROVE  Rest /\ Lost(m, m.st, th, view) /\ Data(m, view, ref, total) /\ ~clash
<1>1. m = InitMaster /\ view = [t \in Threads |-> InitMaster] /\ ref = view /\ total = 0 /\ ~clash
  BY DEF Init
<1>2. PICK g \in MainProgs : th = [t \in Threads |-> NewThread(g, IF t = 0 THEN "user" ELSE "none")]
  BY DEF Init
<1>3. 0 \in Threads /\ NoThread \notin Threads /\ MAXTHREADS \in Nat
  BY DSchedAssumption DEF Threads, NoThread
<1>4. InitMaster \in State
  <2> DEFINE none == <<>>
             one == <<0>>
  <2>1. /\ none \in Seq(Threads) /\ none \in Seq(Mutexes) /\ none \in Seq(Conds)
        /\ one \in Seq(Threads)
    BY <1>3
  <2> DEFINE st == [t \in Threads |-> IF t = 0 THEN "RUN" ELSE "FREE"]
  <2>2. st \in [Threads -> States] /\ "no" \in Panics
    BY DEF States, Panics
  <2>3. InitMaster = [owner |-> [u \in Mutexes |-> 0], locked |-> [u \in Mutexes |-> FALSE],
                      mq |-> [u \in Mutexes |-> none], reqs |-> [t \in Threads |-> none],
                      cq |-> [c \in Conds |-> none], nwake |-> [c \in Conds |-> 0], ev |-> none,
                      st |-> st, det |-> [t \in Threads |-> FALSE],
                      joiner |-> [t \in Threads |-> NoThread], ready |-> none, runq |-> one,
                      x |-> 0, panic |-> "no"]
    BY DEF InitMaster
  <2> HIDE DEF none, one, st
  <2> QED
    BY <1>3, <2>1, <2>2, <2>3 DEF State
<1>5. /\ m.ready = <<>> /\ m.runq = <<0>> /\ m.ev = <<>> /\ m.panic = "no" /\ m.x = 0
      /\ \A u \in Mutexes : m.owner[u] = 0 /\ m.locked[u] = FALSE /\ m.mq[u] = <<>>
      /\ \A t \in Threads : m.reqs[t] = <<>> /\ m.det[t] = FALSE /\ m.joiner[t] = NoThread
      /\ \A t \in Threads : m.st[t] = IF t = 0 THEN "RUN" ELSE "FREE"
      /\ \A c \in Conds : m.cq[c] = <<>> /\ m.nwake[c] = 0
  BY <1>1 DEF InitMaster
<1>6. \A t \in Threads : view[t] = m /\ ref[t] = m
  BY <1>1
<1>7. view \in [Threads -> State] /\ ref \in [Threads -> State] /\ m \in State
  BY <1>1, <1>4
<1>8. /\ \A t \in Threads : th[t].holds = {} /\ th[t].kids = <<>>
      /\ \A t \in Threads : th[t].stage = IF t = 0 THEN "user" ELSE "none"
      /\ ThreadsOK(th)
  <2>1. /\ g \in Progs /\ 1 \in 1 .. Len(Code[g])
    BY DSchedAssumption
  <2> QED
    BY <1>2, <2>1 DEF NewThread, ThreadsOK, Thread, Stages
<1>9. /\ \A y : ~Member(y, <<>>) /\ Once(<<>>) /\ Once(<<0>>)
      /\ \A y : Member(y, <<0>>) <=> y = 0
  BY DEF Member, Once
<1>10. \A t \in Threads, j \in Threads : ~Joins(m, m.st, t, j)
  BY <1>3, <1>5 DEF Joins
<1>11. \A t, j \in Threads : ~Kid(th, t, j)
  BY <1>8 DEF Kid
<1>12. Queues(m, m.st)
  BY <1>5, <1>9, <1>10 DEF Queues
<1>13. Reasons(m, m.st, th)
  BY <1>5, <1>8, <1>9, <1>10 DEF Reasons, InChild
<1>14. Requests(m, m.st, NoThread)
  BY <1>5, <1>9 DEF Requests
<1>15. Locks(m, th, view)
  BY <1>8 DEF Locks
<1>16. Copies(m, th, view, ref)
  BY <1>3, <1>5, <1>6, <1>7, <1>9 DEF Copies
<1>17. Kids(m, m.st, th, view, ref)
  <2>1. \A t, j \in Threads : ~Freed(view, ref, t, j)
    BY <1>6 DEF Freed
  <2>2. \A t \in Threads : DOMAIN th[t].kids = {}
    BY <1>8
  <2> QED
    BY <1>11, <2>1, <2>2 DEF Kids
<1>18. Rest
  BY <1>5, <1>7, <1>8, <1>9, <1>12, <1>13, <1>14, <1>15, <1>16, <1>17 DEF Rest, Good, InChild
<1>19. Lost(m, m.st, th, view)
  BY <1>3, <1>5, <1>6, <1>8, <1>9 DEF Lost
<1>20. Data(m, view, ref, total)
  BY <1>1, <1>3, <1>5, <1>6, <1>9, DSchedAssumption DEF Data
<1> QED
  BY <1>1, <1>18, <1>19, <1>20

LEMMA NextCases ==
    ASSUME [Next]_vars
    PROVE  \/ UNCHANGED vars
           \/ Live /\ NoRunningThreads
           \/ Live /\ \E t \in Threads : Slice(t) \/ Preempt(t)
           \/ Live /\ \E t \in Threads : Sched(t)
<1>1. ASSUME NEW t \in Threads, Slice(t) \/ Preempt(t)
      PROVE  Live
  <2>1. InSlice(t)
    BY <1>1 DEF Slice, Preempt, MutexLock, MutexTrylock, MutexUnlock, CondSignal, Join, CallMaster, Compute
  <2> QED
    BY <2>1 DEF InSlice, Live
<1>2. ASSUME NEW t \in Threads, Sched(t)
      PROVE  Live
  <2>1. Resuming(t) \/ \E stage : Collect(t, stage)
    BY <1>2 DEF Sched, CollectPreempted, CollectReturning, CollectLock, CollectTrylock, CollectUnlock,
                CollectSignal, CollectWait, CollectCreate, CollectJoin, CollectExit, CollectEnd,
                Resume, ResumeWait, ResumeJoin
  <2> QED
    BY <2>1 DEF Resuming, Collect, Collecting, Live
<1>3. NoRunningThreads => Live
  BY DEF NoRunningThreads, Collecting, Live
<1> QED
  BY <1>1, <1>2, <1>3 DEF Next, Ended

LEMMA NextKeeps ==
    ASSUME Inv, JoinsOwn, [Next]_vars, m'.panic = "no"
    PROVE  \/ UNCHANGED vars
           \/ Live /\ Kept
           \/ Live /\ ~Live' /\ \E t \in Threads : CollectEnd(t)
<1>1. ASSUME Live, NoRunningThreads PROVE FALSE
  <2>1. m \in State
    BY <1>1 DEF Inv, Rest, Good
  <2>2. m' = Fail(m, "deadlock") /\ "deadlock" \in Panics /\ "deadlock" # "no"
    BY <1>1 DEF NoRunningThreads, Panics
  <2> QED
    BY <2>1, <2>2, Failing
<1>2. ASSUME NEW t \in Threads, CollectEnd(t), Live PROVE ~Live'
  <2>1. ThreadsOK(th) /\ 0 \in Threads
    BY <1>2, DSchedAssumption DEF Inv, Rest, Good, Threads
  <2>2. At(0, "done")[0].stage = "done"
    BY <2>1, AtBecomes DEF Stages, Becomes
  <2> QED
    BY <1>2, <2>2 DEF CollectEnd, Live
<1> QED
  BY <1>1, <1>2, NextCases, SliceKeeps, SchedKeeps DEF Inv

LEMMA NextSettles ==
    ASSUME Inv, JoinsOwn, [Next]_vars
    PROVE  UNCHANGED <<th, view, total>> \/ (Live /\ (Kept \/ Settled))
<1>1. UNCHANGED vars => UNCHANGED <<th, view, total>>
  BY DEF vars
<1>2. NoRunningThreads => UNCHANGED <<th, view, total>>
  BY DEF NoRunningThreads
<1> QED
  BY <1>1, <1>2, NextCases, SliceKeeps, SchedSettled DEF Inv

LEMMA InvNext ==
    Inv /\ JoinsOwn /\ [Next]_vars => Inv'
<1> SUFFICES ASSUME Inv, JoinsOwn, [Next]_vars, Live' PROVE Rest'
  BY DEF Inv
<1>1. CASE UNCHANGED vars
  <2>1. Live
    BY <1>1 DEF vars, Live
  <2>2. Rest
    BY <2>1 DEF Inv
  <2>3. Good(m, m.st, th, view, ref, NoThread)
    BY <2>2 DEF Rest
  <2>4. m' = m /\ th' = th /\ view' = view /\ ref' = ref
    BY <1>1 DEF vars
  <2>5. Queues(m, m.st)' /\ Requests(m, m.st, NoThread)'
    BY <2>3, <2>4 DEF Good, Queues, Joins, Requests
  <2>6. Reasons(m, m.st, th)' /\ ThreadsOK(th)'
    BY <2>3, <2>4 DEF Good, Reasons, Joins, Locking, OpOf, ThreadsOK
  <2>7. Locks(m, th, view)' /\ Copies(m, th, view, ref)'
    BY <2>3, <2>4 DEF Good, Locks, Copies
  <2>8. Kids(m, m.st, th, view, ref)'
    BY <2>3, <2>4 DEF Good, Kids, Kid, Freed
  <2>9. Good(m, m.st, th, view, ref, NoThread)'
    BY <2>3, <2>4, <2>5, <2>6, <2>7, <2>8 DEF Good
  <2> QED
    BY <2>2, <2>4, <2>9 DEF Rest
<1>2. CASE Live /\ Kept
  BY <1>2 DEF Kept
<1> QED
  BY <1>1, <1>2, NextKeeps DEF Live

LEMMA InvNext2 ==
    Inv /\ Inv2 /\ JoinsOwn /\ ExitsUnlocked /\ [Next]_vars => Inv2'
<1> SUFFICES ASSUME Inv, Inv2, JoinsOwn, ExitsUnlocked, [Next]_vars, Live' PROVE Lost(m, m.st, th, view)'
  BY DEF Inv2
<1>1. CASE UNCHANGED vars
  BY <1>1 DEF vars, Live, Inv2, Lost
<1>2. CASE Live /\ Kept
  BY <1>2 DEF Kept, Inv2
<1> QED
  BY <1>1, <1>2, NextKeeps DEF Live

LEMMA InvNext3 ==
    Inv /\ Inv3 /\ JoinsOwn /\ AddsLocked /\ [Next]_vars => Inv3'
<1> SUFFICES ASSUME Inv, Inv3, JoinsOwn, AddsLocked, [Next]_vars, Live' PROVE Data(m, view, ref, total)'
  BY DEF Inv3
<1>1. CASE UNCHANGED vars
  BY <1>1 DEF vars, Live, Inv3, Data
<1>2. CASE Live /\ Kept
  BY <1>2 DEF Kept, Inv3
<1> QED
  BY <1>1, <1>2, NextKeeps DEF Live

-----------------------------------------------------------------------------
(* The theorems *)

(* For programs whose threads join only threads of their own: at the top of the
   scheduler and in its loop the library's state, the threads and the copies of
   running threads agree (Rest), as long as the process has not ended and no
   assertion has failed (pthread_sched, tevents, mutexreqs, condwakeups). *)
THEOREM Invariance == Spec /\ []JoinsOwn => []Inv
<1>1. Init => Inv
  BY InitRest DEF Inv
<1> QED
  BY <1>1, InvNext, PTL DEF Spec

(* A mutex is held by one thread at most, also after a failed assertion
   (mutexlock, mutexunlock, mutexreqs). *)
THEOREM MutexesExclude == Spec /\ []JoinsOwn => []MutualExclusion
<1>1. Init => Inv /\ MutualExclusion
  BY InitRest, RestExclusion DEF Inv
<1>2. Inv /\ MutualExclusion /\ JoinsOwn /\ [Next]_vars => MutualExclusion'
  <2> SUFFICES ASSUME Inv, MutualExclusion, JoinsOwn, [Next]_vars PROVE MutualExclusion'
    OBVIOUS
  <2>1. CASE UNCHANGED <<th, view, total>>
    BY <2>1 DEF MutualExclusion
  <2>2. CASE Kept
    <3>1. Rest'
      BY <2>2 DEF Kept
    <3>2. Locks(m, th, view)'
      BY <3>1 DEF Rest, Good
    <3> QED
      BY <3>2 DEF Locks, MutualExclusion
  <2>3. CASE Settled
    BY <2>3 DEF Settled
  <2> QED
    BY <2>1, <2>2, <2>3, NextSettles
<1> QED
  BY <1>1, <1>2, Invariance, PTL DEF Spec

(* A thread is on the one queue that its state names, and once (trun, tready,
   tblock: all queues are chained through qnext). *)
THEOREM QueuesExact == Spec /\ []JoinsOwn => []QueueExact
<1>1. Inv => QueueExact
  BY RestQueues DEF Inv, Live, QueueExact
<1> QED
  BY <1>1, Invariance, PTL

(* For programs whose threads also exit with nothing locked: no request for a
   mutex is forgotten (mutexlock, mutexreqs). *)
THEOREM RequestsExact == Spec /\ []JoinsOwn /\ []ExitsUnlocked => []ReqsExact
<1>1. Init => Inv2 /\ ReqsExact
  BY InitRest, RestReqs DEF Inv2
<1>2. Inv /\ Inv2 /\ ReqsExact /\ JoinsOwn /\ ExitsUnlocked /\ [Next]_vars => ReqsExact'
  <2> SUFFICES ASSUME Inv, Inv2, ReqsExact, JoinsOwn, ExitsUnlocked, [Next]_vars, m'.panic = "no"
               PROVE  ReqsExact'
    BY DEF ReqsExact
  <2>1. CASE UNCHANGED vars
    BY <2>1 DEF vars, ReqsExact
  <2>2. CASE Live /\ Kept
    <3>1. Rest' /\ Lost(m, m.st, th, view)'
      BY <2>2 DEF Kept, Inv2
    <3>2. Requests(m, m.st, NoThread)' /\ NoThread \notin Threads
      BY <3>1, DSchedAssumption DEF Rest, Good, NoThread, Threads
    <3> QED
      BY <3>1, <3>2 DEF Requests, Lost, ReqsExact
  <2>3. CASE Live /\ \E t \in Threads : CollectEnd(t)
    BY <2>3, EndReqs DEF Inv, Inv2
  <2> QED
    BY <2>1, <2>2, <2>3, NextKeeps
<1> QED
  BY <1>1, <1>2, Invariance, InvNext2, PTL DEF Spec

(* For programs that increase x under its mutex only: a thread that holds the
   mutex sees every increase, also one that another thread has made in its copy
   (pthread_sched merges before mutexreqs passes the mutex on). *)
THEOREM DataIsFresh == Spec /\ []JoinsOwn /\ []AddsLocked => []DataFresh
<1>1. Init => Inv3 /\ DataFresh
  BY InitRest, RestFresh DEF Inv3
<1>2. Inv /\ Inv3 /\ DataFresh /\ JoinsOwn /\ AddsLocked /\ [Next]_vars => DataFresh'
  <2> SUFFICES ASSUME Inv, Inv3, DataFresh, JoinsOwn, AddsLocked, [Next]_vars PROVE DataFresh'
    OBVIOUS
  <2>1. CASE UNCHANGED <<th, view, total>>
    BY <2>1 DEF DataFresh
  <2>2. CASE Live /\ Kept
    <3>1. Rest' /\ Data(m, view, ref, total)'
      BY <2>2 DEF Kept, Inv3
    <3> SUFFICES ASSUME NEW t \in Threads, th'[t].stage = "user", DataMutex \in th'[t].holds
                 PROVE  view'[t].x = total'
      BY DEF DataFresh
    <3>2. Locks(m, th, view)' /\ Member(t, m.runq)'
      BY <3>1 DEF Rest, Good, InChild
    <3>3. m'.owner[DataMutex] = t
      BY <3>2, DSchedAssumption DEF Locks
    <3> QED
      BY <3>1, <3>2, <3>3 DEF Data
  <2>3. CASE Live /\ Settled
    BY <2>3 DEF Settled, Inv3
  <2> QED
    BY <2>1, <2>2, <2>3, NextSettles
<1> QED
  BY <1>1, <1>2, Invariance, InvNext3, PTL DEF Spec

(* For the same programs: no merge finds that thread and master have both changed
   a datum of the library or x (sys_get MERGE in pthread_sched). *)
THEOREM MergesNeverClash == Spec /\ []JoinsOwn /\ []AddsLocked => []NoClash
<1>1. Init => Inv3 /\ NoClash
  BY InitRest DEF Inv3, NoClash
<1>2. Inv /\ Inv3 /\ NoClash /\ JoinsOwn /\ [Next]_vars => NoClash'
  <2> SUFFICES ASSUME Inv, Inv3, ~clash, JoinsOwn, [Next]_vars PROVE ~clash'
    BY DEF NoClash
  <2>1. CASE UNCHANGED vars \/ NoRunningThreads
    BY <2>1 DEF vars, NoRunningThreads
  <2>2. ASSUME NEW t \in Threads, Slice(t) \/ Preempt(t), Live PROVE ~clash'
    BY <2>2, SliceKeeps DEF Inv
  <2>3. ASSUME NEW t \in Threads, Sched(t), Live PROVE ~clash'
    <3>1. Resuming(t) \/ \E stage : Collect(t, stage)
      BY <2>3 DEF Sched, CollectPreempted, CollectReturning, CollectLock, CollectTrylock, CollectUnlock,
                  CollectSignal, CollectWait, CollectCreate, CollectJoin, CollectExit, CollectEnd,
                  Resume, ResumeWait, ResumeJoin
    <3> QED
      BY <2>3, <3>1, NoClashes DEF Inv, Inv3, Resuming, Collect
  <2> QED
    BY <2>1, <2>2, <2>3, NextCases
<1> QED
  BY <1>1, <1>2, Invariance, InvNext3, PTL DEF Spec
=============================================================================
