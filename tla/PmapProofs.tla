----------------------------- MODULE PmapProofs -----------------------------
(****************************************************************************)
(* Proofs about Pmap, for any number of children, entries, pages and        *)
(* operations.                                                              *)
(*                                                                          *)
(* MemOK is the invariant of the memory state: reference counts are exact,  *)
(* a frame is a table or a page and not both, only tables have entries, and *)
(* what an entry allows to write has one reference.  LowStep and TopStep    *)
(* say that a change of one entry preserves it when the counts follow, and  *)
(* LowReads and TopReads what the address spaces then read.  Every function *)
(* of pmap.c has a lemma ...OK: it preserves MemOK, and afterwards the      *)
(* address spaces read what eager copying would give.  Loops over the       *)
(* entries of a table are shown by induction over their rounds.  A free     *)
(* frame always exists, because the frames in use are the target of an      *)
(* entry of a root table or of a table that one refers to.                  *)
(****************************************************************************)
EXTENDS Pmap, TLAPS, FiniteSetTheorems, NaturalsInduction, WellFoundedInduction

-----------------------------------------------------------------------------
(* The invariant of the memory state *)

Page == [Bytes -> Values \cup {0}]
Memory == [root : [Pmaps -> [Tops -> Entry]], tab : [Frames -> [Lows -> Entry]],
           page : [Frames -> Page], ref : [Frames -> Nat]]

RootRefs(m, f) == {x \in Pmaps \X Tops : m.root[x[1]][x[2]].a = f}
TabRefs(m, f) == {x \in Frames \X Lows : m.tab[x[1]][x[2]].a = f}

IsTable(m, d) == \E s \in Pmaps, t \in Tops : m.root[s][t].a = d

(* Reference counts are exact, all entries of all frames being counted. *)
Exact(m) == \A f \in Frames : m.ref[f] = Cardinality(RootRefs(m, f)) + Cardinality(TabRefs(m, f))

(* A lower table is not also a page. *)
Kinds(m) ==
    \A s \in Pmaps, t \in Tops, d \in Frames, l \in Lows :
      m.tab[d][l].a # 0 => m.tab[d][l].a # m.root[s][t].a

(* Only tables have entries. *)
Tables(m) == \A d \in Frames, l \in Lows : m.tab[d][l].a # 0 => IsTable(m, d)

(* What is writable has one reference. *)
OwnTable(m, d) ==
    /\ d # 0 /\ m.ref[d] = 1
    /\ \A l \in Lows : m.tab[d][l].w => m.tab[d][l].a # 0 /\ m.ref[m.tab[d][l].a] = 1
Own(m) == \A s \in Pmaps, t \in Tops : m.root[s][t].w => OwnTable(m, m.root[s][t].a)

MemOK(m) == m \in Memory /\ Exact(m) /\ Kinds(m) /\ Tables(m) /\ Own(m)

-----------------------------------------------------------------------------
(* Induction up to n, and the rounds of a loop with step g. *)

LEMMA Induction ==
    ASSUME NEW n \in Nat, NEW S, 0 \in S, \A k \in 0 .. n - 1 : k \in S => k + 1 \in S
    PROVE  \A k \in 0 .. n : k \in S
<1> DEFINE B == {k \in Nat : k <= n /\ k \notin S}
<1> SUFFICES ASSUME B # {} PROVE FALSE
  OBVIOUS
<1>1. \A k, l \in Nat : k < l => <<k, l>> \in OpToRel(<, Nat)
  BY Zenon DEF OpToRel
<1>2. B \subseteq Nat
  OBVIOUS
<1>3. \E k \in B : \A l \in B : ~(<<l, k>> \in OpToRel(<, Nat))
  BY <1>2, NatLessThanWellFounded, WFMin, Zenon
<1>4. PICK k \in B : \A l \in B : ~(l < k)
  <2> HIDE DEF B
  <2> QED BY <1>1, <1>2, <1>3, Zenon
<1>5. k # 0 /\ k - 1 \in 0 .. n - 1 /\ k - 1 \notin B
  BY <1>4
<1> QED
  BY <1>4, <1>5

Rounds(f, n, m, g) == f = [k \in 0 .. n |-> IF k = 0 THEN m ELSE g[<<f[k - 1], k>>]]

LEMMA Loop ==
    ASSUME NEW n \in Nat, NEW m, NEW g
    PROVE  \E f : Rounds(f, n, m, g)
<1> DEFINE S == {j \in 0 .. n : \E f : f = [k \in 0 .. j |-> IF k = 0 THEN m ELSE g[<<f[k - 1], k>>]]}
<1>1. 0 \in S
  <2> DEFINE f == [k \in 0 .. 0 |-> m]
  <2>1. f = [k \in 0 .. 0 |-> IF k = 0 THEN m ELSE g[<<f[k - 1], k>>]]
    OBVIOUS
  <2> HIDE DEF f
  <2> QED
    BY <2>1
<1>2. ASSUME NEW j \in 0 .. n - 1, j \in S PROVE j + 1 \in S
  <2>1. PICK f : f = [k \in 0 .. j |-> IF k = 0 THEN m ELSE g[<<f[k - 1], k>>]]
    BY <1>2
  <2> DEFINE h == [k \in 0 .. j + 1 |-> IF k = j + 1 THEN g[<<f[j], j + 1>>] ELSE f[k]]
  <2>2. ASSUME NEW k \in 0 .. j + 1
        PROVE  h[k] = IF k = 0 THEN m ELSE g[<<h[k - 1], k>>]
    <3>1. CASE k = j + 1
      BY <3>1
    <3>2. CASE k # j + 1
      <4>1. k \in 0 .. j /\ (k # 0 => k - 1 \in 0 .. j /\ k - 1 # j + 1)
        BY <3>2
      <4>2. f[k] = IF k = 0 THEN m ELSE g[<<f[k - 1], k>>]
        BY <2>1, <4>1
      <4>3. h[k] = f[k] /\ (k # 0 => h[k - 1] = f[k - 1])
        BY <3>2, <4>1
      <4> QED
        BY <4>2, <4>3
    <3> QED
      BY <3>1, <3>2
  <2>3. h = [k \in 0 .. j + 1 |-> IF k = 0 THEN m ELSE g[<<h[k - 1], k>>]]
    BY <2>2, Zenon
  <2> HIDE DEF h
  <2> QED
    BY <2>3
<1>3. n \in S
  <2>1. 0 \in S /\ \A k \in 0 .. n - 1 : k \in S => k + 1 \in S
    BY <1>1, <1>2
  <2> HIDE DEF S
  <2>2. \A k \in 0 .. n : k \in S
    BY <2>1, Induction
  <2> QED
    BY <2>2
<1> QED
  BY <1>3 DEF S, Rounds

LEMMA RoundsAre ==
    ASSUME NEW n \in Nat, NEW m, NEW g, NEW f, Rounds(f, n, m, g)
    PROVE  /\ f[0] = m /\ f = [k \in 0 .. n |-> f[k]]
           /\ \A k \in 1 .. n : f[k] = g[<<f[k - 1], k>>]
<1>1. f[0] = m
  BY DEF Rounds
<1>2. f = [k \in 0 .. n |-> f[k]]
  BY Zenon DEF Rounds
<1>3. \A k \in 1 .. n : f[k] = g[<<f[k - 1], k>>]
  BY DEF Rounds
<1> QED
  BY <1>1, <1>2, <1>3

-----------------------------------------------------------------------------
(* Counting references *)

LEMMA Finite ==
    /\ IsFiniteSet(Pmaps) /\ IsFiniteSet(Tops) /\ IsFiniteSet(Lows) /\ IsFiniteSet(Frames)
    /\ IsFiniteSet(Pmaps \X Tops) /\ IsFiniteSet(Frames \X Lows)
    /\ IsFiniteSet((Pmaps \X Tops) \X Lows) /\ Cardinality(Frames) = NFrames
<1>1. IsFiniteSet(Tops) /\ IsFiniteSet(Lows) /\ IsFiniteSet(Frames) /\ Cardinality(Frames) = NFrames
  BY FS_Interval, PmapAssumption DEF Tops, Lows, Frames
<1>2. IsFiniteSet(Procs)
  BY FS_AddElement, PmapAssumption DEF Procs
<1>3. IsFiniteSet({Pml4(c) : c \in Procs})
  <2> DEFINE g == [c \in Procs |-> Pml4(c)]
  <2>1. g \in Surjection(Procs, {Pml4(c) : c \in Procs})
    BY DEF Surjection
  <2> QED
    BY <1>2, <2>1, FS_Surjection
<1>4. IsFiniteSet({Snap(c) : c \in Children})
  <2> DEFINE g == [c \in Children |-> Snap(c)]
  <2>1. g \in Surjection(Children, {Snap(c) : c \in Children})
    BY DEF Surjection
  <2> QED
    BY <2>1, FS_Surjection, PmapAssumption
<1>5. IsFiniteSet(Pmaps)
  BY <1>3, <1>4, FS_Union DEF Pmaps
<1> QED
  BY <1>1, <1>5, FS_Product

(* One entry x of the entries S changes what it refers to. *)
One(x, f) == IF x = f THEN 1 ELSE 0

Places(G, S, g, f) == \A y : y \in G <=> y \in S /\ g[y] = f
DifferAt(x, S, g, h) == x \in S /\ \A y \in S : y # x => h[y] = g[y]

LEMMA Counted ==
    ASSUME NEW S, IsFiniteSet(S), NEW g, NEW h, NEW x, NEW f, DifferAt(x, S, g, h),
           NEW G, Places(G, S, g, f), NEW H, Places(H, S, h, f)
    PROVE  Cardinality(H) = Cardinality(G) - One(g[x], f) + One(h[x], f)
<1> DEFINE R == {y \in S \ {x} : g[y] = f}
<1>1. IsFiniteSet(G) /\ IsFiniteSet(H) /\ IsFiniteSet(R)
  <2>1. G \in SUBSET S /\ H \in SUBSET S /\ R \in SUBSET S
    BY DEF Places
  <2> QED
    BY <2>1, FS_Subset
<1>2. R = G \ {x} /\ R = H \ {x}
  BY DEF Places, DifferAt
<1>3. Cardinality(R) = Cardinality(G) - One(g[x], f)
  <2>1. x \in G <=> g[x] = f
    BY DEF Places, DifferAt
  <2>2. Cardinality(R) = IF x \in G THEN Cardinality(G) - 1 ELSE Cardinality(G)
    BY <1>1, <1>2, FS_RemoveElement
  <2>3. Cardinality(G) \in Nat
    BY <1>1, FS_CardinalityType
  <2> HIDE DEF R
  <2> QED
    BY <2>1, <2>2, <2>3 DEF One
<1>4. Cardinality(R) = Cardinality(H) - One(h[x], f)
  <2>1. x \in H <=> h[x] = f
    BY DEF Places, DifferAt
  <2>2. Cardinality(R) = IF x \in H THEN Cardinality(H) - 1 ELSE Cardinality(H)
    BY <1>1, <1>2, FS_RemoveElement
  <2>3. Cardinality(H) \in Nat
    BY <1>1, FS_CardinalityType
  <2> HIDE DEF R
  <2> QED
    BY <2>1, <2>2, <2>3 DEF One
<1>5. Cardinality(G) \in Nat /\ Cardinality(H) \in Nat
  BY <1>1, FS_CardinalityType
<1> QED
  <2> HIDE DEF R
  <2> QED BY <1>3, <1>4, <1>5 DEF One

LEMMA TabCount ==
    ASSUME NEW m \in Memory, NEW n \in Memory, NEW d \in Frames, NEW l \in Lows, NEW f \in Frames,
           \A c \in Frames, k \in Lows : c # d \/ k # l => n.tab[c][k].a = m.tab[c][k].a
    PROVE  Cardinality(TabRefs(n, f))
             = Cardinality(TabRefs(m, f)) - One(m.tab[d][l].a, f) + One(n.tab[d][l].a, f)
<1> DEFINE S == Frames \X Lows
           g == [x \in S |-> m.tab[x[1]][x[2]].a]
           h == [x \in S |-> n.tab[x[1]][x[2]].a]
<1>1. Places(TabRefs(m, f), S, g, f) /\ Places(TabRefs(n, f), S, h, f)
  BY DEF Places, TabRefs
<1>2. <<d, l>> \in S /\ g[<<d, l>>] = m.tab[d][l].a /\ h[<<d, l>>] = n.tab[d][l].a
  OBVIOUS
<1>3. \A y \in S : y # <<d, l>> => h[y] = g[y]
  OBVIOUS
<1>4. IsFiniteSet(S)
  BY Finite
<1> DEFINE x == <<d, l>>
<1> HIDE DEF S, g, h
<1>5. Cardinality(TabRefs(n, f)) = Cardinality(TabRefs(m, f)) - One(g[x], f) + One(h[x], f)
  <2>1. DifferAt(x, S, g, h)
    BY <1>2, <1>3 DEF DifferAt
  <2> HIDE DEF x
  <2> QED
    BY <1>1, <1>4, <2>1, Counted
<1> QED
  BY <1>2, <1>5

LEMMA RootCount ==
    ASSUME NEW m \in Memory, NEW n \in Memory, NEW s \in Pmaps, NEW t \in Tops, NEW f \in Frames,
           \A c \in Pmaps, k \in Tops : c # s \/ k # t => n.root[c][k].a = m.root[c][k].a
    PROVE  Cardinality(RootRefs(n, f))
             = Cardinality(RootRefs(m, f)) - One(m.root[s][t].a, f) + One(n.root[s][t].a, f)
<1> DEFINE S == Pmaps \X Tops
           g == [x \in S |-> m.root[x[1]][x[2]].a]
           h == [x \in S |-> n.root[x[1]][x[2]].a]
<1>1. Places(RootRefs(m, f), S, g, f) /\ Places(RootRefs(n, f), S, h, f)
  BY DEF Places, RootRefs
<1>2. <<s, t>> \in S /\ g[<<s, t>>] = m.root[s][t].a /\ h[<<s, t>>] = n.root[s][t].a
  OBVIOUS
<1>3. \A y \in S : y # <<s, t>> => h[y] = g[y]
  OBVIOUS
<1>4. IsFiniteSet(S)
  BY Finite
<1> DEFINE x == <<s, t>>
<1> HIDE DEF S, g, h
<1>5. Cardinality(RootRefs(n, f)) = Cardinality(RootRefs(m, f)) - One(g[x], f) + One(h[x], f)
  <2>1. DifferAt(x, S, g, h)
    BY <1>2, <1>3 DEF DifferAt
  <2> HIDE DEF x
  <2> QED
    BY <1>1, <1>4, <2>1, Counted
<1> QED
  BY <1>1, <1>2, <1>5

-----------------------------------------------------------------------------
(* What reference counts say *)

LEMMA TopRefs ==
    ASSUME NEW m, MemOK(m), NEW s \in Pmaps, NEW t \in Tops,
           NEW f, f = m.root[s][t].a, f # 0
    PROVE  /\ f \in Frames /\ m.ref[f] \in Nat \ {0}
           /\ \A c \in Pmaps, k \in Tops : m.root[c][k].a = f /\ m.ref[f] = 1 => c = s /\ k = t
<1> DEFINE R == RootRefs(m, f)
<1>1. f \in Frames /\ m.ref[f] \in Nat
  BY PmapAssumption DEF MemOK, Memory, Entry, Frames
<1>2. IsFiniteSet(R) /\ IsFiniteSet(TabRefs(m, f))
  <2>1. R \in SUBSET (Pmaps \X Tops) /\ TabRefs(m, f) \in SUBSET (Frames \X Lows)
    BY DEF RootRefs, TabRefs
  <2> QED
    BY <2>1, Finite, FS_Subset
<1>3. m.ref[f] = Cardinality(R) + Cardinality(TabRefs(m, f))
  BY <1>1 DEF MemOK, Exact
<1>4. Cardinality(R) \in Nat /\ Cardinality(TabRefs(m, f)) \in Nat
  BY <1>2, FS_CardinalityType
<1>5. <<s, t>> \in R
  BY DEF RootRefs
<1>6. Cardinality(R) # 0
  BY <1>2, <1>5, FS_EmptySet
<1>7. ASSUME NEW c \in Pmaps, NEW k \in Tops, m.root[c][k].a = f, m.ref[f] = 1
      PROVE  c = s /\ k = t
  <2>1. <<c, k>> \in R
    BY <1>7 DEF RootRefs
  <2>2. Cardinality(R) = 1
    <3> HIDE DEF R
    <3> QED BY <1>3, <1>4, <1>6, <1>7
  <2>3. PICK x : R = {x}
    BY <1>2, <2>2, FS_Singleton
  <2>4. <<c, k>> = <<s, t>>
    BY <1>5, <2>1, <2>3
  <2> QED
    BY <2>4
<1> HIDE DEF R
<1> QED
  BY <1>1, <1>3, <1>4, <1>6, <1>7

LEMMA LowRefs ==
    ASSUME NEW m, MemOK(m), NEW d \in Frames, NEW l \in Lows,
           NEW f, f = m.tab[d][l].a, f # 0
    PROVE  /\ f \in Frames /\ m.ref[f] \in Nat \ {0}
           /\ \A c \in Frames, k \in Lows : m.tab[c][k].a = f /\ m.ref[f] = 1 => c = d /\ k = l
<1> DEFINE R == TabRefs(m, f)
<1>1. f \in Frames /\ m.ref[f] \in Nat
  BY PmapAssumption DEF MemOK, Memory, Entry, Frames
<1>2. IsFiniteSet(R) /\ IsFiniteSet(RootRefs(m, f))
  <2>1. RootRefs(m, f) \in SUBSET (Pmaps \X Tops) /\ R \in SUBSET (Frames \X Lows)
    BY DEF RootRefs, TabRefs
  <2> QED
    BY <2>1, Finite, FS_Subset
<1>3. m.ref[f] = Cardinality(RootRefs(m, f)) + Cardinality(R)
  BY <1>1 DEF MemOK, Exact
<1>4. Cardinality(R) \in Nat /\ Cardinality(RootRefs(m, f)) \in Nat
  BY <1>2, FS_CardinalityType
<1>5. <<d, l>> \in R
  BY DEF TabRefs
<1>6. Cardinality(R) # 0
  BY <1>2, <1>5, FS_EmptySet
<1>7. ASSUME NEW c \in Frames, NEW k \in Lows, m.tab[c][k].a = f, m.ref[f] = 1
      PROVE  c = d /\ k = l
  <2>1. <<c, k>> \in R
    BY <1>7 DEF TabRefs
  <2>2. Cardinality(R) = 1
    <3> HIDE DEF R
    <3> QED BY <1>3, <1>4, <1>6, <1>7
  <2>3. PICK x : R = {x}
    BY <1>2, <2>2, FS_Singleton
  <2>4. <<c, k>> = <<d, l>>
    BY <1>5, <2>1, <2>3
  <2> QED
    BY <2>4
<1> HIDE DEF R
<1> QED
  BY <1>1, <1>3, <1>4, <1>6, <1>7

LEMMA OneRef ==
    ASSUME NEW m, MemOK(m), NEW d \in Frames, NEW l \in Lows, NEW c \in Frames, NEW k \in Lows,
           NEW f, f = m.tab[d][l].a, f # 0, m.tab[c][k].a = f, m.ref[f] = 1
    PROVE  c = d /\ k = l
  BY LowRefs

LEMMA OneTable ==
    ASSUME NEW m, MemOK(m), NEW d \in Frames, NEW l \in Lows, NEW c \in Frames, NEW k \in Lows,
           m.tab[d][l].a # 0, m.tab[c][k].a = m.tab[d][l].a, m.ref[m.tab[d][l].a] = 1
    PROVE  c = d
  BY OneRef

(* A free frame is neither a table nor a page. *)
LEMMA FreeFrame ==
    ASSUME NEW m, MemOK(m), NEW f \in Frames, m.ref[f] = 0
    PROVE  /\ \A s \in Pmaps, t \in Tops : m.root[s][t].a # f
           /\ \A d \in Frames, l \in Lows : m.tab[d][l].a # f
           /\ \A l \in Lows : m.tab[f][l].a = 0
<1>1. f # 0
  BY DEF Frames
<1>2. \A s \in Pmaps, t \in Tops : m.root[s][t].a # f
  BY <1>1, TopRefs
<1>3. \A d \in Frames, l \in Lows : m.tab[d][l].a # f
  BY <1>1, LowRefs
<1>4. \A l \in Lows : m.tab[f][l].a = 0
  BY <1>2 DEF MemOK, Tables, IsTable
<1> QED
  BY <1>2, <1>3, <1>4

(* Memory does not run out. *)
LEMMA AllocFree ==
    ASSUME NEW m, MemOK(m)
    PROVE  Alloc(m) \in Frames /\ m.ref[Alloc(m)] = 0
<1> SUFFICES ASSUME \A f \in Frames : m.ref[f] # 0 PROVE FALSE
  BY DEF Alloc
<1> DEFINE P == Pmaps \X Tops
           g == [x \in P |-> m.root[x[1]][x[2]].a]
           h == [x \in P \X Lows |-> m.tab[g[x[1]]][x[2]].a]
           A == {g[x] : x \in P}
           B == {h[x] : x \in P \X Lows}
<1>1. IsFiniteSet(A) /\ Cardinality(A) <= Cardinality(P)
  <2>1. g \in Surjection(P, A)
    BY DEF Surjection
  <2> QED
    BY <2>1, Finite, FS_Surjection
<1>2. IsFiniteSet(B) /\ Cardinality(B) <= Cardinality(P \X Lows)
  <2>1. h \in Surjection(P \X Lows, B)
    BY DEF Surjection
  <2>2. IsFiniteSet(P \X Lows)
    BY Finite
  <2> HIDE DEF P, h, B
  <2> QED
    BY <2>1, <2>2, FS_Surjection
<1>3. ASSUME NEW f \in Frames PROVE f \in A \cup B
  <2> SUFFICES ASSUME f \notin A PROVE f \in B
    OBVIOUS
  <2>1. RootRefs(m, f) = {}
    BY DEF RootRefs
  <2>2. TabRefs(m, f) # {}
    <3>1. m.ref[f] = Cardinality(RootRefs(m, f)) + Cardinality(TabRefs(m, f))
      BY DEF MemOK, Exact
    <3>2. Cardinality(RootRefs(m, f)) = 0 /\ (TabRefs(m, f) = {} => Cardinality(TabRefs(m, f)) = 0)
      BY <2>1, FS_EmptySet
    <3> QED
      BY <3>1, <3>2
  <2>3. PICK d \in Frames, l \in Lows : m.tab[d][l].a = f
    BY <2>2 DEF TabRefs
  <2>4. PICK s \in Pmaps, t \in Tops : m.root[s][t].a = d
    BY <2>3 DEF MemOK, Tables, IsTable, Frames
  <2>5. <<<<s, t>>, l>> \in P \X Lows /\ h[<<<<s, t>>, l>>] = f
    BY <2>3, <2>4
  <2> QED
    BY <2>5
<1> HIDE DEF A, B, P
<1>4. IsFiniteSet(A \cup B) /\ Cardinality(A \cup B) <= Cardinality(A) + Cardinality(B)
  <2>1. IsFiniteSet(A \cap B)
    BY <1>1, FS_Intersection
  <2>2. /\ IsFiniteSet(A \cup B)
        /\ Cardinality(A \cup B) = Cardinality(A) + Cardinality(B) - Cardinality(A \cap B)
    BY <1>1, <1>2, FS_Union
  <2>3. Cardinality(A) \in Nat /\ Cardinality(B) \in Nat /\ Cardinality(A \cap B) \in Nat
    BY <1>1, <1>2, <2>1, FS_CardinalityType
  <2> QED
    BY <2>2, <2>3
<1>5. Frames \in SUBSET (A \cup B)
  BY <1>3
<1>6. NFrames <= Cardinality(A \cup B)
  BY <1>4, <1>5, Finite, FS_Subset
<1>7. NFrames > Cardinality(P) + Cardinality(P \X Lows)
  BY PmapAssumption DEF P
<1>8. /\ Cardinality(A) \in Nat /\ Cardinality(B) \in Nat /\ Cardinality(A \cup B) \in Nat
      /\ Cardinality(P) \in Nat /\ Cardinality(P \X Lows) \in Nat
  BY <1>1, <1>2, <1>4, Finite, FS_CardinalityType DEF P
<1> QED
  BY <1>1, <1>2, <1>4, <1>6, <1>7, <1>8, PmapAssumption

-----------------------------------------------------------------------------
(* A change of one entry of a lower table *)

(* The table c is writable in some address space. *)
Written(m, c) == \E s \in Pmaps, t \in Tops : m.root[s][t].w /\ m.root[s][t].a = c

SameRoot(m, n) == n.root = m.root
LowOnly(m, n, d, l) == \A c \in Frames, k \in Lows : c # d \/ k # l => n.tab[c][k] = m.tab[c][k]

RefsFollow(m, n, x, y) ==
    \A f \in Frames : n.ref[f] = m.ref[f] - One(x, f) + One(y, f)

LowChange(m, n, d, l) ==
    /\ n.root = m.root /\ LowOnly(m, n, d, l)
    /\ RefsFollow(m, n, m.tab[d][l].a, n.tab[d][l].a)
    /\ n.tab[d][l].a # 0 => IsTable(m, d) /\ ~IsTable(m, n.tab[d][l].a)
    /\ n.tab[d][l].w => n.tab[d][l].a # 0 /\ n.ref[n.tab[d][l].a] = 1
    /\ n.tab[d][l].a # 0 /\ n.tab[d][l].a # m.tab[d][l].a =>
         \A c \in Frames, k \in Lows :
           (c # d \/ k # l) /\ m.tab[c][k].a = n.tab[d][l].a /\ m.tab[c][k].w => ~Written(m, c)

LEMMA LowStep ==
    ASSUME NEW m, MemOK(m), NEW n \in Memory, NEW d \in Frames, NEW l \in Lows,
           LowChange(m, n, d, l)
    PROVE  MemOK(n)
<1>0. m \in Memory
  BY DEF MemOK
<1>1. Exact(n)
  <2> SUFFICES ASSUME NEW f \in Frames
               PROVE  n.ref[f] = Cardinality(RootRefs(n, f)) + Cardinality(TabRefs(n, f))
    BY DEF Exact
  <2>1. RootRefs(n, f) = RootRefs(m, f)
    BY DEF RootRefs, LowChange
  <2>2. Cardinality(TabRefs(n, f))
          = Cardinality(TabRefs(m, f)) - One(m.tab[d][l].a, f) + One(n.tab[d][l].a, f)
    BY <1>0, TabCount DEF LowOnly, LowChange
  <2>3. m.ref[f] = Cardinality(RootRefs(m, f)) + Cardinality(TabRefs(m, f))
    BY DEF MemOK, Exact
  <2>4. Cardinality(RootRefs(m, f)) \in Nat /\ Cardinality(TabRefs(m, f)) \in Nat
    <3>1. RootRefs(m, f) \in SUBSET (Pmaps \X Tops) /\ TabRefs(m, f) \in SUBSET (Frames \X Lows)
      BY DEF RootRefs, TabRefs
    <3> QED
      BY <3>1, Finite, FS_Subset, FS_CardinalityType
  <2>5. One(m.tab[d][l].a, f) \in Nat /\ One(n.tab[d][l].a, f) \in Nat
    BY DEF One
  <2>6. n.ref[f] = m.ref[f] - One(m.tab[d][l].a, f) + One(n.tab[d][l].a, f)
    BY DEF LowChange, RefsFollow
  <2> QED
    BY <2>1, <2>2, <2>3, <2>4, <2>5, <2>6
<1>2. Kinds(n)
  BY DEF MemOK, Kinds, LowOnly, IsTable, LowChange
<1>3. Tables(n)
  BY DEF MemOK, Tables, LowOnly, IsTable, LowChange
<1>4. ASSUME NEW s \in Pmaps, NEW t \in Tops, NEW c, c = n.root[s][t].a, n.root[s][t].w
      PROVE  OwnTable(n, c)
  <2>0. m.root[s][t].w /\ c = m.root[s][t].a
    BY <1>4 DEF LowChange
  <2>1. /\ c # 0 /\ m.ref[c] = 1
        /\ \A k \in Lows : m.tab[c][k].w => m.tab[c][k].a # 0 /\ m.ref[m.tab[c][k].a] = 1
    <3>1. OwnTable(m, c)
      BY <2>0 DEF MemOK, Own
    <3> QED
      BY <3>1 DEF OwnTable
  <2>2. c \in Frames
    BY <2>0, <2>1, TopRefs
  <2>3. m.tab[d][l].a # c /\ n.tab[d][l].a # c
    <3>1. IsTable(m, c)
      BY <2>0 DEF IsTable
    <3>2. m.tab[d][l].a # c
      BY <2>0, <2>1, ZenonT(30) DEF MemOK, Kinds
    <3> QED
      BY <2>1, <3>1, <3>2 DEF LowChange
  <2>4. n.ref[c] = 1
    <3>1. One(m.tab[d][l].a, c) = 0 /\ One(n.tab[d][l].a, c) = 0
      BY <2>3 DEF One
    <3>2. n.ref[c] = m.ref[c] - One(m.tab[d][l].a, c) + One(n.tab[d][l].a, c)
      BY <2>2 DEF LowChange, RefsFollow
    <3> QED
      BY <2>1, <3>1, <3>2
  <2>5. ASSUME NEW k \in Lows, n.tab[c][k].w, c # d \/ k # l
        PROVE  n.tab[c][k].a # 0 /\ n.ref[n.tab[c][k].a] = 1
    <3> PICK a : a = m.tab[c][k].a
      OBVIOUS
    <3>1. n.tab[c][k] = m.tab[c][k] /\ a # 0 /\ m.ref[a] = 1 /\ m.tab[c][k].w
      BY <2>1, <2>2, <2>5 DEF LowOnly, LowChange
    <3>2. a \in Frames /\ \A c2 \in Frames, k2 \in Lows : m.tab[c2][k2].a = a => c2 = c /\ k2 = k
      BY <2>2, <3>1, LowRefs
    <3>3. m.tab[d][l].a # a
      BY <2>5, <3>2
    <3>4. Written(m, c)
      BY <2>0 DEF Written
    <3>5. n.tab[d][l].a # a
      BY <2>2, <2>5, <3>1, <3>3, <3>4 DEF LowChange
    <3>6. One(m.tab[d][l].a, a) = 0 /\ One(n.tab[d][l].a, a) = 0
      BY <3>3, <3>5 DEF One
    <3>7. n.ref[a] = m.ref[a] - One(m.tab[d][l].a, a) + One(n.tab[d][l].a, a)
      BY <3>2 DEF LowChange, RefsFollow
    <3> QED
      BY <3>1, <3>6, <3>7
  <2>6. ASSUME NEW k \in Lows, n.tab[c][k].w, c = d, k = l
        PROVE  n.tab[c][k].a # 0 /\ n.ref[n.tab[c][k].a] = 1
    BY <2>6 DEF LowChange
  <2> QED
    BY <2>1, <2>4, <2>5, <2>6 DEF OwnTable
<1>5. Own(n)
  BY <1>4 DEF Own
<1> QED
  BY <1>1, <1>2, <1>3, <1>5 DEF MemOK

(* What is read, when at most the page that the entry referred to is freed. *)
LowPages(m, n, d, l) ==
    \A f \in Frames : m.ref[f] # 0 /\ ~(f = m.tab[d][l].a /\ m.ref[f] = 1) => n.page[f] = m.page[f]

LEMMA LowReads ==
    ASSUME NEW m, MemOK(m), NEW n \in Memory, NEW d \in Frames, NEW l \in Lows,
           SameRoot(m, n), LowOnly(m, n, d, l), LowPages(m, n, d, l)
    PROVE  \A s \in Pmaps, t \in Tops, k \in Lows :
             Reads(n, s, t, k) = IF m.root[s][t].a = d /\ k = l THEN Contents(n, n.tab[d][l])
                                 ELSE Reads(m, s, t, k)
<1> SUFFICES ASSUME NEW s \in Pmaps, NEW t \in Tops, NEW k \in Lows
             PROVE  Reads(n, s, t, k) = IF m.root[s][t].a = d /\ k = l THEN Contents(n, n.tab[d][l])
                                        ELSE Reads(m, s, t, k)
  OBVIOUS
<1>0. PICK c : c = m.root[s][t].a
  OBVIOUS
<1>1. CASE c = 0
  BY <1>0, <1>1 DEF Reads, Frames, SameRoot
<1>2. CASE c # 0
  <2>1. c \in Frames
    BY <1>0, <1>2, TopRefs
  <2>2. CASE c = d /\ k = l
    BY <1>0, <1>2, <2>2 DEF Reads, SameRoot
  <2>3. CASE c # d \/ k # l
    <3>0. PICK a : a = m.tab[c][k].a
      OBVIOUS
    <3>1. n.tab[c][k] = m.tab[c][k]
      BY <2>1, <2>3 DEF LowOnly
    <3>2. CASE a = 0
      BY <1>0, <1>2, <2>3, <3>0, <3>1, <3>2 DEF Reads, Contents, SameRoot
    <3>3. CASE a # 0
      <4>1. /\ a \in Frames /\ m.ref[a] \in Nat \ {0}
            /\ \A c2 \in Frames, k2 \in Lows : m.tab[c2][k2].a = a /\ m.ref[a] = 1 => c2 = c /\ k2 = k
        BY <2>1, <3>0, <3>3, LowRefs
      <4>2. n.page[a] = m.page[a]
        BY <2>3, <4>1 DEF LowPages
      <4> QED
        BY <1>0, <1>2, <2>3, <3>0, <3>1, <3>3, <4>2 DEF Reads, Contents, SameRoot
    <3> QED
      BY <3>2, <3>3
  <2> QED
    BY <2>2, <2>3
<1> QED
  BY <1>1, <1>2

-----------------------------------------------------------------------------
(* A change of one entry of a root table *)

(* A lower table with more than one reference is in another root table too. *)
LEMMA TopShared ==
    ASSUME NEW m, MemOK(m), NEW s \in Pmaps, NEW t \in Tops,
           NEW f, f = m.root[s][t].a, f # 0, m.ref[f] # 1
    PROVE  \E c \in Pmaps, k \in Tops : (c # s \/ k # t) /\ m.root[c][k].a = f
<1>1. f \in Frames
  BY TopRefs
<1>2. TabRefs(m, f) = {}
  <2>1. \A d \in Frames, l \in Lows : m.tab[d][l].a # f
    BY DEF MemOK, Kinds
  <2> QED
    BY <2>1 DEF TabRefs
<1>3. m.ref[f] = Cardinality(RootRefs(m, f)) + Cardinality(TabRefs(m, f))
  BY <1>1 DEF MemOK, Exact
<1>4. IsFiniteSet(RootRefs(m, f)) /\ Cardinality(RootRefs(m, f)) \in Nat
  <2>1. RootRefs(m, f) \in SUBSET (Pmaps \X Tops)
    BY DEF RootRefs
  <2> QED
    BY <2>1, Finite, FS_Subset, FS_CardinalityType
<1>5. Cardinality(RootRefs(m, f)) # 1
  BY <1>2, <1>3, <1>4, FS_EmptySet
<1>6. RootRefs(m, f) # {<<s, t>>}
  BY <1>4, <1>5, FS_Singleton
<1>7. <<s, t>> \in RootRefs(m, f)
  BY DEF RootRefs
<1>8. PICK x \in RootRefs(m, f) : x # <<s, t>>
  BY <1>6, <1>7
<1> QED
  BY <1>8 DEF RootRefs

RootOnly(m, n, s, t) == \A c \in Pmaps, k \in Tops : c # s \/ k # t => n.root[c][k] = m.root[c][k]

(* Entries of lower tables may become read-only. *)
SameEntries(m, n) ==
    \A c \in Frames, k \in Lows :
      n.tab[c][k].a = m.tab[c][k].a /\ (n.tab[c][k].w => m.tab[c][k].w)

TopChange(m, n, s, t) ==
    /\ RootOnly(m, n, s, t) /\ SameEntries(m, n)
    /\ RefsFollow(m, n, m.root[s][t].a, n.root[s][t].a)
    /\ n.root[s][t].a # 0 => \A c \in Frames, k \in Lows : m.tab[c][k].a # n.root[s][t].a
    /\ m.root[s][t].a # 0 /\ n.root[s][t].a # m.root[s][t].a =>
         m.ref[m.root[s][t].a] # 1 \/ \A k \in Lows : m.tab[m.root[s][t].a][k].a = 0
    /\ n.root[s][t].w => OwnTable(n, n.root[s][t].a)
    /\ n.root[s][t].a # 0 /\ n.root[s][t].a # m.root[s][t].a =>
         \A c \in Pmaps, k \in Tops :
           (c # s \/ k # t) /\ m.root[c][k].a = n.root[s][t].a => ~m.root[c][k].w

LEMMA TopStep ==
    ASSUME NEW m, MemOK(m), NEW n \in Memory, NEW s \in Pmaps, NEW t \in Tops,
           TopChange(m, n, s, t)
    PROVE  MemOK(n)
<1>0. m \in Memory
  BY DEF MemOK
<1>1. Exact(n)
  <2> SUFFICES ASSUME NEW f \in Frames
               PROVE  n.ref[f] = Cardinality(RootRefs(n, f)) + Cardinality(TabRefs(n, f))
    BY DEF Exact
  <2>1. TabRefs(n, f) = TabRefs(m, f)
    BY DEF TabRefs, TopChange, SameEntries
  <2>2. Cardinality(RootRefs(n, f))
          = Cardinality(RootRefs(m, f)) - One(m.root[s][t].a, f) + One(n.root[s][t].a, f)
    BY <1>0, RootCount DEF RootOnly, TopChange
  <2>3. m.ref[f] = Cardinality(RootRefs(m, f)) + Cardinality(TabRefs(m, f))
    BY DEF MemOK, Exact
  <2>4. Cardinality(RootRefs(m, f)) \in Nat /\ Cardinality(TabRefs(m, f)) \in Nat
    <3>1. RootRefs(m, f) \in SUBSET (Pmaps \X Tops) /\ TabRefs(m, f) \in SUBSET (Frames \X Lows)
      BY DEF RootRefs, TabRefs
    <3> QED
      BY <3>1, Finite, FS_Subset, FS_CardinalityType
  <2>5. One(m.root[s][t].a, f) \in Nat /\ One(n.root[s][t].a, f) \in Nat
    BY DEF One
  <2>6. n.ref[f] = m.ref[f] - One(m.root[s][t].a, f) + One(n.root[s][t].a, f)
    BY DEF TopChange, RefsFollow
  <2> QED
    BY <2>1, <2>2, <2>3, <2>4, <2>5, <2>6
<1>2. Kinds(n)
  <2> SUFFICES ASSUME NEW c \in Pmaps, NEW k \in Tops, NEW d \in Frames, NEW l \in Lows,
                      m.tab[d][l].a # 0
               PROVE  m.tab[d][l].a # n.root[c][k].a
    BY SMTT(30) DEF Kinds, TopChange, SameEntries
  <2>1. CASE c = s /\ k = t
    BY <2>1 DEF TopChange
  <2>2. CASE c # s \/ k # t
    BY <2>2 DEF TopChange, RootOnly, MemOK, Kinds
  <2> QED
    BY <2>1, <2>2
<1>3. Tables(n)
  <2> SUFFICES ASSUME NEW d \in Frames, NEW l \in Lows, m.tab[d][l].a # 0
               PROVE  IsTable(n, d)
    BY DEF Tables, TopChange, SameEntries
  <2>1. PICK c \in Pmaps, k \in Tops : m.root[c][k].a = d
    BY DEF MemOK, Tables, IsTable
  <2>2. CASE c # s \/ k # t
    BY <2>1, <2>2 DEF TopChange, RootOnly, IsTable
  <2>3. CASE c = s /\ k = t
    <3>1. CASE n.root[s][t].a = d
      BY <3>1 DEF IsTable
    <3>2. CASE n.root[s][t].a # d
      <4>1. d # 0
        BY DEF Frames
      <4>2. m.ref[d] # 1
        BY <2>1, <2>3, <3>2, <4>1 DEF TopChange
      <4>3. PICK c2 \in Pmaps, k2 \in Tops : (c2 # s \/ k2 # t) /\ m.root[c2][k2].a = d
        BY <2>1, <2>3, <4>1, <4>2, TopShared
      <4> QED
        BY <4>3 DEF TopChange, RootOnly, IsTable
    <3> QED
      BY <3>1, <3>2
  <2> QED
    BY <2>2, <2>3
<1>4. ASSUME NEW c \in Pmaps, NEW k \in Tops, NEW d, d = n.root[c][k].a, n.root[c][k].w,
             c # s \/ k # t
      PROVE  OwnTable(n, d)
  <2>0. m.root[c][k].w /\ d = m.root[c][k].a
    BY <1>4 DEF TopChange, RootOnly
  <2>1. /\ d # 0 /\ m.ref[d] = 1
        /\ \A l \in Lows : m.tab[d][l].w => m.tab[d][l].a # 0 /\ m.ref[m.tab[d][l].a] = 1
    <3>1. OwnTable(m, d)
      BY <2>0 DEF MemOK, Own
    <3> QED
      BY <3>1 DEF OwnTable
  <2>2. d \in Frames /\ m.root[s][t].a # d
    <3>1. d \in Frames /\ \A c2 \in Pmaps, k2 \in Tops : m.root[c2][k2].a = d => c2 = c /\ k2 = k
      <4>1. d # 0 /\ d = m.root[c][k].a /\ m.ref[d] = 1
        BY <2>0, <2>1
      <4> QED
        BY <4>1, TopRefs
    <3> QED
      BY <1>4, <3>1
  <2>3. n.root[s][t].a # d
    BY <1>4, <2>0, <2>1, <2>2 DEF TopChange
  <2>4. n.ref[d] = 1
    <3>1. One(m.root[s][t].a, d) = 0 /\ One(n.root[s][t].a, d) = 0
      BY <2>2, <2>3 DEF One
    <3>2. n.ref[d] = m.ref[d] - One(m.root[s][t].a, d) + One(n.root[s][t].a, d)
      BY <2>2 DEF TopChange, RefsFollow
    <3> QED
      BY <2>1, <3>1, <3>2
  <2>5. ASSUME NEW l \in Lows, n.tab[d][l].w
        PROVE  n.tab[d][l].a # 0 /\ n.ref[n.tab[d][l].a] = 1
    <3>0. PICK a : a = m.tab[d][l].a
      OBVIOUS
    <3>1. n.tab[d][l].a = a /\ a # 0 /\ m.ref[a] = 1
      BY <2>1, <2>2, <2>5, <3>0 DEF TopChange, SameEntries
    <3>2. a \in Frames
      BY <2>2, <3>0, <3>1, LowRefs
    <3>3. m.root[s][t].a # a /\ n.root[s][t].a # a
      BY <2>2, <3>0, <3>1, ZenonT(40) DEF MemOK, Kinds, TopChange
    <3>4. One(m.root[s][t].a, a) = 0 /\ One(n.root[s][t].a, a) = 0
      BY <3>3 DEF One
    <3>5. n.ref[a] = m.ref[a] - One(m.root[s][t].a, a) + One(n.root[s][t].a, a)
      BY <3>2 DEF TopChange, RefsFollow
    <3> QED
      BY <3>1, <3>4, <3>5
  <2> QED
    BY <2>1, <2>4, <2>5 DEF OwnTable
<1>5. Own(n)
  <2> SUFFICES ASSUME NEW c \in Pmaps, NEW k \in Tops, n.root[c][k].w
               PROVE  OwnTable(n, n.root[c][k].a)
    BY DEF Own
  <2>1. CASE c = s /\ k = t
    BY <2>1 DEF TopChange
  <2>2. CASE c # s \/ k # t
    BY <1>4, <2>2
  <2> QED
    BY <2>1, <2>2
<1> QED
  BY <1>1, <1>2, <1>3, <1>5 DEF MemOK

(* What is read, when no page is touched. *)
TopPages(m, n) ==
    \A c \in Frames, k \in Lows : m.tab[c][k].a # 0 => n.page[m.tab[c][k].a] = m.page[m.tab[c][k].a]

LEMMA TopReads ==
    ASSUME NEW m, MemOK(m), NEW n \in Memory, NEW s \in Pmaps, NEW t \in Tops,
           RootOnly(m, n, s, t), SameEntries(m, n), TopPages(m, n)
    PROVE  /\ \A c \in Pmaps, k \in Tops, l \in Lows :
                c # s \/ k # t => Reads(n, c, k, l) = Reads(m, c, k, l)
           /\ \A l \in Lows : Reads(n, s, t, l) =
                IF n.root[s][t].a = 0 THEN ZeroPage ELSE Contents(m, m.tab[n.root[s][t].a][l])
<1>1. ASSUME NEW d \in Frames, NEW l \in Lows
      PROVE  Contents(n, n.tab[d][l]) = Contents(m, m.tab[d][l])
  <2>1. n.tab[d][l].a = m.tab[d][l].a
    BY DEF SameEntries
  <2>2. m.tab[d][l].a # 0 => n.page[m.tab[d][l].a] = m.page[m.tab[d][l].a]
    BY DEF TopPages
  <2> QED
    BY <2>1, <2>2 DEF Contents
<1>2. ASSUME NEW c \in Pmaps, NEW k \in Tops, NEW l \in Lows, c # s \/ k # t
      PROVE  Reads(n, c, k, l) = Reads(m, c, k, l)
  <2>1. n.root[c][k] = m.root[c][k]
    BY <1>2 DEF RootOnly
  <2>2. m.root[c][k].a # 0 => m.root[c][k].a \in Frames
    BY TopRefs
  <2> QED
    BY <1>1, <2>1, <2>2 DEF Reads
<1>3. ASSUME NEW l \in Lows
      PROVE  Reads(n, s, t, l) =
                IF n.root[s][t].a = 0 THEN ZeroPage ELSE Contents(m, m.tab[n.root[s][t].a][l])
  <2>1. n.root[s][t].a # 0 => n.root[s][t].a \in Frames
    BY PmapAssumption DEF Memory, Entry, Frames
  <2> QED
    BY <1>1, <2>1 DEF Reads
<1> QED
  BY <1>2, <1>3

-----------------------------------------------------------------------------
(* The functions of Pmap that change an entry of a lower table *)

LEMMA Entries ==
    /\ PTE_ZERO \in Entry /\ PTE_ZERO.a = 0 /\ ~PTE_ZERO.w
    /\ \A f \in Frames : Writable(f) \in Entry /\ Writable(f).a = f /\ Writable(f).w
    /\ \A e \in Entry, b \in BOOLEAN :
         [e EXCEPT !.w = b] \in Entry /\ [e EXCEPT !.w = b].a = e.a /\ [e EXCEPT !.w = b].w = b
    /\ \A e \in Entry : e.a = 0 \/ e.a \in Frames
  BY PmapAssumption DEF Entry, PTE_ZERO, Writable, Perms, Frames

LEMMA Ones ==
    ASSUME NEW g \in Frames
    PROVE  One(0, g) = 0 /\ \A x : One(x, g) \in {0, 1} /\ (x = g => One(x, g) = 1)
                                     /\ (x # g => One(x, g) = 0)
  BY DEF One, Frames

LEMMA RefNat ==
    ASSUME NEW m \in Memory
    PROVE  \A g \in Frames : m.ref[g] \in Nat
  BY DEF Memory

SetFrame(m, f, r, v) == [m EXCEPT !.ref[f] = r, !.page[f] = v]

LEMMA SetFrameFields ==
    ASSUME NEW m \in Memory, NEW f \in Frames, NEW r \in Nat, NEW v \in Page,
           NEW n, n = SetFrame(m, f, r, v)
    PROVE  /\ n \in Memory /\ n.root = m.root /\ n.tab = m.tab
           /\ n.ref = [m.ref EXCEPT ![f] = r] /\ n.page = [m.page EXCEPT ![f] = v]
<1>1. m.ref \in [Frames -> Nat] /\ m.page \in [Frames -> Page]
  BY DEF Memory
<1>2. n = [m EXCEPT !.ref = [m.ref EXCEPT ![f] = r], !.page = [m.page EXCEPT ![f] = v]]
  BY DEF Memory, SetFrame
<1>3. PICK R, P : R = [m.ref EXCEPT ![f] = r] /\ P = [m.page EXCEPT ![f] = v]
  OBVIOUS
<1>4. R \in [Frames -> Nat] /\ P \in [Frames -> Page]
  BY <1>1, <1>3
<1>5. n = [m EXCEPT !.ref = R, !.page = P]
  BY <1>2, <1>3
<1>6. n \in Memory /\ n.root = m.root /\ n.tab = m.tab /\ n.ref = R /\ n.page = P
  BY <1>4, <1>5 DEF Memory
<1> QED
  BY <1>3, <1>6

LEMMA DecRefFields ==
    ASSUME NEW m \in Memory, NEW f, f = 0 \/ (f \in Frames /\ m.ref[f] \in Nat \ {0}),
           NEW n, n = DecRef(m, f)
    PROVE  /\ n \in Memory /\ SameRoot(m, n) /\ n.tab = m.tab
           /\ \A g \in Frames : n.ref[g] = m.ref[g] - One(f, g)
           /\ \A g \in Frames : g # f \/ m.ref[f] # 1 => n.page[g] = m.page[g]
<1>1. CASE f = 0
  <2>1. n = m
    BY <1>1 DEF DecRef
  <2>2. \A g \in Frames : m.ref[g] = m.ref[g] - One(f, g)
    BY <1>1, Ones, RefNat
  <2> QED
    BY <2>1, <2>2 DEF SameRoot
<1>2. CASE f # 0
  <2>1. n = [m EXCEPT !.ref[f] = @ - 1, !.page[f] = IF m.ref[f] = 1 THEN ZeroPage ELSE @]
    BY <1>2 DEF DecRef
  <2>2. PICK r, v : r = m.ref[f] - 1 /\ v = IF m.ref[f] = 1 THEN ZeroPage ELSE m.page[f]
    OBVIOUS
  <2>3. r \in Nat /\ v \in Page
    <3>1. ZeroPage \in Page /\ m.page[f] \in Page /\ m.ref[f] - 1 \in Nat
      BY <1>2 DEF Memory, ZeroPage, Page
    <3> HIDE DEF Page
    <3> QED
      BY <2>2, <3>1
  <2>4. n = SetFrame(m, f, r, v)
    BY <2>1, <2>2 DEF Memory, SetFrame
  <2>5. /\ n \in Memory /\ n.root = m.root /\ n.tab = m.tab
        /\ n.ref = [m.ref EXCEPT ![f] = r] /\ n.page = [m.page EXCEPT ![f] = v]
    BY <1>2, <2>3, <2>4, SetFrameFields
  <2>6. \A g \in Frames : n.ref[g] = m.ref[g] - One(f, g)
    BY <1>2, <2>2, <2>5 DEF Memory, One
  <2>7. \A g \in Frames : g # f \/ m.ref[f] # 1 => n.page[g] = m.page[g]
    BY <1>2, <2>2, <2>5 DEF Memory
  <2> QED
    BY <2>5, <2>6, <2>7 DEF SameRoot
<1> QED
  BY <1>1, <1>2

Decd(m, n, f) ==
    /\ n \in Memory /\ SameRoot(m, n) /\ n.tab = m.tab
    /\ \A g \in Frames : n.ref[g] = m.ref[g] - One(f, g)
    /\ \A g \in Frames : g # f \/ m.ref[f] # 1 => n.page[g] = m.page[g]

LEMMA DecRefIs ==
    ASSUME NEW m \in Memory, NEW f, f = 0 \/ (f \in Frames /\ m.ref[f] \in Nat \ {0})
    PROVE  Decd(m, DecRef(m, f), f)
  BY DecRefFields DEF Decd

LEMMA IncRefFields ==
    ASSUME NEW m \in Memory, NEW f, f = 0 \/ f \in Frames, NEW n, n = IncRef(m, f)
    PROVE  /\ n \in Memory /\ SameRoot(m, n) /\ n.tab = m.tab /\ n.page = m.page
           /\ \A g \in Frames : n.ref[g] = m.ref[g] + One(f, g)
<1>1. CASE f = 0
  <2>1. n = m
    BY <1>1 DEF IncRef
  <2>2. \A g \in Frames : m.ref[g] = m.ref[g] + One(f, g)
    BY <1>1, Ones, RefNat
  <2> QED
    BY <2>1, <2>2 DEF SameRoot
<1>2. CASE f # 0
  <2>1. n = [m EXCEPT !.ref[f] = @ + 1]
    BY <1>2 DEF IncRef
  <2> QED
    <3>1. n \in Memory /\ SameRoot(m, n) /\ n.tab = m.tab /\ n.page = m.page
      <4>1. PICK R : R = [m.ref EXCEPT ![f] = m.ref[f] + 1]
        OBVIOUS
      <4>2. R \in [Frames -> Nat]
        BY <1>2, <4>1 DEF Memory
      <4>3. n = [m EXCEPT !.ref = R]
        BY <2>1, <4>1 DEF Memory
      <4> QED
        BY <4>2, <4>3 DEF Memory, SameRoot
    <3>2. \A g \in Frames : n.ref[g] = m.ref[g] + One(f, g)
      BY <1>2, <2>1 DEF Memory, One
    <3> QED
      BY <3>1, <3>2
<1> QED
  BY <1>1, <1>2

SetPte(m, d, l, e) == [m EXCEPT !.tab[d][l] = e]

LEMMA SetPteFields ==
    ASSUME NEW m \in Memory, NEW d \in Frames, NEW l \in Lows, NEW e \in Entry,
           NEW n, n = SetPte(m, d, l, e)
    PROVE  /\ n \in Memory /\ SameRoot(m, n) /\ n.page = m.page /\ n.ref = m.ref
           /\ n.tab[d][l] = e /\ LowOnly(m, n, d, l)
  BY DEF Memory, SetPte, SameRoot, LowOnly

(* What is read after a change of entry l of the table d. *)
LowRead(m, n, d, l, x) ==
    \A s \in Pmaps, t \in Tops, k \in Lows :
      Reads(n, s, t, k) = IF m.root[s][t].a = d /\ k = l THEN x ELSE Reads(m, s, t, k)

(* pmap_remove_level *)
LEMMA RemoveLowOK ==
    ASSUME NEW m, MemOK(m), NEW d \in Frames, NEW l \in Lows, NEW n, n = RemoveLow(m, d, l)
    PROVE  /\ MemOK(n) /\ SameRoot(m, n) /\ LowOnly(m, n, d, l) /\ n.tab[d][l].a = 0
           /\ LowRead(m, n, d, l, ZeroPage)
<1>1. CASE m.tab[d][l].a = 0
  <2>1. n = m
    BY <1>1 DEF RemoveLow
  <2>2. LowRead(m, m, d, l, ZeroPage)
    <3>1. d # 0
      BY DEF Frames
    <3> QED
      BY <1>1, <3>1 DEF LowRead, Reads, Contents
  <2> QED
    BY <1>1, <2>1, <2>2 DEF SameRoot, LowOnly
<1>2. CASE m.tab[d][l].a # 0
  <2>0. PICK a : a = m.tab[d][l].a
    OBVIOUS
  <2>1. PICK m1 : m1 = DecRef(m, a)
    OBVIOUS
  <2>2. n = SetPte(m1, d, l, PTE_ZERO)
    BY <1>2, <2>0, <2>1 DEF RemoveLow, SetPte
  <2>3. m \in Memory /\ a \in Frames /\ m.ref[a] \in Nat \ {0}
    BY <1>2, <2>0, LowRefs DEF MemOK
  <2>4. /\ m1 \in Memory /\ SameRoot(m, m1) /\ m1.tab = m.tab
        /\ \A g \in Frames : m1.ref[g] = m.ref[g] - One(a, g)
        /\ \A g \in Frames : g # a \/ m.ref[a] # 1 => m1.page[g] = m.page[g]
    BY <2>1, <2>3, DecRefFields
  <2>5. /\ n \in Memory /\ SameRoot(m1, n) /\ n.page = m1.page /\ n.ref = m1.ref
        /\ n.tab[d][l] = PTE_ZERO /\ LowOnly(m1, n, d, l)
    BY <2>2, <2>4, Entries, SetPteFields
  <2>6. SameRoot(m, n) /\ LowOnly(m, n, d, l) /\ n.tab[d][l].a = 0 /\ ~n.tab[d][l].w
    BY <2>4, <2>5, Entries DEF SameRoot, LowOnly
  <2>7. LowChange(m, n, d, l)
    <3>1. RefsFollow(m, n, m.tab[d][l].a, n.tab[d][l].a)
      <4>1. \A g \in Frames : One(0, g) = 0 /\ One(a, g) \in {0, 1} /\ m.ref[g] \in Nat
        BY <2>3, Ones, RefNat
      <4> QED
        BY <2>0, <2>4, <2>5, <2>6, <4>1 DEF RefsFollow
    <3> QED
      BY <2>6, <3>1 DEF LowChange, SameRoot
  <2>8. MemOK(n)
    BY <2>5, <2>7, LowStep
  <2>9. LowPages(m, n, d, l)
    BY <2>0, <2>4, <2>5 DEF LowPages
  <2>10. Contents(n, n.tab[d][l]) = ZeroPage
    BY <2>6 DEF Contents
  <2>11. LowRead(m, n, d, l, ZeroPage)
    BY <2>5, <2>6, <2>9, <2>10, LowReads DEF LowRead
  <2> QED
    BY <2>6, <2>8, <2>11
<1> QED
  BY <1>1, <1>2

(* Permissions of an entry, without a change of the page. *)
LEMMA SetFlagsOK ==
    ASSUME NEW m, MemOK(m), NEW d \in Frames, NEW l \in Lows, NEW e \in Entry,
           e.a = m.tab[d][l].a, e.w => e.a # 0 /\ m.ref[e.a] = 1,
           NEW n, n = SetPte(m, d, l, e)
    PROVE  /\ MemOK(n) /\ SameRoot(m, n) /\ LowOnly(m, n, d, l) /\ n.tab[d][l] = e
           /\ n.page = m.page /\ n.ref = m.ref
           /\ \A s \in Pmaps, t \in Tops, k \in Lows : Reads(n, s, t, k) = Reads(m, s, t, k)
<1>1. m \in Memory
  BY DEF MemOK
<1>2. /\ n \in Memory /\ SameRoot(m, n) /\ n.page = m.page /\ n.ref = m.ref
      /\ n.tab[d][l] = e /\ LowOnly(m, n, d, l)
  BY <1>1, SetPteFields
<1>3. RefsFollow(m, n, m.tab[d][l].a, n.tab[d][l].a)
  <2>1. \A g \in Frames : m.ref[g] = m.ref[g] - One(e.a, g) + One(e.a, g)
    BY <1>1, Ones, RefNat
  <2> QED
    BY <1>2, <2>1 DEF RefsFollow
<1>4. e.a # 0 => IsTable(m, d) /\ ~IsTable(m, e.a)
  BY DEF MemOK, Tables, Kinds, IsTable
<1>5. LowChange(m, n, d, l)
  BY <1>2, <1>3, <1>4 DEF LowChange, SameRoot
<1>6. MemOK(n)
  BY <1>2, <1>5, LowStep
<1>7. \A s \in Pmaps, t \in Tops, k \in Lows :
        Reads(n, s, t, k) = IF m.root[s][t].a = d /\ k = l THEN Contents(n, n.tab[d][l])
                            ELSE Reads(m, s, t, k)
  <2>1. LowPages(m, n, d, l)
    BY <1>2 DEF LowPages
  <2> QED
    BY <1>2, <2>1, LowReads
<1>8. Contents(n, n.tab[d][l]) = Contents(m, m.tab[d][l])
  BY <1>2 DEF Contents
<1>9. \A s \in Pmaps, t \in Tops : m.root[s][t].a = d => Reads(m, s, t, l) = Contents(m, m.tab[d][l])
  <2>1. d # 0
    BY DEF Frames
  <2> QED
    BY <2>1 DEF Reads
<1> QED
  BY <1>2, <1>6, <1>7, <1>8, <1>9

(* The contents of a page with one reference. *)
SetPage(m, a, x) == [m EXCEPT !.page[a] = x]

LEMMA SetPageOK ==
    ASSUME NEW m, MemOK(m), NEW d \in Frames, NEW l \in Lows, NEW a, a = m.tab[d][l].a,
           a # 0, m.ref[a] = 1, NEW x \in Page, NEW n, n = SetPage(m, a, x)
    PROVE  MemOK(n) /\ SameRoot(m, n) /\ n.tab = m.tab /\ LowRead(m, n, d, l, x)
<1>1. m \in Memory /\ a \in Frames
  BY LowRefs DEF MemOK
<1>2. n \in Memory /\ n.root = m.root /\ n.tab = m.tab /\ n.ref = m.ref /\ n.page = [m.page EXCEPT ![a] = x]
  <2>1. PICK P : P = [m.page EXCEPT ![a] = x]
    OBVIOUS
  <2>2. P \in [Frames -> Page]
    BY <1>1, <2>1 DEF Memory
  <2>3. n = [m EXCEPT !.page = P]
    BY <1>1, <2>1 DEF Memory, SetPage
  <2> QED
    BY <1>1, <2>1, <2>2, <2>3 DEF Memory
<1>3. MemOK(n)
  <2>1. Exact(n)
    <3>1. \A f \in Frames : RootRefs(n, f) = RootRefs(m, f) /\ TabRefs(n, f) = TabRefs(m, f)
      BY <1>2 DEF RootRefs, TabRefs
    <3> QED
      BY <1>2, <3>1 DEF MemOK, Exact
  <2>2. Kinds(n) /\ Tables(n)
    BY <1>2 DEF MemOK, Kinds, Tables, IsTable
  <2>3. Own(n)
    <3>1. n.root = m.root /\ n.tab = m.tab /\ n.ref = m.ref
      BY <1>2
    <3>2. \A c : OwnTable(m, c) => OwnTable(n, c)
      BY <3>1 DEF OwnTable
    <3> QED
      BY <3>1, <3>2 DEF MemOK, Own
  <2> QED
    BY <1>2, <2>1, <2>2, <2>3 DEF MemOK
<1>4. SameRoot(m, n) /\ LowOnly(m, n, d, l) /\ LowPages(m, n, d, l)
  <2>1. \A f \in Frames : f # a => n.page[f] = m.page[f]
    BY <1>1, <1>2 DEF Memory
  <2> QED
    BY <1>2, <2>1 DEF SameRoot, LowOnly, LowPages
<1>5. Contents(n, n.tab[d][l]) = x
  BY <1>1, <1>2 DEF Contents, Memory
<1>6. LowRead(m, n, d, l, x)
  BY <1>2, <1>4, <1>5, LowReads DEF LowRead
<1> QED
  BY <1>2, <1>3, <1>4, <1>6

LEMMA NewPageOK ==
    ASSUME NEW m, MemOK(m), NEW d \in Frames, NEW l \in Lows, IsTable(m, d), NEW x \in Page,
           NEW n, n = NewPage(m, d, l, x)
    PROVE  /\ MemOK(n) /\ SameRoot(m, n) /\ LowOnly(m, n, d, l) /\ LowRead(m, n, d, l, x)
           /\ n.tab[d][l].a # 0 /\ n.ref[n.tab[d][l].a] = 1
<1>1. PICK f, a : f = Alloc(m) /\ a = m.tab[d][l].a
  OBVIOUS
<1>2. m \in Memory /\ f \in Frames /\ m.ref[f] = 0 /\ f # 0
  BY <1>1, AllocFree DEF MemOK, Frames
<1>3. /\ \A s \in Pmaps, t \in Tops : m.root[s][t].a # f
      /\ \A c \in Frames, k \in Lows : m.tab[c][k].a # f
  BY <1>2, FreeFrame
<1>4. PICK m1 : m1 = SetPte(SetFrame(m, f, 1, x), d, l, Writable(f))
  OBVIOUS
<1>5. n = DecRef(m1, a)
  BY <1>1, <1>2, <1>4 DEF NewPage, SetPte, SetFrame, Memory
<1>6. /\ m1 \in Memory /\ m1.root = m.root /\ m1.ref = [m.ref EXCEPT ![f] = 1]
      /\ m1.page = [m.page EXCEPT ![f] = x] /\ m1.tab[d][l] = Writable(f) /\ LowOnly(m, m1, d, l)
  <2>1. PICK m0 : m0 = SetFrame(m, f, 1, x)
    OBVIOUS
  <2>2. /\ m0 \in Memory /\ m0.root = m.root /\ m0.tab = m.tab
        /\ m0.ref = [m.ref EXCEPT ![f] = 1] /\ m0.page = [m.page EXCEPT ![f] = x]
    <3>1. PICK r \in Nat : r = 1
      OBVIOUS
    <3>2. m0 = SetFrame(m, f, r, x)
      BY <2>1, <3>1
    <3>3. /\ m0 \in Memory /\ m0.root = m.root /\ m0.tab = m.tab
          /\ m0.ref = [m.ref EXCEPT ![f] = r] /\ m0.page = [m.page EXCEPT ![f] = x]
      BY <1>2, <3>2, SetFrameFields
    <3> QED
      BY <3>1, <3>3
  <2>3. /\ m1 \in Memory /\ SameRoot(m0, m1) /\ m1.page = m0.page /\ m1.ref = m0.ref
        /\ m1.tab[d][l] = Writable(f) /\ LowOnly(m0, m1, d, l)
    BY <1>2, <1>4, <2>1, <2>2, Entries, SetPteFields
  <2> QED
    BY <2>2, <2>3 DEF SameRoot, LowOnly
<1>7. a = 0 \/ (a \in Frames /\ a # f /\ m.ref[a] \in Nat \ {0})
  BY <1>1, <1>3, LowRefs
<1>8. \A g \in Frames : m1.ref[g] = m.ref[g] + One(f, g) /\ (g # f => m1.page[g] = m.page[g])
  <2>1. m.ref \in [Frames -> Nat] /\ m.page \in [Frames -> Page]
    BY <1>2 DEF Memory
  <2> QED
    BY <1>2, <1>6, <2>1 DEF One
<1>9. /\ n \in Memory /\ SameRoot(m1, n) /\ n.tab = m1.tab
      /\ \A g \in Frames : n.ref[g] = m1.ref[g] - One(a, g)
      /\ \A g \in Frames : g # a \/ m1.ref[a] # 1 => n.page[g] = m1.page[g]
  <2>1. a = 0 \/ (a \in Frames /\ m1.ref[a] \in Nat \ {0})
    BY <1>7, <1>8 DEF One
  <2>2. m1 \in Memory
    BY <1>6
  <2> QED
    BY <1>5, <2>1, <2>2, DecRefFields
<1>10. n.tab[d][l] = Writable(f) /\ n.tab[d][l].a = f /\ LowOnly(m, n, d, l) /\ SameRoot(m, n)
  BY <1>2, <1>6, <1>9, Entries DEF LowOnly, SameRoot
<1>11. \A g \in Frames : n.ref[g] = m.ref[g] - One(a, g) + One(f, g)
  BY <1>2, <1>8, <1>9, Ones, RefNat
<1>12. n.ref[f] = 1
  BY <1>2, <1>7, <1>11, Ones
<1>13. LowChange(m, n, d, l)
  <2>1. RefsFollow(m, n, m.tab[d][l].a, n.tab[d][l].a)
    BY <1>1, <1>10, <1>11 DEF RefsFollow
  <2>2. ~IsTable(m, f)
    BY <1>3 DEF IsTable
  <2> QED
    BY <1>2, <1>3, <1>10, <1>12, <2>1, <2>2 DEF LowChange, SameRoot
<1>14. MemOK(n)
  BY <1>9, <1>13, LowStep
<1>15. LowPages(m, n, d, l)
  BY <1>1, <1>2, <1>7, <1>8, <1>9, Ones DEF LowPages
<1>16. Contents(n, n.tab[d][l]) = x
  <2>1. n.page[f] = x
    <3>1. m1.page[f] = x
      BY <1>2, <1>6 DEF Memory
    <3> QED
      BY <1>2, <1>7, <1>9, <3>1
  <2> QED
    BY <1>2, <1>10, <2>1 DEF Contents
<1>17. LowRead(m, n, d, l, x)
  BY <1>9, <1>10, <1>15, <1>16, LowReads DEF LowRead
<1> QED
  BY <1>2, <1>10, <1>12, <1>14, <1>17

NewPaged(m, n, d, l, x) ==
    /\ MemOK(n) /\ SameRoot(m, n) /\ LowRead(m, n, d, l, x)
    /\ n.tab[d][l].a # 0 /\ n.ref[n.tab[d][l].a] = 1

LEMMA NewPageIs ==
    ASSUME NEW m, MemOK(m), NEW d \in Frames, NEW l \in Lows, IsTable(m, d), NEW x \in Page
    PROVE  NewPaged(m, NewPage(m, d, l, x), d, l, x)
  BY NewPageOK DEF NewPaged

(* Nobody writes the page at entry l of sd through another entry. *)
Shareable(m, sd, l) ==
    \A c \in Frames, k \in Lows :
      m.tab[sd][l].a # 0 /\ m.tab[c][k].a = m.tab[sd][l].a /\ m.tab[c][k].w => ~Written(m, c)

LEMMA ShareOK ==
    ASSUME NEW m, MemOK(m), NEW sd \in Frames, NEW dd \in Frames, NEW l \in Lows,
           m.tab[dd][l].a = 0, IsTable(m, dd), Shareable(m, sd, l),
           NEW n, n = Share(m, sd, dd, l)
    PROVE  /\ MemOK(n) /\ SameRoot(m, n) /\ LowOnly(m, n, dd, l) /\ n.page = m.page
           /\ n.tab[dd][l].a = m.tab[sd][l].a /\ ~n.tab[dd][l].w
           /\ LowRead(m, n, dd, l, Contents(m, m.tab[sd][l]))
<1>1. PICK a, e : a = m.tab[sd][l].a /\ e = [m.tab[sd][l] EXCEPT !.w = FALSE]
  OBVIOUS
<1>2. m \in Memory /\ m.tab[sd][l] \in Entry
  BY DEF MemOK, Memory
<1>3. e \in Entry /\ e.a = a /\ e.w = FALSE /\ (a = 0 \/ a \in Frames)
  BY <1>1, <1>2, Entries
<1>4. PICK m1 : m1 = SetPte(m, dd, l, e)
  OBVIOUS
<1>5. n = IncRef(m1, a)
  <2>1. n = IncRef([m EXCEPT !.tab[dd][l] = e], e.a)
    BY <1>1 DEF Share
  <2> QED
    BY <1>3, <1>4, <2>1 DEF SetPte
<1>6. /\ m1 \in Memory /\ SameRoot(m, m1) /\ m1.page = m.page /\ m1.ref = m.ref
      /\ m1.tab[dd][l] = e /\ LowOnly(m, m1, dd, l)
  BY <1>2, <1>3, <1>4, SetPteFields
<1>7. /\ n \in Memory /\ SameRoot(m1, n) /\ n.tab = m1.tab /\ n.page = m1.page
      /\ \A g \in Frames : n.ref[g] = m1.ref[g] + One(a, g)
  <2>1. m1 \in Memory /\ (a = 0 \/ a \in Frames)
    BY <1>3, <1>6
  <2> QED
    BY <1>5, <2>1, IncRefFields, SMTT(30)
<1>8. SameRoot(m, n) /\ LowOnly(m, n, dd, l) /\ n.page = m.page /\ n.tab[dd][l] = e
  BY <1>6, <1>7 DEF SameRoot, LowOnly
<1>9. LowChange(m, n, dd, l)
  <2>1. RefsFollow(m, n, m.tab[dd][l].a, n.tab[dd][l].a)
    <3>1. \A g \in Frames : n.ref[g] = m.ref[g] - One(0, g) + One(a, g)
      <4>1. \A g \in Frames : n.ref[g] = m.ref[g] + One(a, g)
        BY <1>6, <1>7
      <4> QED
        BY <1>2, <4>1, Ones, RefNat
    <3> QED
      BY <1>3, <1>8, <3>1 DEF RefsFollow
  <2>2. a # 0 => ~IsTable(m, a)
    BY <1>1 DEF MemOK, Kinds, IsTable
  <2>3. \A c \in Frames, k \in Lows :
          a # 0 /\ m.tab[c][k].a = a /\ m.tab[c][k].w => ~Written(m, c)
    BY <1>1 DEF Shareable
  <2> QED
    BY <1>3, <1>8, <2>1, <2>2, <2>3 DEF LowChange, SameRoot
<1>10. MemOK(n)
  BY <1>7, <1>9, LowStep
<1>11. Contents(n, n.tab[dd][l]) = Contents(m, m.tab[sd][l])
  BY <1>1, <1>3, <1>8 DEF Contents
<1>12. LowRead(m, n, dd, l, Contents(m, m.tab[sd][l]))
  <2>1. LowPages(m, n, dd, l)
    BY <1>8 DEF LowPages
  <2> QED
    BY <1>7, <1>8, <1>11, <2>1, LowReads DEF LowRead
<1> QED
  BY <1>1, <1>3, <1>8, <1>10, <1>12

(* pmap_copy_level on one page *)
LEMMA CopyLowOK ==
    ASSUME NEW m, MemOK(m), NEW sd \in Frames, NEW dd \in Frames, NEW l \in Lows,
           IsTable(m, sd), IsTable(m, dd), NEW n, n = CopyLow(m, sd, dd, l)
    PROVE  /\ MemOK(n) /\ SameRoot(m, n)
           /\ sd # dd => LowRead(m, n, dd, l, Contents(m, m.tab[sd][l]))
<1>1. PICK m1 : m1 = RemoveLow(m, dd, l)
  OBVIOUS
<1>2. PICK e : e = [m1.tab[sd][l] EXCEPT !.w = FALSE]
  OBVIOUS
<1>3. PICK m2 : m2 = SetPte(m1, sd, l, e)
  OBVIOUS
<1>4. /\ MemOK(m1) /\ SameRoot(m, m1) /\ LowOnly(m, m1, dd, l) /\ m1.tab[dd][l].a = 0
      /\ LowRead(m, m1, dd, l, ZeroPage)
  BY <1>1, RemoveLowOK
<1>5. m1 \in Memory /\ m1.tab[sd][l] \in Entry
  BY <1>4 DEF MemOK, Memory
<1>6. n = Share(m2, sd, dd, l)
  BY <1>1, <1>2, <1>3, <1>5 DEF CopyLow, SetPte, Memory
<1>7. e \in Entry /\ e.a = m1.tab[sd][l].a /\ e.w = FALSE
  BY <1>2, <1>5, Entries
<1>8. /\ MemOK(m2) /\ SameRoot(m1, m2) /\ LowOnly(m1, m2, sd, l) /\ m2.tab[sd][l] = e
      /\ m2.page = m1.page /\ m2.ref = m1.ref
      /\ \A s \in Pmaps, t \in Tops, k \in Lows : Reads(m2, s, t, k) = Reads(m1, s, t, k)
  BY <1>3, <1>4, <1>7, SetFlagsOK
<1>9. m2.tab[dd][l].a = 0
  BY <1>4, <1>7, <1>8 DEF LowOnly
<1>10. IsTable(m2, dd)
  BY <1>4, <1>8 DEF IsTable, SameRoot
<1>11. Shareable(m2, sd, l)
  <2> SUFFICES ASSUME NEW c \in Frames, NEW k \in Lows, NEW a, a = m2.tab[sd][l].a,
                      a # 0, m2.tab[c][k].a = a, m2.tab[c][k].w, Written(m2, c)
               PROVE  FALSE
    BY DEF Shareable
  <2>1. OwnTable(m2, c)
    BY <1>8 DEF MemOK, Own, Written
  <2>2. m2.ref[a] = 1
    BY <2>1 DEF OwnTable
  <2>3. c = sd /\ k = l
    BY <1>8, <2>2, LowRefs
  <2> QED
    BY <1>7, <1>8, <2>3
<1>12. /\ MemOK(n) /\ SameRoot(m2, n) /\ LowRead(m2, n, dd, l, Contents(m2, m2.tab[sd][l]))
  BY <1>6, <1>8, <1>9, <1>10, <1>11, ShareOK
<1>13. SameRoot(m, n)
  BY <1>4, <1>8, <1>12 DEF SameRoot
<1>14. ASSUME sd # dd PROVE LowRead(m, n, dd, l, Contents(m, m.tab[sd][l]))
  <2>1. PICK s \in Pmaps, t \in Tops : m.root[s][t].a = sd
    BY DEF IsTable
  <2>2. Reads(m2, s, t, l) = Reads(m, s, t, l)
    BY <1>4, <1>8, <1>14, <2>1 DEF LowRead
  <2>3. Reads(m2, s, t, l) = Contents(m2, m2.tab[sd][l]) /\ Reads(m, s, t, l) = Contents(m, m.tab[sd][l])
    <3>1. sd # 0 /\ m2.root[s][t].a = sd
      BY <1>4, <1>8, <2>1 DEF Frames, SameRoot
    <3> QED
      BY <2>1, <3>1 DEF Reads
  <2>4. PICK x : x = Contents(m, m.tab[sd][l])
    OBVIOUS
  <2>5. LowRead(m2, n, dd, l, x)
    BY <1>12, <2>2, <2>3, <2>4
  <2>6. LowRead(m, n, dd, l, x)
    <3>1. m2.root = m.root
      BY <1>4, <1>8 DEF SameRoot
    <3> QED
      BY <1>4, <1>8, <2>5, <3>1 DEF LowRead
  <2> QED
    BY <2>4, <2>6
<1> QED
  BY <1>12, <1>13, <1>14

-----------------------------------------------------------------------------
(* pmap_freept *)

(* x is m after the first k entries of the table f have been removed. *)
Freed(m, f, x, k) ==
    /\ MemOK(x) /\ SameRoot(m, x)
    /\ \A c \in Frames, l \in Lows : c # f => x.tab[c][l] = m.tab[c][l]
    /\ \A l \in Lows : l <= k => x.tab[f][l].a = 0
    /\ \A s \in Pmaps, t \in Tops, l \in Lows :
         Reads(x, s, t, l) = IF m.root[s][t].a = f /\ l <= k THEN ZeroPage ELSE Reads(m, s, t, l)

LEMMA FreedRounds ==
    ASSUME NEW m, MemOK(m), NEW f \in Frames, NEW a, a[0] = m,
           \A k \in 1 .. NLows : a[k - 1] \in Memory => a[k] = RemoveLow(a[k - 1], f, k)
    PROVE  \A k \in 0 .. NLows : Freed(m, f, a[k], k)
<1> DEFINE S == {k \in 0 .. NLows : Freed(m, f, a[k], k)}
<1>0. NLows \in Nat
  BY PmapAssumption
<1>1. 0 \in S
  <2>1. \A l \in Lows : ~(l <= 0)
    BY <1>0 DEF Lows
  <2> QED
    BY <1>0, <2>1 DEF Freed, SameRoot
<1>2. ASSUME NEW k \in 0 .. NLows - 1, k \in S PROVE k + 1 \in S
  <2>1. k + 1 \in Lows /\ k + 1 \in 0 .. NLows /\ (k + 1) - 1 = k
    BY <1>0 DEF Lows
  <2>2. PICK x : x = a[k]
    OBVIOUS
  <2>3. Freed(m, f, x, k)
    BY <1>2, <2>2
  <2>4. MemOK(x) /\ x \in Memory
    BY <2>3 DEF Freed, MemOK
  <2>5. PICK y : y = a[k + 1]
    OBVIOUS
  <2>6. y = RemoveLow(x, f, k + 1)
    BY <2>1, <2>2, <2>4, <2>5 DEF Lows
  <2>7. /\ MemOK(y) /\ SameRoot(x, y) /\ LowOnly(x, y, f, k + 1) /\ y.tab[f][k + 1].a = 0
        /\ LowRead(x, y, f, k + 1, ZeroPage)
    BY <2>1, <2>4, <2>6, RemoveLowOK
  <2>8. \A l \in Lows : l <= k + 1 => l <= k \/ l = k + 1
    BY <1>0 DEF Lows
  <2>9. \A l \in Lows : l <= k \/ l = k + 1 => l <= k + 1
    BY <1>0 DEF Lows
  <2>10. SameRoot(m, y)
    BY <2>3, <2>7 DEF Freed, SameRoot
  <2>11. /\ \A c \in Frames, l \in Lows : c # f => y.tab[c][l] = m.tab[c][l]
         /\ \A l \in Lows : l <= k + 1 => y.tab[f][l].a = 0
    BY <2>3, <2>7, <2>8 DEF Freed, LowOnly
  <2>12. ASSUME NEW s \in Pmaps, NEW t \in Tops, NEW l \in Lows
         PROVE  Reads(y, s, t, l)
                  = IF m.root[s][t].a = f /\ l <= k + 1 THEN ZeroPage ELSE Reads(m, s, t, l)
    <3>1. x.root[s][t].a = m.root[s][t].a
      BY <2>3 DEF Freed, SameRoot
    <3>2. Reads(x, s, t, l) = IF m.root[s][t].a = f /\ l <= k THEN ZeroPage ELSE Reads(m, s, t, l)
      BY <2>3 DEF Freed
    <3>3. Reads(y, s, t, l) = IF m.root[s][t].a = f /\ l = k + 1 THEN ZeroPage ELSE Reads(x, s, t, l)
      BY <2>7, <3>1 DEF LowRead
    <3> QED
      BY <2>8, <2>9, <3>2, <3>3
  <2>13. Freed(m, f, y, k + 1)
    BY <2>7, <2>10, <2>11, <2>12 DEF Freed
  <2> QED
    BY <2>1, <2>5, <2>13
<1>3. 0 \in S /\ \A k \in 0 .. NLows - 1 : k \in S => k + 1 \in S
  BY <1>1, <1>2
<1>4. \A k \in 0 .. NLows : k \in S
  <2> HIDE DEF S
  <2> QED BY <1>0, <1>3, Induction
<1> QED
  BY <1>4

FreedRows(m, f) ==
    CHOOSE a : a = [l \in 0 .. NLows |-> IF l = 0 THEN m ELSE RemoveLow(a[l - 1], f, l)]

LEMMA FreedDef ==
    ASSUME NEW m, MemOK(m), NEW f \in Frames
    PROVE  /\ FreeTable(m, f) = [FreedRows(m, f)[NLows] EXCEPT !.tab[f] = EmptyTable]
           /\ Freed(m, f, FreedRows(m, f)[NLows], NLows)
<1> DEFINE g == [p \in Memory \X (1 .. NLows) |-> RemoveLow(p[1], f, p[2])]
<1>0. NLows \in Nat
  BY PmapAssumption
<1>1. PICK a : Rounds(a, NLows, m, g)
  <2> HIDE DEF g
  <2> QED BY <1>0, Loop
<1>2. /\ a[0] = m /\ a = [k \in 0 .. NLows |-> a[k]]
      /\ \A k \in 1 .. NLows : a[k] = g[<<a[k - 1], k>>]
  <2> HIDE DEF g
  <2> QED BY <1>0, <1>1, RoundsAre
<1>3. \A k \in 1 .. NLows : a[k - 1] \in Memory => a[k] = RemoveLow(a[k - 1], f, k)
  BY <1>2
<1>4. \A k \in 0 .. NLows : Freed(m, f, a[k], k)
  BY <1>2, <1>3, FreedRounds
<1>5. ASSUME NEW k \in 0 .. NLows
      PROVE  a[k] = IF k = 0 THEN m ELSE RemoveLow(a[k - 1], f, k)
  <2>1. CASE k = 0
    BY <1>2, <2>1
  <2>2. CASE k # 0
    <3>1. k \in 1 .. NLows /\ k - 1 \in 0 .. NLows
      BY <1>0, <2>2
    <3>2. a[k - 1] \in Memory
      BY <1>4, <3>1 DEF Freed, MemOK
    <3> QED
      BY <1>3, <2>2, <3>1, <3>2
  <2> QED
    BY <2>1, <2>2
<1>6. \E b : b = [l \in 0 .. NLows |-> IF l = 0 THEN m ELSE RemoveLow(b[l - 1], f, l)]
  <2>1. a = [l \in 0 .. NLows |-> IF l = 0 THEN m ELSE RemoveLow(a[l - 1], f, l)]
    BY <1>2, <1>5, Zenon
  <2> QED
    BY <2>1
<1>7. PICK b : b = FreedRows(m, f)
  OBVIOUS
<1>8. b = [l \in 0 .. NLows |-> IF l = 0 THEN m ELSE RemoveLow(b[l - 1], f, l)]
  BY <1>6, <1>7 DEF FreedRows
<1>9. b[0] = m /\ \A k \in 1 .. NLows : b[k] = RemoveLow(b[k - 1], f, k)
  BY <1>0, <1>8
<1>10. \A k \in 0 .. NLows : Freed(m, f, b[k], k)
  BY <1>9, FreedRounds
<1>11. FreeTable(m, f) = [FreedRows(m, f)[NLows] EXCEPT !.tab[f] = EmptyTable]
  BY DEF FreeTable, FreedRows
<1> QED
  BY <1>0, <1>7, <1>10, <1>11

-----------------------------------------------------------------------------
(* The functions of Pmap that change an entry of a root table *)

SetDir(m, s, t, e) == [m EXCEPT !.root[s][t] = e]

LEMMA SetDirFields ==
    ASSUME NEW m \in Memory, NEW s \in Pmaps, NEW t \in Tops, NEW e \in Entry,
           NEW n, n = SetDir(m, s, t, e)
    PROVE  /\ n \in Memory /\ n.tab = m.tab /\ n.page = m.page /\ n.ref = m.ref
           /\ n.root[s][t] = e /\ RootOnly(m, n, s, t)
  BY DEF Memory, SetDir, RootOnly

SetTable(m, f, T) == [m EXCEPT !.tab[f] = T]

LEMMA SetTableFields ==
    ASSUME NEW m \in Memory, NEW f \in Frames, NEW T \in [Lows -> Entry],
           NEW n, n = SetTable(m, f, T)
    PROVE  /\ n \in Memory /\ SameRoot(m, n) /\ n.page = m.page /\ n.ref = m.ref
           /\ n.tab[f] = T /\ \A c \in Frames : c # f => n.tab[c] = m.tab[c]
  BY DEF Memory, SetTable, SameRoot

(* What is read at other entries of root tables stays. *)
ReadsElse(m, n, s, t) ==
    \A c \in Pmaps, k \in Tops, l \in Lows :
      c # s \/ k # t => Reads(n, c, k, l) = Reads(m, c, k, l)

LEMMA Emptied ==
    ASSUME NEW m, MemOK(m), NEW f \in Frames, NEW n, n = SetTable(m, f, EmptyTable),
           \A l \in Lows : m.tab[f][l].a = 0
    PROVE  /\ n \in Memory /\ SameRoot(m, n) /\ n.page = m.page /\ n.ref = m.ref
           /\ SameEntries(m, n) /\ \A l \in Lows : n.tab[f][l] = PTE_ZERO
<1>1. EmptyTable \in [Lows -> Entry] /\ \A l \in Lows : EmptyTable[l] = PTE_ZERO
  BY Entries DEF EmptyTable
<1>2. m \in Memory
  BY DEF MemOK
<1>3. /\ n \in Memory /\ SameRoot(m, n) /\ n.page = m.page /\ n.ref = m.ref
      /\ n.tab[f] = EmptyTable /\ \A c \in Frames : c # f => n.tab[c] = m.tab[c]
  BY <1>1, <1>2, SetTableFields
<1>4. SameEntries(m, n)
  BY <1>1, <1>3, Entries DEF SameEntries
<1> QED
  BY <1>1, <1>3, <1>4

(* The memory state before the last reference to a table is given up: its
   entries are removed. *)
LEMMA BeforeDrop ==
    ASSUME NEW m, MemOK(m), NEW s \in Pmaps, NEW t \in Tops, NEW a, a = m.root[s][t].a, a # 0,
           NEW y, y = IF m.ref[a] = 1 THEN FreeTable(m, a) ELSE m
    PROVE  \E b : /\ MemOK(b) /\ SameRoot(m, b) /\ ReadsElse(m, b, s, t)
                  /\ b.ref[a] # 1 \/ \A l \in Lows : b.tab[a][l].a = 0
                  /\ y \in Memory /\ SameRoot(b, y) /\ y.page = b.page /\ y.ref = b.ref
                  /\ SameEntries(b, y)
<1>1. CASE m.ref[a] # 1
  <2>1. y = m
    BY <1>1
  <2>2. ReadsElse(m, m, s, t) /\ SameRoot(m, m) /\ SameEntries(m, m) /\ m \in Memory
    BY DEF ReadsElse, SameRoot, SameEntries, MemOK
  <2> QED
    BY <1>1, <2>1, <2>2
<1>2. CASE m.ref[a] = 1
  <2>1. a \in Frames /\ \A c \in Pmaps, k \in Tops : m.root[c][k].a = a => c = s /\ k = t
    BY <1>2, TopRefs
  <2>2. PICK b : b = FreedRows(m, a)[NLows]
    OBVIOUS
  <2>3. Freed(m, a, b, NLows) /\ y = SetTable(b, a, EmptyTable)
    BY <1>2, <2>1, <2>2, FreedDef DEF SetTable
  <2>4. \A l \in Lows : l <= NLows
    BY PmapAssumption DEF Lows
  <2>5. MemOK(b) /\ SameRoot(m, b) /\ \A l \in Lows : b.tab[a][l].a = 0
    BY <2>3, <2>4 DEF Freed
  <2>6. ReadsElse(m, b, s, t)
    BY <2>1, <2>3 DEF Freed, ReadsElse
  <2>7. y \in Memory /\ SameRoot(b, y) /\ y.page = b.page /\ y.ref = b.ref /\ SameEntries(b, y)
    BY <2>1, <2>3, <2>5, Emptied
  <2> QED
    BY <2>5, <2>6, <2>7
<1> QED
  BY <1>1, <1>2

(* pmap_remove_level *)
LEMMA RemoveTopOK ==
    ASSUME NEW m, MemOK(m), NEW s \in Pmaps, NEW t \in Tops, NEW n, n = RemoveTop(m, s, t)
    PROVE  /\ MemOK(n) /\ RootOnly(m, n, s, t) /\ n.root[s][t].a = 0 /\ ReadsElse(m, n, s, t)
           /\ \A l \in Lows : Reads(n, s, t, l) = ZeroPage
<1>1. CASE m.root[s][t].a = 0
  <2>1. n = m
    BY <1>1 DEF RemoveTop
  <2> QED
    BY <1>1, <2>1 DEF RootOnly, ReadsElse, Reads
<1>2. CASE m.root[s][t].a # 0
  <2>0. PICK a, y : a = m.root[s][t].a /\ y = IF m.ref[a] = 1 THEN FreeTable(m, a) ELSE m
    OBVIOUS
  <2>1. PICK b : /\ MemOK(b) /\ SameRoot(m, b) /\ ReadsElse(m, b, s, t)
                 /\ b.ref[a] # 1 \/ \A l \in Lows : b.tab[a][l].a = 0
                 /\ y \in Memory /\ SameRoot(b, y) /\ y.page = b.page /\ y.ref = b.ref
                 /\ SameEntries(b, y)
    BY <1>2, <2>0, BeforeDrop
  <2>2. n = SetDir(DecRef(y, a), s, t, PTE_ZERO)
    BY <1>2, <2>0 DEF RemoveTop, SetDir
  <2>3. b.root[s][t].a = a /\ a # 0
    BY <1>2, <2>0, <2>1 DEF SameRoot
  <2>4. a \in Frames /\ b.ref[a] \in Nat \ {0} /\ b \in Memory
    BY <2>1, <2>3, TopRefs DEF MemOK
  <2>5. PICK z : z = DecRef(y, a)
    OBVIOUS
  <2>6. /\ z \in Memory /\ SameRoot(y, z) /\ z.tab = y.tab
        /\ \A g \in Frames : z.ref[g] = y.ref[g] - One(a, g)
        /\ \A g \in Frames : g # a \/ y.ref[a] # 1 => z.page[g] = y.page[g]
    <3>1. y \in Memory /\ a \in Frames /\ y.ref[a] \in Nat \ {0}
      BY <2>1, <2>4
    <3> QED
      BY <2>5, <3>1, DecRefFields
  <2>7. /\ n \in Memory /\ n.tab = z.tab /\ n.page = z.page /\ n.ref = z.ref
        /\ n.root[s][t] = PTE_ZERO /\ RootOnly(z, n, s, t)
    <3>1. z \in Memory /\ n = SetDir(z, s, t, PTE_ZERO)
      BY <2>2, <2>5, <2>6
    <3> QED
      BY <3>1, Entries, SetDirFields
  <2>8. RootOnly(b, n, s, t) /\ SameEntries(b, n) /\ n.root[s][t].a = 0 /\ ~n.root[s][t].w
    BY <2>1, <2>6, <2>7, Entries DEF RootOnly, SameRoot, SameEntries
  <2>9. TopChange(b, n, s, t)
    <3>1. RefsFollow(b, n, b.root[s][t].a, n.root[s][t].a)
      <4>1. \A g \in Frames : n.ref[g] = b.ref[g] - One(a, g)
        BY <2>1, <2>6, <2>7
      <4>2. \A g \in Frames : One(0, g) = 0 /\ One(a, g) \in {0, 1} /\ b.ref[g] \in Nat
        BY <2>4, Ones, RefNat
      <4> QED
        BY <2>3, <2>8, <4>1, <4>2 DEF RefsFollow
    <3> QED
      BY <2>1, <2>3, <2>8, <3>1 DEF TopChange
  <2>10. MemOK(n)
    BY <2>1, <2>7, <2>9, TopStep
  <2>11. TopPages(b, n)
    <3>1. \A c \in Frames, k \in Lows : b.tab[c][k].a # 0 => b.tab[c][k].a # a /\ b.tab[c][k].a \in Frames
      BY <2>1, <2>3, LowRefs DEF MemOK, Kinds
    <3>2. \A g \in Frames : g # a => n.page[g] = b.page[g]
      BY <2>1, <2>6, <2>7
    <3> QED
      BY <3>1, <3>2 DEF TopPages
  <2>12. /\ \A c \in Pmaps, k \in Tops, l \in Lows :
              c # s \/ k # t => Reads(n, c, k, l) = Reads(b, c, k, l)
         /\ \A l \in Lows : Reads(n, s, t, l) = ZeroPage
    BY <2>1, <2>7, <2>8, <2>11, TopReads
  <2>13. RootOnly(m, n, s, t) /\ ReadsElse(m, n, s, t)
    BY <2>1, <2>8, <2>12 DEF RootOnly, SameRoot, ReadsElse
  <2> QED
    BY <2>8, <2>10, <2>12, <2>13
<1> QED
  BY <1>1, <1>2

-----------------------------------------------------------------------------
(* pmap_walk_level *)

SetRef(m, f, r) == [m EXCEPT !.ref[f] = r]

LEMMA SetRefFields ==
    ASSUME NEW m \in Memory, NEW f \in Frames, NEW r \in Nat, NEW n, n = SetRef(m, f, r)
    PROVE  /\ n \in Memory /\ SameRoot(m, n) /\ n.tab = m.tab /\ n.page = m.page
           /\ n.ref[f] = r /\ \A g \in Frames : g # f => n.ref[g] = m.ref[g]
  BY DEF Memory, SetRef, SameRoot

LEMMA NewTableOK ==
    ASSUME NEW m, MemOK(m), NEW s \in Pmaps, NEW t \in Tops, NEW a, a = m.root[s][t].a,
           a = 0 \/ m.ref[a] # 1, NEW f, f = Alloc(m), NEW n, n = NewTable(m, s, t)
    PROVE  /\ f \in Frames /\ ~IsTable(m, f)
           /\ MemOK(n) /\ RootOnly(m, n, s, t) /\ n.root[s][t] = Writable(f)
           /\ \A c \in Frames, l \in Lows : c # f => n.tab[c][l] = m.tab[c][l]
           /\ \A l \in Lows : n.tab[f][l].a = 0 /\ ~n.tab[f][l].w
           /\ ReadsElse(m, n, s, t) /\ \A l \in Lows : Reads(n, s, t, l) = ZeroPage
<1>1. m \in Memory /\ f \in Frames /\ m.ref[f] = 0 /\ f # 0
  BY AllocFree DEF MemOK, Frames
<1>2. /\ \A c \in Pmaps, k \in Tops : m.root[c][k].a # f
      /\ \A c \in Frames, k \in Lows : m.tab[c][k].a # f
      /\ \A l \in Lows : m.tab[f][l].a = 0
  BY <1>1, FreeFrame
<1>3. a = 0 \/ (a \in Frames /\ m.ref[a] \in Nat \ {0})
  BY TopRefs
<1>4. PICK z : z = DecRef(m, a)
  OBVIOUS
<1>5. /\ z \in Memory /\ SameRoot(m, z) /\ z.tab = m.tab
      /\ \A g \in Frames : z.ref[g] = m.ref[g] - One(a, g)
      /\ \A g \in Frames : g # a \/ m.ref[a] # 1 => z.page[g] = m.page[g]
  <2>1. Decd(m, DecRef(m, a), a)
    BY <1>1, <1>3, DecRefIs, Zenon
  <2>2. Decd(m, z, a)
    BY <2>1, <1>4
  <2> QED
    BY <2>2, Zenon DEF Decd
<1>6. PICK r \in Nat : r = 1
  OBVIOUS
<1>7. PICK z1, z2 : z1 = SetRef(z, f, r) /\ z2 = SetTable(z1, f, EmptyTable)
  OBVIOUS
<1>8. n = SetDir(z2, s, t, Writable(f))
  BY <1>1, <1>4, <1>5, <1>6, <1>7 DEF NewTable, SetDir, SetRef, SetTable, Memory
<1>9. /\ z1 \in Memory /\ SameRoot(z, z1) /\ z1.tab = z.tab /\ z1.page = z.page
      /\ z1.ref[f] = r /\ \A g \in Frames : g # f => z1.ref[g] = z.ref[g]
  BY <1>1, <1>5, <1>7, SetRefFields, SMTT(30)
<1>10. EmptyTable \in [Lows -> Entry] /\ \A l \in Lows : EmptyTable[l] = PTE_ZERO
  BY Entries DEF EmptyTable
<1>11. /\ z2 \in Memory /\ SameRoot(z1, z2) /\ z2.page = z1.page /\ z2.ref = z1.ref
       /\ z2.tab[f] = EmptyTable /\ \A c \in Frames : c # f => z2.tab[c] = z1.tab[c]
  BY <1>1, <1>7, <1>9, <1>10, SetTableFields
<1>12. /\ n \in Memory /\ n.tab = z2.tab /\ n.page = z2.page /\ n.ref = z2.ref
       /\ n.root[s][t] = Writable(f) /\ RootOnly(z2, n, s, t)
  BY <1>1, <1>8, <1>11, Entries, SetDirFields
<1>13. /\ \A c \in Frames, l \in Lows : c # f => n.tab[c][l] = m.tab[c][l]
       /\ \A l \in Lows : n.tab[f][l] = PTE_ZERO
  BY <1>1, <1>5, <1>9, <1>10, <1>11, <1>12
<1>14. RootOnly(m, n, s, t)
  BY <1>5, <1>9, <1>11, <1>12 DEF RootOnly, SameRoot
<1>15. SameEntries(m, n)
  BY <1>2, <1>13, Entries DEF SameEntries
<1>16. n.root[s][t].a = f /\ n.root[s][t].w
  BY <1>1, <1>12, Entries
<1>17. n.ref[f] = 1 /\ \A g \in Frames : g # f => n.ref[g] = m.ref[g] - One(a, g)
  BY <1>5, <1>6, <1>9, <1>11, <1>12
<1>18. TopChange(m, n, s, t)
  <2>1. RefsFollow(m, n, a, f)
    <3> SUFFICES ASSUME NEW g \in Frames PROVE n.ref[g] = m.ref[g] - One(a, g) + One(f, g)
      BY DEF RefsFollow
    <3>1. One(a, g) \in {0, 1} /\ m.ref[g] \in Nat
      BY <1>1, Ones, RefNat
    <3>2. CASE g = f
      <4>1. a # f
        BY <1>2
      <4>2. One(a, g) = 0 /\ One(f, g) = 1
        BY <3>2, <4>1, Ones
      <4> QED
        BY <1>1, <1>17, <3>2, <4>2
    <3>3. CASE g # f
      <4>1. One(f, g) = 0
        BY <3>3, Ones
      <4> QED
        BY <1>17, <3>1, <3>3, <4>1
    <3> QED
      BY <3>2, <3>3
  <2>2. OwnTable(n, f)
    BY <1>1, <1>13, <1>17, Entries DEF OwnTable
  <2> QED
    BY <1>2, <1>14, <1>15, <1>16, <2>1, <2>2 DEF TopChange
<1>19. MemOK(n)
  BY <1>12, <1>18, TopStep
<1>20. TopPages(m, n)
  <2>1. \A c \in Frames, k \in Lows : m.tab[c][k].a # 0 =>
          m.tab[c][k].a \in Frames /\ (a # 0 => m.tab[c][k].a # a)
    BY LowRefs DEF MemOK, Kinds
  <2>2. \A g \in Frames : g # a => n.page[g] = m.page[g]
    BY <1>5, <1>9, <1>11, <1>12
  <2> QED
    BY <2>1, <2>2 DEF TopPages
<1>21. /\ \A c \in Pmaps, k \in Tops, l \in Lows :
            c # s \/ k # t => Reads(n, c, k, l) = Reads(m, c, k, l)
       /\ \A l \in Lows : Reads(n, s, t, l) =
            IF n.root[s][t].a = 0 THEN ZeroPage ELSE Contents(m, m.tab[n.root[s][t].a][l])
  BY <1>12, <1>14, <1>15, <1>20, TopReads
<1>22. \A l \in Lows : Reads(n, s, t, l) = ZeroPage
  BY <1>1, <1>2, <1>16, <1>21 DEF Contents
<1>23. ~IsTable(m, f)
  BY <1>2 DEF IsTable
<1> QED
  BY <1>1, <1>12, <1>13, <1>14, <1>19, <1>21, <1>22, <1>23, Entries DEF ReadsElse

(* x is m after the table of s at t has been replaced by the table f and k
   entries have been copied. *)
Copied(m, s, t, f, x, k) ==
    /\ MemOK(x) /\ RootOnly(m, x, s, t) /\ x.root[s][t] = Writable(f)
    /\ \A c \in Frames, l \in Lows : c # f => x.tab[c][l] = m.tab[c][l]
    /\ \A l \in Lows : ~x.tab[f][l].w /\ (l > k => x.tab[f][l].a = 0)
    /\ ReadsElse(m, x, s, t)
    /\ \A l \in Lows : l <= k => Reads(x, s, t, l) = Reads(m, s, t, l)

LEMMA CopiedShareable ==
    ASSUME NEW m, MemOK(m), NEW s \in Pmaps, NEW t \in Tops, NEW d, d = m.root[s][t].a,
           d # 0, m.ref[d] # 1, NEW f \in Frames, ~IsTable(m, f),
           NEW x, NEW j, Copied(m, s, t, f, x, j), NEW l \in Lows
    PROVE  Shareable(x, d, l)
<1>1. d \in Frames /\ d # f
  <2>1. IsTable(m, d)
    BY DEF IsTable
  <2> QED
    BY <2>1, TopRefs
<1>2. ASSUME NEW c \in Frames, NEW k \in Lows, x.tab[d][l].a # 0,
             x.tab[c][k].a = x.tab[d][l].a, x.tab[c][k].w, Written(x, c)
      PROVE  FALSE
  <2>1. c # f
    BY <1>2 DEF Copied
  <2>2. m.tab[d][l].a # 0 /\ m.tab[c][k].a = m.tab[d][l].a /\ m.tab[c][k].w
    BY <1>1, <1>2, <2>1 DEF Copied
  <2>3. PICK s2 \in Pmaps, t2 \in Tops : x.root[s2][t2].w /\ x.root[s2][t2].a = c
    BY <1>2 DEF Written
  <2>4. s2 # s \/ t2 # t
    BY <2>1, <2>3, Entries DEF Copied
  <2>5. m.root[s2][t2].w /\ m.root[s2][t2].a = c
    BY <2>3, <2>4 DEF Copied, RootOnly
  <2>6. OwnTable(m, c)
    BY <2>5 DEF MemOK, Own
  <2>7. m.ref[m.tab[c][k].a] = 1 /\ m.ref[c] = 1
    BY <2>2, <2>6 DEF OwnTable
  <2>8. c = d
    <3>1. m.ref[m.tab[d][l].a] = 1
      BY <2>2, <2>7, Zenon
    <3> QED
      BY <1>1, <2>2, <3>1, OneTable, ZenonT(20)
  <2> QED
    BY <2>7, <2>8
<1> QED
  BY <1>2 DEF Shareable

LEMMA CopiedRounds ==
    ASSUME NEW m, MemOK(m), NEW s \in Pmaps, NEW t \in Tops, NEW d, d = m.root[s][t].a,
           d # 0, m.ref[d] # 1, NEW f, f = Alloc(m), NEW a, a[0] = NewTable(m, s, t),
           \A k \in 1 .. NLows : a[k - 1] \in Memory => a[k] = Share(a[k - 1], d, f, k)
    PROVE  \A k \in 0 .. NLows : Copied(m, s, t, f, a[k], k)
<1> DEFINE S == {k \in 0 .. NLows : Copied(m, s, t, f, a[k], k)}
<1>0. NLows \in Nat
  BY PmapAssumption
<1>1. d \in Frames /\ f \in Frames /\ ~IsTable(m, f) /\ d # f /\ IsTable(m, d)
  <2>1. f \in Frames /\ ~IsTable(m, f)
    BY NewTableOK
  <2>2. IsTable(m, d)
    BY DEF IsTable
  <2> QED
    BY <2>1, <2>2, TopRefs
<1>2. 0 \in S
  <2>1. PICK x : x = a[0]
    OBVIOUS
  <2>2. \A l \in Lows : ~(l <= 0)
    BY <1>0 DEF Lows
  <2>3. /\ MemOK(x) /\ RootOnly(m, x, s, t) /\ x.root[s][t] = Writable(f)
        /\ \A c \in Frames, l \in Lows : c # f => x.tab[c][l] = m.tab[c][l]
        /\ \A l \in Lows : x.tab[f][l].a = 0 /\ ~x.tab[f][l].w
        /\ ReadsElse(m, x, s, t)
    BY <2>1, NewTableOK
  <2>4. Copied(m, s, t, f, x, 0)
    BY <2>2, <2>3 DEF Copied
  <2> QED
    BY <1>0, <2>1, <2>4
<1>3. ASSUME NEW k \in 0 .. NLows - 1, k \in S PROVE k + 1 \in S
  <2>1. k + 1 \in Lows /\ k + 1 \in 0 .. NLows /\ (k + 1) - 1 = k
    BY <1>0 DEF Lows
  <2>2. PICK x, y, j : x = a[k] /\ y = a[k + 1] /\ j = k + 1
    OBVIOUS
  <2>3. Copied(m, s, t, f, x, k)
    BY <1>3, <2>2
  <2>4. MemOK(x) /\ x \in Memory /\ x.root[s][t] = Writable(f)
    BY <2>3 DEF Copied, MemOK
  <2>5. y = Share(x, d, f, j) /\ j \in Lows
    BY <2>1, <2>2, <2>4 DEF Lows
  <2>6. \A l \in Lows : (l <= j => l <= k \/ l = j) /\ (l > j => l > k /\ l # j) /\ j > k
    BY <1>0, <2>1, <2>2 DEF Lows
  <2>7. IsTable(x, f) /\ x.tab[f][j].a = 0
    BY <1>1, <2>3, <2>4, <2>5, <2>6, Entries DEF IsTable, Copied
  <2>8. Shareable(x, d, j)
    BY <1>1, <2>3, <2>5, CopiedShareable
  <2>9. /\ MemOK(y) /\ SameRoot(x, y) /\ LowOnly(x, y, f, j) /\ ~y.tab[f][j].w
        /\ LowRead(x, y, f, j, Contents(x, x.tab[d][j]))
    BY <1>1, <2>4, <2>5, <2>7, <2>8, ShareOK
  <2>10. RootOnly(m, y, s, t) /\ y.root[s][t] = Writable(f)
    BY <2>3, <2>9, ZenonT(30) DEF Copied, RootOnly, SameRoot
  <2>11. /\ \A c \in Frames, l \in Lows : c # f => y.tab[c][l] = m.tab[c][l]
         /\ \A l \in Lows : ~y.tab[f][l].w /\ (l > j => y.tab[f][l].a = 0)
    <3>1. LowOnly(x, y, f, j) /\ ~y.tab[f][j].w
      BY <2>9
    <3>2. \A c \in Frames, l \in Lows : c # f => y.tab[c][l] = x.tab[c][l]
      BY <3>1, Zenon DEF LowOnly
    <3>3. \A l \in Lows : l # j => y.tab[f][l] = x.tab[f][l]
      BY <1>1, <3>1, Zenon DEF LowOnly
    <3>4. /\ \A c \in Frames, l \in Lows : c # f => x.tab[c][l] = m.tab[c][l]
          /\ \A l \in Lows : ~x.tab[f][l].w /\ (l > k => x.tab[f][l].a = 0)
      BY <2>3, Zenon DEF Copied
    <3>5. \A c \in Frames, l \in Lows : c # f => y.tab[c][l] = m.tab[c][l]
      BY <3>2, <3>4, Zenon
    <3>6. ASSUME NEW l \in Lows PROVE ~y.tab[f][l].w /\ (l > j => y.tab[f][l].a = 0)
      BY <2>6, <3>1, <3>3, <3>4, Zenon
    <3> QED
      BY <3>5, <3>6, Zenon
  <2>12. ReadsElse(m, y, s, t)
    <3> SUFFICES ASSUME NEW c \in Pmaps, NEW q \in Tops, NEW l \in Lows, c # s \/ q # t
                 PROVE  Reads(y, c, q, l) = Reads(m, c, q, l)
      BY DEF ReadsElse
    <3>1. x.root[c][q].a # f
      BY <1>1, <2>3 DEF Copied, RootOnly, IsTable
    <3>2. Reads(y, c, q, l) = Reads(x, c, q, l)
      BY <2>9, <3>1 DEF LowRead
    <3> QED
      BY <2>3, <3>2 DEF Copied, ReadsElse
  <2>13. Contents(x, x.tab[d][j]) = Reads(m, s, t, j)
    <3>1. PICK c \in Pmaps, q \in Tops : (c # s \/ q # t) /\ m.root[c][q].a = d
      BY TopShared
    <3>2. x.root[c][q].a = d
      BY <2>3, <3>1 DEF Copied, RootOnly
    <3>3. Reads(x, c, q, j) = Reads(m, c, q, j)
      BY <2>3, <2>5, <3>1 DEF Copied, ReadsElse
    <3>4. Reads(x, c, q, j) = Contents(x, x.tab[d][j])
      BY <3>2 DEF Reads
    <3>5. Reads(m, c, q, j) = Reads(m, s, t, j)
      BY <3>1 DEF Reads
    <3> QED
      BY <3>3, <3>4, <3>5
  <2>14. ASSUME NEW l \in Lows, l <= j PROVE Reads(y, s, t, l) = Reads(m, s, t, l)
    <3>1. x.root[s][t].a = f
      BY <1>1, <2>4, Entries
    <3>2. CASE l = j
      BY <2>9, <2>13, <3>1, <3>2 DEF LowRead
    <3>3. CASE l # j
      <4>1. Reads(y, s, t, l) = Reads(x, s, t, l)
        BY <2>9, <3>3 DEF LowRead
      <4> QED
        BY <2>3, <2>6, <2>14, <3>3, <4>1 DEF Copied
    <3> QED
      BY <3>2, <3>3
  <2>15. Copied(m, s, t, f, y, j)
    BY <2>9, <2>10, <2>11, <2>12, <2>14 DEF Copied
  <2> QED
    BY <2>1, <2>2, <2>15
<1>4. 0 \in S /\ \A k \in 0 .. NLows - 1 : k \in S => k + 1 \in S
  BY <1>2, <1>3
<1>5. \A k \in 0 .. NLows : k \in S
  <2> HIDE DEF S
  <2> QED BY <1>0, <1>4, Induction
<1> QED
  BY <1>5

CopiedRows(m, s, t) ==
    CHOOSE a : a = [l \in 0 .. NLows |-> IF l = 0 THEN NewTable(m, s, t)
                                         ELSE Share(a[l - 1], m.root[s][t].a, Alloc(m), l)]

LEMMA CopyTableOK ==
    ASSUME NEW m, MemOK(m), NEW s \in Pmaps, NEW t \in Tops, NEW d, d = m.root[s][t].a,
           d # 0, m.ref[d] # 1, NEW f, f = Alloc(m)
    PROVE  f \in Frames /\ Copied(m, s, t, f, CopyTable(m, s, t), NLows)
<1> DEFINE g == [p \in Memory \X (1 .. NLows) |-> Share(p[1], d, f, p[2])]
           m0 == NewTable(m, s, t)
<1>0. NLows \in Nat
  BY PmapAssumption
<1>1. PICK a : Rounds(a, NLows, m0, g)
  <2> HIDE DEF g, m0
  <2> QED BY <1>0, Loop
<1>2. /\ a[0] = m0 /\ a = [k \in 0 .. NLows |-> a[k]]
      /\ \A k \in 1 .. NLows : a[k] = g[<<a[k - 1], k>>]
  <2> HIDE DEF g, m0
  <2> QED BY <1>0, <1>1, RoundsAre
<1>3. \A k \in 1 .. NLows : a[k - 1] \in Memory => a[k] = Share(a[k - 1], d, f, k)
  BY <1>2
<1>4. \A k \in 0 .. NLows : Copied(m, s, t, f, a[k], k)
  <2>1. a[0] = NewTable(m, s, t)
    BY <1>2
  <2> HIDE DEF g, m0
  <2> QED
    BY <1>3, <2>1, CopiedRounds
<1>5. ASSUME NEW k \in 0 .. NLows
      PROVE  a[k] = IF k = 0 THEN m0 ELSE Share(a[k - 1], d, f, k)
  <2>1. CASE k = 0
    BY <1>2, <2>1
  <2>2. CASE k # 0
    <3>1. k \in 1 .. NLows /\ k - 1 \in 0 .. NLows
      BY <1>0, <2>2
    <3>2. a[k - 1] \in Memory
      BY <1>4, <3>1 DEF Copied, MemOK
    <3> QED
      BY <1>3, <2>2, <3>1, <3>2
  <2> QED
    BY <2>1, <2>2
<1>6. \E b : b = [l \in 0 .. NLows |-> IF l = 0 THEN m0 ELSE Share(b[l - 1], d, f, l)]
  <2>1. a = [l \in 0 .. NLows |-> IF l = 0 THEN m0 ELSE Share(a[l - 1], d, f, l)]
    BY <1>2, <1>5, Zenon
  <2> QED
    BY <2>1
<1>7. PICK b : b = CopiedRows(m, s, t)
  OBVIOUS
<1>8. b = [l \in 0 .. NLows |-> IF l = 0 THEN m0 ELSE Share(b[l - 1], d, f, l)]
  BY <1>6, <1>7 DEF CopiedRows
<1>9. b[0] = m0 /\ \A k \in 1 .. NLows : b[k] = Share(b[k - 1], d, f, k)
  <2> HIDE DEF m0
  <2> QED BY <1>0, <1>8
<1>10. \A k \in 0 .. NLows : Copied(m, s, t, f, b[k], k)
  BY <1>9, CopiedRounds
<1>11. CopyTable(m, s, t) = CopiedRows(m, s, t)[NLows]
  BY DEF CopyTable, CopiedRows
<1>12. f \in Frames
  BY AllocFree
<1> QED
  BY <1>0, <1>7, <1>10, <1>11, <1>12

SameReads(m, n) ==
    \A s \in Pmaps, t \in Tops, l \in Lows : Reads(n, s, t, l) = Reads(m, s, t, l)

LEMMA TopSame ==
    ASSUME NEW m, MemOK(m), NEW n \in Memory, NEW s \in Pmaps, NEW t \in Tops,
           RootOnly(m, n, s, t), SameEntries(m, n), TopPages(m, n),
           n.root[s][t].a = m.root[s][t].a
    PROVE  SameReads(m, n)
<1>1. /\ \A c \in Pmaps, k \in Tops, l \in Lows :
            c # s \/ k # t => Reads(n, c, k, l) = Reads(m, c, k, l)
      /\ \A l \in Lows : Reads(n, s, t, l) =
            IF n.root[s][t].a = 0 THEN ZeroPage ELSE Contents(m, m.tab[n.root[s][t].a][l])
  BY TopReads, SMTT(30)
<1>2. \A l \in Lows : Reads(n, s, t, l) = Reads(m, s, t, l)
  BY <1>1 DEF Reads
<1> QED
  BY <1>1, <1>2 DEF SameReads

ReadOnly(m, d, T) ==
    T \in [Lows -> Entry] /\ \A l \in Lows : T[l].a = m.tab[d][l].a /\ ~T[l].w

(* The table of s at t is made writable where it is. *)
LEMMA ReopenOK ==
    ASSUME NEW m, MemOK(m), NEW s \in Pmaps, NEW t \in Tops, NEW d, d = m.root[s][t].a,
           d # 0, m.ref[d] = 1, NEW T, ReadOnly(m, d, T),
           NEW z, z = SetTable(m, d, T), NEW n, n = SetDir(z, s, t, Writable(d))
    PROVE  MemOK(n) /\ RootOnly(m, n, s, t) /\ n.root[s][t] = Writable(d) /\ SameReads(m, n)
<1>1. m \in Memory /\ d \in Frames
  BY TopRefs DEF MemOK
<1>5. /\ z \in Memory /\ SameRoot(m, z) /\ z.page = m.page /\ z.ref = m.ref
      /\ z.tab[d] = T /\ \A c \in Frames : c # d => z.tab[c] = m.tab[c]
  <2>1. T \in [Lows -> Entry]
    BY DEF ReadOnly
  <2> QED
    BY <1>1, <2>1, SetTableFields, SMTT(20)
<1>6. /\ n \in Memory /\ n.tab = z.tab /\ n.page = z.page /\ n.ref = z.ref
      /\ n.root[s][t] = Writable(d) /\ RootOnly(z, n, s, t)
  <2>1. z \in Memory /\ Writable(d) \in Entry
    BY <1>1, <1>5, Entries
  <2> QED
    BY <2>1, SetDirFields, SMTT(20)
<1>7. RootOnly(m, n, s, t)
  <2>1. z.root = m.root
    BY <1>5 DEF SameRoot
  <2>2. RootOnly(z, n, s, t)
    BY <1>6
  <2> QED
    BY <2>1, <2>2, ZenonT(30) DEF RootOnly
<1>8. SameEntries(m, n)
  BY <1>5, <1>6, ZenonT(30) DEF SameEntries, ReadOnly
<1>9. n.root[s][t].a = d /\ n.root[s][t].w
  <2>1. n.root[s][t] = Writable(d)
    BY <1>6
  <2> QED
    BY <1>1, <2>1, Entries, ZenonT(30)
<1>10. TopChange(m, n, s, t)
  <2>1. RefsFollow(m, n, d, d)
    <3>1. \A g \in Frames : m.ref[g] = m.ref[g] - One(d, g) + One(d, g)
      BY <1>1, Ones, RefNat
    <3> QED
      BY <1>5, <1>6, <3>1 DEF RefsFollow
  <2>2. OwnTable(n, d)
    <3>1. n.ref[d] = 1 /\ \A l \in Lows : ~n.tab[d][l].w
      BY <1>5, <1>6 DEF ReadOnly
    <3> QED
      BY <3>1 DEF OwnTable
  <2>3. \A c \in Frames, k \in Lows : m.tab[c][k].a # d
    BY DEF MemOK, Kinds
  <2> QED
    BY <1>7, <1>8, <1>9, <2>1, <2>2, <2>3 DEF TopChange
<1>11. MemOK(n)
  BY <1>6, <1>10, TopStep
<1>12. TopPages(m, n)
  BY <1>5, <1>6 DEF TopPages
<1>13. SameReads(m, n)
  <2>1. n \in Memory /\ n.root[s][t].a = m.root[s][t].a
    BY <1>6, <1>9
  <2> QED
    BY <1>7, <1>8, <1>12, <2>1, TopSame
<1> QED
  BY <1>6, <1>7, <1>11, <1>13

LEMMA UnshareOK ==
    ASSUME NEW m, MemOK(m), NEW s \in Pmaps, NEW t \in Tops, NEW n, n = Unshare(m, s, t)
    PROVE  /\ MemOK(n) /\ RootOnly(m, n, s, t) /\ n.root[s][t].a \in Frames /\ n.root[s][t].w
           /\ SameReads(m, n)
<1>0. PICK d : d = m.root[s][t].a
  OBVIOUS
<1>1. CASE d = 0
  <2>1. n = NewTable(m, s, t)
    BY <1>0, <1>1 DEF Unshare
  <2>2. PICK f : f = Alloc(m)
    OBVIOUS
  <2>3. /\ f \in Frames /\ MemOK(n) /\ RootOnly(m, n, s, t) /\ n.root[s][t] = Writable(f)
        /\ ReadsElse(m, n, s, t) /\ \A l \in Lows : Reads(n, s, t, l) = ZeroPage
    <3>1. d = 0 \/ m.ref[d] # 1
      BY <1>1
    <3> QED
      BY <1>0, <2>1, <2>2, <3>1, NewTableOK
  <2>4. \A l \in Lows : Reads(m, s, t, l) = ZeroPage
    BY <1>0, <1>1 DEF Reads
  <2>5. SameReads(m, n)
    BY <2>3, <2>4 DEF SameReads, ReadsElse
  <2> QED
    BY <2>3, <2>5, Entries
<1>2. CASE d # 0 /\ m.root[s][t].w
  <2>1. n = m
    BY <1>0, <1>2 DEF Unshare
  <2>2. d \in Frames
    BY <1>0, <1>2, TopRefs
  <2> QED
    BY <1>0, <1>2, <2>1, <2>2 DEF RootOnly, SameReads
<1>3. CASE d # 0 /\ ~m.root[s][t].w /\ m.ref[d] = 1
  <2>1. PICK T : T = [l \in Lows |-> [m.tab[d][l] EXCEPT !.w = FALSE]]
    OBVIOUS
  <2>2. m \in Memory /\ d \in Frames
    BY <1>0, <1>3, TopRefs DEF MemOK
  <2>3. ReadOnly(m, d, T)
    <3>1. \A l \in Lows : m.tab[d][l] \in Entry
      BY <2>2 DEF Memory
    <3> QED
      BY <2>1, <3>1, Entries DEF ReadOnly
  <2>4. PICK z : z = SetTable(m, d, T)
    OBVIOUS
  <2>5. n = SetDir(z, s, t, Writable(d))
    BY <1>0, <1>3, <2>1, <2>2, <2>4 DEF Unshare, SetDir, SetTable, Memory
  <2>6. MemOK(n) /\ RootOnly(m, n, s, t) /\ n.root[s][t] = Writable(d) /\ SameReads(m, n)
    BY <1>0, <1>3, <2>3, <2>4, <2>5, ReopenOK
  <2> QED
    BY <2>2, <2>6, Entries
<1>4. CASE d # 0 /\ ~m.root[s][t].w /\ m.ref[d] # 1
  <2>1. n = CopyTable(m, s, t)
    BY <1>0, <1>4 DEF Unshare
  <2>2. PICK f : f = Alloc(m)
    OBVIOUS
  <2>3. f \in Frames /\ Copied(m, s, t, f, n, NLows)
    BY <1>0, <1>4, <2>1, <2>2, CopyTableOK
  <2>4. \A l \in Lows : l <= NLows
    BY PmapAssumption DEF Lows
  <2>5. MemOK(n) /\ RootOnly(m, n, s, t) /\ n.root[s][t] = Writable(f)
    BY <2>3 DEF Copied
  <2>6. SameReads(m, n)
    BY <2>3, <2>4 DEF SameReads, Copied, ReadsElse
  <2> QED
    BY <2>3, <2>5, <2>6, Entries
<1> QED
  BY <1>1, <1>2, <1>3, <1>4

-----------------------------------------------------------------------------
(* Operations on a page of an address space *)

(* n reads as m except that page l of s at t is x. *)
PageRead(m, n, s, t, l, x) ==
    \A c \in Pmaps, q \in Tops, k \in Lows :
      Reads(n, c, q, k) = IF c = s /\ q = t /\ k = l THEN x ELSE Reads(m, c, q, k)

(* A change in a table with one reference shows in its address space only. *)
LEMMA Private ==
    ASSUME NEW m, MemOK(m), NEW s \in Pmaps, NEW t \in Tops, NEW l \in Lows,
           m.root[s][t].a \in Frames, m.ref[m.root[s][t].a] = 1,
           NEW n, NEW x, LowRead(m, n, m.root[s][t].a, l, x)
    PROVE  PageRead(m, n, s, t, l, x)
<1>1. m.root[s][t].a # 0
  BY DEF Frames
<1>2. \A c \in Pmaps, q \in Tops : m.root[c][q].a = m.root[s][t].a => c = s /\ q = t
  BY <1>1, TopRefs
<1> QED
  BY <1>2 DEF LowRead, PageRead

LEMMA OwnRef ==
    ASSUME NEW m, MemOK(m), NEW s \in Pmaps, NEW t \in Tops, m.root[s][t].w
    PROVE  /\ m.root[s][t].a \in Frames /\ m.ref[m.root[s][t].a] = 1 /\ IsTable(m, m.root[s][t].a)
           /\ \A l \in Lows : m.tab[m.root[s][t].a][l].w =>
                m.tab[m.root[s][t].a][l].a # 0 /\ m.ref[m.tab[m.root[s][t].a][l].a] = 1
<1>1. OwnTable(m, m.root[s][t].a)
  BY DEF MemOK, Own
<1>2. m.root[s][t].a # 0
  BY <1>1 DEF OwnTable
<1> QED
  BY <1>1, <1>2, TopRefs DEF OwnTable, IsTable

LEMMA RemovePartOK ==
    ASSUME NEW m, MemOK(m), NEW s \in Pmaps, NEW t \in Tops, NEW l \in Lows,
           NEW n, n = RemovePart(m, s, t, l)
    PROVE  MemOK(n) /\ PageRead(m, n, s, t, l, ZeroPage)
<1>1. CASE m.root[s][t].a = 0
  <2>1. n = m
    BY <1>1 DEF RemovePart
  <2> QED
    BY <1>1, <2>1 DEF PageRead, Reads
<1>2. CASE m.root[s][t].a # 0
  <2>1. PICK u : u = Unshare(m, s, t)
    OBVIOUS
  <2>2. n = RemoveLow(u, u.root[s][t].a, l)
    BY <1>2, <2>1 DEF RemovePart
  <2>3. MemOK(u) /\ u.root[s][t].a \in Frames /\ u.root[s][t].w /\ SameReads(m, u)
    BY <2>1, UnshareOK
  <2>4. MemOK(n) /\ LowRead(u, n, u.root[s][t].a, l, ZeroPage)
    BY <2>2, <2>3, RemoveLowOK
  <2>5. u.ref[u.root[s][t].a] = 1
    BY <2>3, OwnRef
  <2>6. PageRead(u, n, s, t, l, ZeroPage)
    BY <2>3, <2>4, <2>5, Private
  <2>7. PageRead(m, n, s, t, l, ZeroPage)
    BY <2>3, <2>6 DEF PageRead, SameReads
  <2> QED
    BY <2>4, <2>7
<1> QED
  BY <1>1, <1>2

LEMMA SetPermOK ==
    ASSUME NEW m, MemOK(m), NEW s \in Pmaps, NEW t \in Tops, NEW l \in Lows, NEW perm \in Perms,
           NEW n, n = SetPerm(m, s, t, l, perm)
    PROVE  MemOK(n) /\ SameReads(m, n)
<1>1. PICK u : u = Unshare(m, s, t)
  OBVIOUS
<1>2. MemOK(u) /\ u.root[s][t].a \in Frames /\ u.root[s][t].w /\ SameReads(m, u)
  BY <1>1, UnshareOK
<1>3. PICK d, pte : d = u.root[s][t].a /\ pte = u.tab[d][l]
  OBVIOUS
<1>4. PICK e : e = [pte EXCEPT !.perm = perm, !.w = @ /\ perm = "rw"]
  OBVIOUS
<1>5. n = m \/ n = u \/ n = SetPte(u, d, l, e)
  BY <1>1, <1>3, <1>4 DEF SetPerm, SetPte
<1>6. CASE n = m
  BY <1>6 DEF SameReads
<1>7. CASE n = u
  BY <1>2, <1>7
<1>8. CASE n = SetPte(u, d, l, e)
  <2>1. d \in Frames /\ pte \in Entry
    BY <1>2, <1>3 DEF MemOK, Memory
  <2>2. e \in Entry /\ e.a = pte.a /\ (e.w => pte.w)
    BY <1>4, <2>1 DEF Entry
  <2>3. pte.w => pte.a # 0 /\ u.ref[pte.a] = 1
    <3>1. \A k \in Lows : u.tab[u.root[s][t].a][k].w =>
            u.tab[u.root[s][t].a][k].a # 0 /\ u.ref[u.tab[u.root[s][t].a][k].a] = 1
      BY <1>2, OwnRef
    <3> QED
      BY <1>3, <3>1
  <2>4. e.a = u.tab[d][l].a /\ (e.w => e.a # 0 /\ u.ref[e.a] = 1)
    BY <1>3, <2>2, <2>3
  <2>5. MemOK(n) /\ \A c \in Pmaps, q \in Tops, k \in Lows : Reads(n, c, q, k) = Reads(u, c, q, k)
    BY <1>2, <1>8, <2>1, <2>2, <2>4, SetFlagsOK
  <2> QED
    BY <1>2, <2>5 DEF SameReads
<1> QED
  BY <1>5, <1>6, <1>7, <1>8

(* pmap_pagefault *)
LEMMA PageFaultOK ==
    ASSUME NEW m, MemOK(m), NEW s \in Pmaps, NEW t \in Tops, NEW l \in Lows,
           NEW n, n = PageFault(m, s, t, l)
    PROVE  MemOK(n) /\ SameReads(m, n) /\ n.root[s][t].w
<1>1. PICK u : u = Unshare(m, s, t)
  OBVIOUS
<1>2. MemOK(u) /\ u.root[s][t].a \in Frames /\ u.root[s][t].w /\ SameReads(m, u)
  BY <1>1, UnshareOK
<1>3. PICK d, pte : d = u.root[s][t].a /\ pte = u.tab[d][l]
  OBVIOUS
<1>4. d \in Frames /\ pte \in Entry /\ u \in Memory
  BY <1>2, <1>3 DEF MemOK, Memory
<1>5. CASE pte.perm # "rw"
  <2>1. n = u
    BY <1>1, <1>3, <1>5 DEF PageFault
  <2> QED
    BY <1>2, <2>1
<1>6. CASE pte.perm = "rw" /\ InPlace(u, pte.a)
  <2>1. PICK e : e = Writable(pte.a)
    OBVIOUS
  <2>2. n = SetPte(u, d, l, e)
    BY <1>1, <1>3, <1>6, <2>1 DEF PageFault, SetPte
  <2>3. e \in Entry /\ e.a = pte.a
    BY <1>4, <1>6, <2>1, Entries DEF InPlace
  <2>4. e.a = u.tab[d][l].a /\ (e.w => e.a # 0 /\ u.ref[e.a] = 1)
    BY <1>3, <1>6, <2>3 DEF InPlace
  <2>5. /\ MemOK(n) /\ SameRoot(u, n)
        /\ \A c \in Pmaps, q \in Tops, k \in Lows : Reads(n, c, q, k) = Reads(u, c, q, k)
    BY <1>2, <1>4, <2>2, <2>3, <2>4, SetFlagsOK
  <2> QED
    BY <1>2, <2>5 DEF SameReads, SameRoot
<1>7. CASE pte.perm = "rw" /\ ~InPlace(u, pte.a)
  <2>1. PICK x : x = Contents(u, pte)
    OBVIOUS
  <2>2. n = NewPage(u, d, l, x)
    BY <1>1, <1>3, <1>7, <2>1 DEF PageFault
  <2>3. x \in Page
    BY <1>4, <2>1, Entries DEF Contents, Memory, ZeroPage, Page
  <2>4. IsTable(u, d)
    BY <1>3 DEF IsTable
  <2>5. MemOK(n) /\ SameRoot(u, n) /\ LowRead(u, n, d, l, x)
    BY <1>2, <1>4, <2>2, <2>3, <2>4, NewPageOK
  <2>6. \A c \in Pmaps, q \in Tops : u.root[c][q].a = d => Reads(u, c, q, l) = x
    <3>1. d # 0
      BY <1>4 DEF Frames
    <3> QED
      BY <1>3, <2>1, <3>1 DEF Reads
  <2>7. SameReads(m, n)
    BY <1>2, <2>5, <2>6 DEF SameReads, LowRead
  <2> QED
    BY <1>2, <2>5, <2>7 DEF SameRoot
<1> QED
  BY <1>5, <1>6, <1>7

-----------------------------------------------------------------------------
(* Copying *)

LEMMA PageContents ==
    ASSUME NEW m, MemOK(m), NEW d \in Frames, NEW l \in Lows
    PROVE  Contents(m, m.tab[d][l]) \in Page
<1>1. m \in Memory /\ m.tab[d][l] \in Entry
  BY DEF MemOK, Memory
<1> QED
  BY <1>1, Entries DEF Contents, Memory, ZeroPage, Page

(* n reads as m except that d reads at t what m reads in s. *)
TopCopied(m, n, s, d, t) ==
    \A c \in Pmaps, q \in Tops, l \in Lows :
      Reads(n, c, q, l) = IF c = d /\ q = t THEN Reads(m, s, t, l) ELSE Reads(m, c, q, l)

(* An entry of a root table becomes read-only. *)
LEMMA CloseOK ==
    ASSUME NEW m, MemOK(m), NEW s \in Pmaps, NEW t \in Tops,
           NEW e \in Entry, e.a = m.root[s][t].a, ~e.w, NEW n, n = SetDir(m, s, t, e)
    PROVE  MemOK(n) /\ RootOnly(m, n, s, t) /\ n.root[s][t] = e /\ SameReads(m, n)
<1>1. m \in Memory
  BY DEF MemOK
<1>2. /\ n \in Memory /\ n.tab = m.tab /\ n.page = m.page /\ n.ref = m.ref
      /\ n.root[s][t] = e /\ RootOnly(m, n, s, t)
  BY <1>1, SetDirFields
<1>3. SameEntries(m, n) /\ TopPages(m, n)
  BY <1>2 DEF SameEntries, TopPages
<1>4. RefsFollow(m, n, m.root[s][t].a, n.root[s][t].a)
  <2>1. \A g \in Frames : m.ref[g] = m.ref[g] - One(e.a, g) + One(e.a, g)
    BY <1>1, Ones, RefNat
  <2> QED
    BY <1>2, <2>1 DEF RefsFollow
<1>5. e.a # 0 => \A c \in Frames, k \in Lows : m.tab[c][k].a # e.a
  BY DEF MemOK, Kinds
<1>6. TopChange(m, n, s, t)
  BY <1>2, <1>3, <1>4, <1>5 DEF TopChange
<1>7. MemOK(n)
  BY <1>2, <1>6, TopStep
<1>8. SameReads(m, n)
  BY <1>2, <1>3, TopSame
<1> QED
  BY <1>2, <1>7, <1>8

(* The read-only entry of s at t is used by the empty entry of d too. *)
LEMMA ReuseOK ==
    ASSUME NEW m, MemOK(m), NEW s \in Pmaps, NEW d \in Pmaps, s # d, NEW t \in Tops,
           ~m.root[s][t].w, m.root[d][t].a = 0,
           NEW z, z = SetDir(m, d, t, m.root[s][t]), NEW n, n = IncRef(z, m.root[s][t].a)
    PROVE  MemOK(n) /\ TopCopied(m, n, s, d, t)
<1>0. PICK e : e = m.root[s][t]
  OBVIOUS
<1>1. m \in Memory /\ e \in Entry /\ (e.a = 0 \/ e.a \in Frames)
  <2>1. m \in Memory /\ e \in Entry
    BY <1>0 DEF MemOK, Memory
  <2> QED
    BY <2>1, Entries
<1>2. /\ z \in Memory /\ z.tab = m.tab /\ z.page = m.page /\ z.ref = m.ref
      /\ z.root[d][t] = e /\ RootOnly(m, z, d, t)
  BY <1>0, <1>1, SetDirFields
<1>3. /\ n \in Memory /\ SameRoot(z, n) /\ n.tab = z.tab /\ n.page = z.page
      /\ \A g \in Frames : n.ref[g] = z.ref[g] + One(e.a, g)
  <2>1. z \in Memory /\ n = IncRef(z, e.a)
    BY <1>0, <1>2
  <2> QED
    BY <1>1, <2>1, IncRefFields
<1>4. RootOnly(m, n, d, t) /\ n.root[d][t] = e
  BY <1>2, <1>3 DEF RootOnly, SameRoot
<1>5. SameEntries(m, n) /\ TopPages(m, n)
  BY <1>2, <1>3 DEF SameEntries, TopPages
<1>6. RefsFollow(m, n, m.root[d][t].a, n.root[d][t].a)
  <2>1. \A g \in Frames : n.ref[g] = m.ref[g] + One(e.a, g)
    BY <1>2, <1>3
  <2>2. \A g \in Frames : n.ref[g] = m.ref[g] - One(0, g) + One(e.a, g)
    BY <1>1, <2>1, Ones, RefNat
  <2> QED
    BY <1>4, <2>2 DEF RefsFollow
<1>7. e.a # 0 => \A c \in Frames, k \in Lows : m.tab[c][k].a # e.a
  BY <1>0 DEF MemOK, Kinds
<1>8. ASSUME NEW c \in Pmaps, NEW k \in Tops, e.a # 0, m.root[c][k].a = e.a PROVE ~m.root[c][k].w
  <2> SUFFICES ASSUME m.root[c][k].w PROVE FALSE
    OBVIOUS
  <2>1. m.ref[m.root[c][k].a] = 1
    BY OwnRef
  <2>2. s = c /\ t = k
    BY <1>0, <1>8, <2>1, TopRefs
  <2> QED
    BY <2>2
<1>9. TopChange(m, n, d, t)
  BY <1>0, <1>4, <1>5, <1>6, <1>7, <1>8 DEF TopChange
<1>10. MemOK(n)
  BY <1>3, <1>9, TopStep
<1>11. /\ \A c \in Pmaps, k \in Tops, l \in Lows :
            c # d \/ k # t => Reads(n, c, k, l) = Reads(m, c, k, l)
       /\ \A l \in Lows : Reads(n, d, t, l) =
            IF n.root[d][t].a = 0 THEN ZeroPage ELSE Contents(m, m.tab[n.root[d][t].a][l])
  <2>1. n \in Memory
    BY <1>3
  <2> QED
    BY <1>4, <1>5, <2>1, TopReads
<1>12. \A l \in Lows : Reads(n, d, t, l) = Reads(m, s, t, l)
  BY <1>0, <1>4, <1>11, ZenonT(30) DEF Reads
<1> QED
  BY <1>10, <1>11, <1>12 DEF TopCopied

LEMMA CopyTopOK ==
    ASSUME NEW m, MemOK(m), NEW s \in Pmaps, NEW d \in Pmaps, s # d, NEW t \in Tops,
           NEW n, n = CopyTop(m, s, d, t)
    PROVE  MemOK(n) /\ TopCopied(m, n, s, d, t)
<1>1. PICK x : x = RemoveTop(m, d, t)
  OBVIOUS
<1>2. /\ MemOK(x) /\ RootOnly(m, x, d, t) /\ x.root[d][t].a = 0 /\ ReadsElse(m, x, d, t)
      /\ \A l \in Lows : Reads(x, d, t, l) = ZeroPage
  BY <1>1, RemoveTopOK
<1>3. PICK e : e = [x.root[s][t] EXCEPT !.w = FALSE]
  OBVIOUS
<1>4. x \in Memory /\ x.root[s][t] \in Entry
  BY <1>2 DEF MemOK, Memory
<1>5. e \in Entry /\ e.a = x.root[s][t].a /\ ~e.w
  BY <1>3, <1>4, Entries
<1>6. PICK y, z : y = SetDir(x, s, t, e) /\ z = SetDir(y, d, t, e)
  OBVIOUS
<1>7. n = IncRef(z, e.a)
  <2>1. z = [x EXCEPT !.root[s][t] = e, !.root[d][t] = e]
    BY <1>4, <1>6 DEF SetDir, Memory
  <2> QED
    BY <1>1, <1>3, <2>1 DEF CopyTop
<1>8. MemOK(y) /\ RootOnly(x, y, s, t) /\ y.root[s][t] = e /\ SameReads(x, y)
  BY <1>2, <1>5, <1>6, CloseOK
<1>9. y.root[d][t].a = 0
  BY <1>2, <1>8 DEF RootOnly
<1>10. MemOK(n) /\ TopCopied(y, n, s, d, t)
  <2>1. ~y.root[s][t].w /\ z = SetDir(y, d, t, y.root[s][t]) /\ n = IncRef(z, y.root[s][t].a)
    BY <1>5, <1>6, <1>7, <1>8
  <2> QED
    BY <1>8, <1>9, <2>1, ReuseOK
<1>11. TopCopied(m, n, s, d, t)
  <2>1. TopCopied(x, n, s, d, t)
    BY <1>8, <1>10 DEF TopCopied, SameReads
  <2> QED
    BY <1>2, <2>1 DEF TopCopied, ReadsElse
<1> QED
  BY <1>10, <1>11

(* No other address space uses the lower table that s has at t. *)
LEMMA NotInUse ==
    ASSUME NEW m, MemOK(m), NEW s \in Pmaps, NEW t \in Tops, m.root[s][t].a # 0, ~InUse(m, s, t)
    PROVE  m.ref[m.root[s][t].a] = 1
<1>1. m.ref[m.root[s][t].a] \in Nat \ {0}
  BY TopRefs
<1>2. ~(m.ref[m.root[s][t].a] > 1)
  BY DEF InUse
<1> QED
  BY <1>1, <1>2

(* The destination has a table: where it had none, one of its own. *)
LEMMA TableMade ==
    ASSUME NEW m, MemOK(m), NEW d \in Pmaps, NEW t \in Tops,
           NEW n, n = IF m.root[d][t].a = 0 THEN Unshare(m, d, t) ELSE m
    PROVE  /\ MemOK(n) /\ RootOnly(m, n, d, t) /\ SameReads(m, n)
           /\ n.root[d][t].a \in Frames /\ IsTable(n, n.root[d][t].a)
           /\ ~InUse(m, d, t) => n.ref[n.root[d][t].a] = 1
<1>1. CASE m.root[d][t].a = 0
  <2>1. /\ MemOK(n) /\ RootOnly(m, n, d, t) /\ n.root[d][t].a \in Frames /\ n.root[d][t].w
        /\ SameReads(m, n)
    BY <1>1, UnshareOK
  <2>2. n.ref[n.root[d][t].a] = 1 /\ IsTable(n, n.root[d][t].a)
    BY <2>1, OwnRef
  <2> QED
    BY <2>1, <2>2
<1>2. CASE m.root[d][t].a # 0
  <2>1. n = m
    BY <1>2
  <2>2. m.root[d][t].a \in Frames
    BY <1>2, TopRefs
  <2>3. ~InUse(m, d, t) => m.ref[m.root[d][t].a] = 1
    BY <1>2, NotInUse
  <2>4. RootOnly(m, m, d, t) /\ SameReads(m, m) /\ IsTable(m, m.root[d][t].a)
    BY DEF RootOnly, SameReads, IsTable
  <2> QED
    BY <2>1, <2>2, <2>3, <2>4
<1> QED
  BY <1>1, <1>2

LEMMA CopyPartOK ==
    ASSUME NEW m, MemOK(m), NEW s \in Pmaps, NEW d \in Pmaps, s # d, NEW t \in Tops, NEW l \in Lows,
           NEW n, n = CopyPart(m, s, d, t, l)
    PROVE  /\ MemOK(n)
           /\ ~(m.root[s][t].a # 0 /\ InUse(m, d, t)) => PageRead(m, n, d, t, l, Reads(m, s, t, l))
<1>1. CASE m.root[s][t].a = 0
  <2>1. n = RemovePart(m, d, t, l)
    BY <1>1 DEF CopyPart
  <2>2. Reads(m, s, t, l) = ZeroPage
    BY <1>1 DEF Reads
  <2> QED
    BY <2>1, <2>2, RemovePartOK
<1>2. CASE m.root[s][t].a # 0
  <2>1. PICK u : u = IF m.root[d][t].a = 0 THEN Unshare(m, d, t) ELSE m
    OBVIOUS
  <2>2. PICK sd, dd : sd = u.root[s][t].a /\ dd = u.root[d][t].a
    OBVIOUS
  <2>3. n = CopyLow(u, sd, dd, l)
    BY <1>2, <2>1, <2>2 DEF CopyPart
  <2>4. /\ MemOK(u) /\ RootOnly(m, u, d, t) /\ SameReads(m, u)
        /\ u.root[d][t].a \in Frames /\ IsTable(u, u.root[d][t].a)
        /\ ~InUse(m, d, t) => u.ref[u.root[d][t].a] = 1
    BY <2>1, TableMade
  <2>5. u.root[s][t] = m.root[s][t]
    BY <2>4 DEF RootOnly
  <2>6. sd \in Frames /\ sd # 0 /\ IsTable(u, sd)
    <3>1. sd # 0
      BY <1>2, <2>2, <2>5
    <3>2. IsTable(u, sd)
      BY <2>2 DEF IsTable
    <3> QED
      BY <2>2, <2>4, <3>1, <3>2, TopRefs
  <2>7. MemOK(n) /\ (sd # dd => LowRead(u, n, dd, l, Contents(u, u.tab[sd][l])))
    BY <2>2, <2>3, <2>4, <2>6, CopyLowOK
  <2>8. ASSUME ~InUse(m, d, t) PROVE PageRead(m, n, d, t, l, Reads(m, s, t, l))
    <3>1. u.ref[dd] = 1 /\ dd \in Frames
      BY <2>2, <2>4, <2>8
    <3>2. sd # dd
      <4> SUFFICES ASSUME sd = dd PROVE FALSE
        OBVIOUS
      <4>1. u.root[s][t].a = dd /\ u.root[d][t].a = dd /\ dd # 0
        BY <2>2, <2>6
      <4>2. s = d
        BY <2>4, <3>1, <4>1, TopRefs
      <4> QED
        BY <4>2
    <3>3. Contents(u, u.tab[sd][l]) = Reads(m, s, t, l)
      <4>1. Reads(u, s, t, l) = Contents(u, u.tab[sd][l])
        BY <2>2, <2>6 DEF Reads
      <4> QED
        BY <2>4, <4>1 DEF SameReads
    <3>4. PICK x : x = Reads(m, s, t, l)
      OBVIOUS
    <3>5. LowRead(u, n, u.root[d][t].a, l, x)
      BY <2>2, <2>7, <3>2, <3>3, <3>4
    <3>6. PageRead(u, n, d, t, l, x)
      BY <2>2, <2>4, <3>1, <3>5, Private
    <3>7. PageRead(m, n, d, t, l, x)
      BY <2>4, <3>6 DEF PageRead, SameReads
    <3> QED
      BY <3>4, <3>7
  <2> QED
    BY <1>2, <2>7, <2>8
<1> QED
  BY <1>1, <1>2

-----------------------------------------------------------------------------
(* Merging *)

(* What a page of the destination is after a merge. *)
Merged(r, s, d) == IF Conflict(r, s, d) THEN ZeroPage ELSE MergedPage(r, s, d)

LEMMA MergedIs ==
    ASSUME NEW r \in Page, NEW s \in Page, NEW d \in Page
    PROVE  Merged(r, s, d) \in Page /\ Merged(r, r, d) = d /\ Merged(r, s, r) = s
<1>1. ZeroPage \in Page /\ MergedPage(r, s, d) \in Page
  BY DEF ZeroPage, MergedPage, Page
<1>2. ~Conflict(r, r, d) /\ ~Conflict(r, s, r)
  BY DEF Conflict
<1>3. MergedPage(r, r, d) = d /\ MergedPage(r, s, r) = s
  BY DEF MergedPage, Page
<1> QED
  BY <1>1, <1>2, <1>3 DEF Merged

(* pmap_mergepage *)
LEMMA MergePageOK ==
    ASSUME NEW m, MemOK(m), NEW dd \in Frames, NEW l \in Lows, IsTable(m, dd),
           NEW r \in Page, NEW s \in Page,
           NEW d, d = Contents(m, m.tab[dd][l]), NEW n, n = MergePage(m, r, s, dd, l)
    PROVE  MemOK(n) /\ SameRoot(m, n) /\ LowRead(m, n, dd, l, Merged(r, s, d))
<1>1. PICK o : o = IF InPlace(m, m.tab[dd][l].a) THEN m ELSE NewPage(m, dd, l, d)
  OBVIOUS
<1>2. n = IF Conflict(r, s, d) THEN RemoveLow(o, dd, l)
          ELSE SetPage(o, o.tab[dd][l].a, MergedPage(r, s, d))
  BY <1>1 DEF MergePage, SetPage
<1>3. d \in Page
  BY PageContents
<1>4. \A c \in Pmaps, q \in Tops : m.root[c][q].a = dd => Reads(m, c, q, l) = d
  <2>1. dd # 0
    BY DEF Frames
  <2> QED
    BY <2>1 DEF Reads
<1>5. /\ MemOK(o) /\ SameRoot(m, o) /\ SameReads(m, o)
      /\ o.tab[dd][l].a # 0 /\ o.ref[o.tab[dd][l].a] = 1
  <2>1. CASE InPlace(m, m.tab[dd][l].a)
    <3>1. o = m
      BY <1>1, <2>1
    <3> QED
      BY <2>1, <3>1 DEF InPlace, SameRoot, SameReads
  <2>2. CASE ~InPlace(m, m.tab[dd][l].a)
    <3>1. o = NewPage(m, dd, l, d)
      BY <1>1, <2>2
    <3>2. /\ MemOK(o) /\ SameRoot(m, o) /\ LowRead(m, o, dd, l, d)
          /\ o.tab[dd][l].a # 0 /\ o.ref[o.tab[dd][l].a] = 1
      <4>1. NewPaged(m, NewPage(m, dd, l, d), dd, l, d)
        BY <1>3, NewPageIs, Zenon
      <4>2. NewPaged(m, o, dd, l, d)
        BY <3>1, <4>1
      <4> QED
        BY <4>2, Zenon DEF NewPaged
    <3>3. SameReads(m, o)
      BY <1>4, <3>2 DEF SameReads, LowRead
    <3> QED
      BY <3>2, <3>3
  <2> QED
    BY <2>1, <2>2
<1>6. PICK x : x = Merged(r, s, d)
  OBVIOUS
<1>7. MemOK(n) /\ SameRoot(o, n) /\ LowRead(o, n, dd, l, x)
  <2>1. CASE Conflict(r, s, d)
    <3>1. n = RemoveLow(o, dd, l) /\ x = ZeroPage
      BY <1>2, <1>6, <2>1 DEF Merged
    <3> QED
      BY <1>5, <3>1, RemoveLowOK
  <2>2. CASE ~Conflict(r, s, d)
    <3>1. x \in Page
      BY <1>3, <1>6, MergedIs
    <3>2. PICK a : a = o.tab[dd][l].a
      OBVIOUS
    <3>3. n = SetPage(o, a, x)
      BY <1>2, <1>6, <2>2, <3>2 DEF Merged
    <3> QED
      BY <1>5, <3>1, <3>2, <3>3, SetPageOK
  <2> QED
    BY <2>1, <2>2
<1>8. SameRoot(m, n)
  BY <1>5, <1>7 DEF SameRoot
<1>9. LowRead(m, n, dd, l, x)
  <2>1. o.root = m.root
    BY <1>5 DEF SameRoot
  <2> QED
    BY <1>5, <1>7, <2>1 DEF LowRead, SameReads
<1> QED
  BY <1>6, <1>7, <1>8, <1>9

(* The states of a merge. *)
Statuses == {"ok", "assert", "zerofreed"}
Merging == [m : Memory, low : Page, status : Statuses]

MergingOK(x) == x \in Merging /\ MemOK(x.m)

LEMMA MergingIs ==
    ASSUME NEW x, MergingOK(x)
    PROVE  /\ MemOK(x.m) /\ x.m \in Memory /\ x.low \in Page /\ x.status \in Statuses
           /\ x = [m |-> x.m, low |-> x.low, status |-> x.status]
  BY DEF MergingOK, Merging

(* The parts of a merge that replace one field. *)
SetStatus(x, v) == [x EXCEPT !.status = v]
SetMem(x, n) == [x EXCEPT !.m = n]
SetLow(x, v) == [x EXCEPT !.low = v]
SetBoth(x, n, v) == [x EXCEPT !.m = n, !.status = v]

LEMMA SetFieldsOK ==
    ASSUME NEW x, MergingOK(x), NEW n, MemOK(n), NEW v \in Page, NEW w \in Statuses
    PROVE  /\ MergingOK(SetStatus(x, w)) /\ SetStatus(x, w).m = x.m /\ SetStatus(x, w).status = w
           /\ MergingOK(SetMem(x, n)) /\ SetMem(x, n).m = n /\ SetMem(x, n).status = x.status
           /\ MergingOK(SetLow(x, v)) /\ SetLow(x, v).m = x.m /\ SetLow(x, v).status = x.status
           /\ MergingOK(SetBoth(x, n, w)) /\ SetBoth(x, n, w).m = n /\ SetBoth(x, n, w).status = w
<1>1. n \in Memory
  BY DEF MemOK
<1> QED
  BY <1>1, MergingIs DEF MergingOK, Merging, SetStatus, SetMem, SetLow, SetBoth

LEMMA PagesAt ==
    ASSUME NEW x, MergingOK(x), NEW d \in 0 .. NFrames, NEW l \in Lows
    PROVE  /\ PageAt(x, d, l) \in Page
           /\ d # 0 => /\ d \in Frames /\ PageAt(x, d, l) = Contents(x.m, x.m.tab[d][l])
                       /\ Pte(x, d, l) = x.m.tab[d][l]
<1>1. MemOK(x.m) /\ x.low \in Page
  BY MergingIs
<1>2. d # 0 => d \in Frames
  BY PmapAssumption DEF Frames
<1>3. d # 0 => Contents(x.m, x.m.tab[d][l]) \in Page
  BY <1>1, <1>2, PageContents
<1> QED
  BY <1>1, <1>2, <1>3 DEF PageAt, Pte

(* What one entry of the lower tables becomes, unless the merge ends there. *)
LowMerged(x, y, rd, sd, dd, l) ==
    LowRead(x.m, y.m, dd, l, Merged(Contents(x.m, x.m.tab[rd][l]), Contents(x.m, x.m.tab[sd][l]),
                                    Contents(x.m, x.m.tab[dd][l])))

LEMMA MergeLowOK ==
    ASSUME NEW x, MergingOK(x), NEW rd \in 0 .. NFrames, NEW sd \in 0 .. NFrames,
           NEW dd \in 0 .. NFrames, NEW l \in Lows, sd # 0 => IsTable(x.m, sd),
           dd # 0 => IsTable(x.m, dd), NEW y, y = MergeLow(x, rd, sd, dd, l)
    PROVE  /\ MergingOK(y) /\ SameRoot(x.m, y.m) /\ (y.status = "ok" => x.status = "ok")
           /\ y.status = "ok" /\ rd # 0 /\ sd # 0 /\ dd # 0 /\ sd # dd => LowMerged(x, y, rd, sd, dd, l)
<1>1. PICK re, se, de : re = Pte(x, rd, l) /\ se = Pte(x, sd, l) /\ de = Pte(x, dd, l)
  OBVIOUS
<1>2. PICK r, s : r = PageAt(x, rd, l) /\ s = PageAt(x, sd, l)
  OBVIOUS
<1>3. MemOK(x.m) /\ r \in Page /\ s \in Page /\ x.low \in Page /\ x.status \in Statuses
  BY <1>2, MergingIs, PagesAt
<1>4. /\ rd # 0 => rd \in Frames /\ re = x.m.tab[rd][l] /\ r = Contents(x.m, x.m.tab[rd][l])
      /\ sd # 0 => sd \in Frames /\ se = x.m.tab[sd][l] /\ s = Contents(x.m, x.m.tab[sd][l])
      /\ dd # 0 => dd \in Frames /\ de = x.m.tab[dd][l] /\ Contents(x.m, x.m.tab[dd][l]) \in Page
  BY <1>1, <1>2, <1>3, PagesAt, PageContents
<1>5. SameRoot(x.m, x.m)
  BY DEF SameRoot
<1>6. CASE x.status # "ok"
  <2>1. y = x
    BY <1>6 DEF MergeLow
  <2> QED
    BY <1>5, <1>6, <2>1
<1>7. CASE x.status = "ok" /\ se = re
  <2>1. y = x
    BY <1>1, <1>7 DEF MergeLow
  <2>2. ASSUME rd # 0, sd # 0, dd # 0 PROVE LowMerged(x, x, rd, sd, dd, l)
    <3>1. PICK d : d = Contents(x.m, x.m.tab[dd][l])
      OBVIOUS
    <3>2. r = s /\ d \in Page /\ dd \in Frames
      BY <1>4, <1>7, <2>2, <3>1
    <3>3. Merged(r, s, d) = d
      BY <1>3, <3>2, MergedIs
    <3>4. LowRead(x.m, x.m, dd, l, d)
      BY <2>2, <3>1 DEF LowRead, Reads
    <3> QED
      BY <1>4, <2>2, <3>1, <3>3, <3>4 DEF LowMerged
  <2> QED
    BY <1>5, <1>7, <2>1, <2>2
<1>8. CASE x.status = "ok" /\ se # re /\ de = re /\ 0 \in {sd, dd}
  <2>1. y = SetStatus(x, "assert")
    BY <1>1, <1>8 DEF MergeLow, SetStatus
  <2>2. MergingOK(y) /\ y.m = x.m /\ y.status = "assert"
    BY <1>3, <2>1, SetFieldsOK DEF Statuses
  <2> QED
    BY <1>5, <2>2
<1>9. CASE x.status = "ok" /\ se # re /\ de = re /\ 0 \notin {sd, dd}
  <2>1. PICK n : n = CopyLow(x.m, sd, dd, l)
    OBVIOUS
  <2>2. y = SetMem(x, n)
    BY <1>1, <1>9, <2>1 DEF MergeLow, SetMem
  <2>3. sd \in Frames /\ dd \in Frames /\ IsTable(x.m, sd) /\ IsTable(x.m, dd)
    BY <1>4, <1>9
  <2>4. /\ MemOK(n) /\ SameRoot(x.m, n)
        /\ sd # dd => LowRead(x.m, n, dd, l, Contents(x.m, x.m.tab[sd][l]))
    BY <1>3, <2>1, <2>3, CopyLowOK
  <2>5. MergingOK(y) /\ y.m = n /\ y.status = x.status
    BY <1>3, <2>2, <2>4, SetFieldsOK
  <2>6. ASSUME rd # 0, sd # dd PROVE LowMerged(x, y, rd, sd, dd, l)
    <3>1. PICK d : d = Contents(x.m, x.m.tab[dd][l])
      OBVIOUS
    <3>2. d = r
      BY <1>4, <1>9, <2>6, <3>1
    <3>3. Merged(r, s, d) = s
      BY <1>3, <3>2, MergedIs
    <3> QED
      BY <1>4, <1>9, <2>4, <2>5, <2>6, <3>1, <3>3 DEF LowMerged
  <2> QED
    BY <1>9, <2>4, <2>5, <2>6
<1>10. CASE x.status = "ok" /\ se # re /\ de # re /\ dd = 0
  <2>1. y = MergeLowPage(x, r, s)
    BY <1>1, <1>2, <1>10 DEF MergeLow
  <2>2. CASE Conflict(r, s, x.low)
    <3>1. y = SetStatus(x, "assert")
      BY <2>1, <2>2 DEF MergeLowPage, SetStatus
    <3>2. MergingOK(y) /\ y.m = x.m /\ y.status = "assert"
      BY <1>3, <3>1, SetFieldsOK DEF Statuses
    <3> QED
      BY <1>5, <3>2
  <2>3. CASE ~Conflict(r, s, x.low)
    <3>1. PICK v : v = MergedPage(r, s, x.low)
      OBVIOUS
    <3>2. y = SetLow(x, v)
      BY <2>1, <2>3, <3>1 DEF MergeLowPage, SetLow
    <3>3. v \in Page
      BY <1>3, <3>1 DEF MergedPage, Page
    <3>4. MergingOK(y) /\ y.m = x.m /\ y.status = x.status
      BY <1>3, <3>2, <3>3, SetFieldsOK
    <3> QED
      BY <1>5, <1>10, <3>4
  <2> QED
    BY <2>2, <2>3
<1>11. CASE x.status = "ok" /\ se # re /\ de # re /\ dd # 0
  <2>1. PICK n, v, d : /\ n = MergePage(x.m, r, s, dd, l) /\ v = (IF de.a = 0 THEN "zerofreed" ELSE "ok")
                       /\ d = Contents(x.m, x.m.tab[dd][l])
    OBVIOUS
  <2>2. y = SetBoth(x, n, v)
    BY <1>1, <1>2, <1>11, <2>1 DEF MergeLow, SetBoth
  <2>3. dd \in Frames /\ IsTable(x.m, dd)
    BY <1>4, <1>11
  <2>4. MemOK(n) /\ SameRoot(x.m, n) /\ LowRead(x.m, n, dd, l, Merged(r, s, d))
    BY <1>3, <2>1, <2>3, MergePageOK
  <2>5. v \in Statuses
    BY <2>1 DEF Statuses
  <2>6. MergingOK(y) /\ y.m = n
    BY <1>3, <2>2, <2>4, <2>5, SetFieldsOK
  <2>7. ASSUME rd # 0, sd # 0 PROVE LowMerged(x, y, rd, sd, dd, l)
    BY <1>4, <2>1, <2>4, <2>6, <2>7 DEF LowMerged
  <2> QED
    BY <1>11, <2>4, <2>6, <2>7
<1> QED
  BY <1>6, <1>7, <1>8, <1>9, <1>10, <1>11

(* No other entry of a root table refers to the table of d at t. *)
Alone(m, d, t) ==
    \A c \in Pmaps, q \in Tops : m.root[c][q].a = m.root[d][t].a => c = d /\ q = t

MergedAt(m, r, s, d, t, l) == Merged(Reads(m, r, t, l), Reads(m, s, t, l), Reads(m, d, t, l))

(* The three address spaces have tables at t. *)
HaveTables(m, r, s, d, t) == m.root[r][t].a # 0 /\ m.root[s][t].a # 0 /\ m.root[d][t].a # 0

(* x is the merge that began with the memory m after k entries of the table of
   d at t. *)
MergedUpTo(m, r, s, d, t, x, k) ==
    /\ MergingOK(x) /\ SameRoot(m, x.m)
    /\ x.status = "ok" /\ Alone(m, d, t) /\ HaveTables(m, r, s, d, t) =>
         \A c \in Pmaps, q \in Tops, l \in Lows :
           Reads(x.m, c, q, l) = IF c = d /\ q = t /\ l <= k THEN MergedAt(m, r, s, d, t, l)
                                 ELSE Reads(m, c, q, l)

LEMMA MergedRounds ==
    ASSUME NEW z, MergingOK(z), NEW m, m = z.m, NEW r \in Pmaps, NEW s \in Pmaps, NEW d \in Pmaps,
           r # d, s # d, NEW t \in Tops, NEW a, a[0] = z,
           \A k \in 1 .. NLows : a[k - 1] \in Merging =>
             a[k] = MergeLow(a[k - 1], m.root[r][t].a, m.root[s][t].a, m.root[d][t].a, k)
    PROVE  \A k \in 0 .. NLows : MergedUpTo(m, r, s, d, t, a[k], k)
<1> DEFINE S == {k \in 0 .. NLows : MergedUpTo(m, r, s, d, t, a[k], k)}
<1>0. NLows \in Nat
  BY PmapAssumption
<1>1. 0 \in S
  <2>1. \A l \in Lows : ~(l <= 0)
    BY <1>0 DEF Lows
  <2> QED
    BY <1>0, <2>1 DEF MergedUpTo, SameRoot
<1>2. ASSUME NEW k \in 0 .. NLows - 1, k \in S PROVE k + 1 \in S
  <2>1. k + 1 \in Lows /\ k + 1 \in 0 .. NLows /\ (k + 1) - 1 = k
    BY <1>0 DEF Lows
  <2>2. PICK x, y, j : x = a[k] /\ y = a[k + 1] /\ j = k + 1
    OBVIOUS
  <2>3. MergedUpTo(m, r, s, d, t, x, k)
    BY <1>2, <2>2
  <2>4. MergingOK(x) /\ x \in Merging /\ SameRoot(m, x.m) /\ j \in Lows
    BY <2>1, <2>2, <2>3 DEF MergedUpTo, MergingOK
  <2>5. PICK rd, sd, dd : rd = m.root[r][t].a /\ sd = m.root[s][t].a /\ dd = m.root[d][t].a
    OBVIOUS
  <2>6. y = MergeLow(x, rd, sd, dd, j)
    BY <2>1, <2>2, <2>4, <2>5 DEF Lows
  <2>7. rd \in 0 .. NFrames /\ sd \in 0 .. NFrames /\ dd \in 0 .. NFrames
    <3>1. MemOK(m)
      BY MergingIs
    <3> QED
      BY <2>5, <3>1 DEF MemOK, Memory, Entry
  <2>8. x.m.root[r][t].a = rd /\ x.m.root[s][t].a = sd /\ x.m.root[d][t].a = dd
    BY <2>4, <2>5 DEF SameRoot
  <2>9. (sd # 0 => IsTable(x.m, sd)) /\ (dd # 0 => IsTable(x.m, dd))
    BY <2>8 DEF IsTable
  <2>10. PICK v : v = Merged(Contents(x.m, x.m.tab[rd][j]), Contents(x.m, x.m.tab[sd][j]),
                             Contents(x.m, x.m.tab[dd][j]))
    OBVIOUS
  <2>11. /\ MergingOK(y) /\ SameRoot(x.m, y.m) /\ (y.status = "ok" => x.status = "ok")
         /\ y.status = "ok" /\ rd # 0 /\ sd # 0 /\ dd # 0 /\ sd # dd => LowMerged(x, y, rd, sd, dd, j)
    BY <2>4, <2>6, <2>7, <2>9, MergeLowOK
  <2>12. \A l \in Lows : (l <= j <=> l <= k \/ l = j) /\ ~(j <= k)
    BY <1>0, <2>1, <2>2 DEF Lows
  <2>13. SameRoot(m, y.m)
    BY <2>4, <2>11 DEF SameRoot
  <2>14. ASSUME y.status = "ok", Alone(m, d, t), HaveTables(m, r, s, d, t)
         PROVE  \A c \in Pmaps, q \in Tops, l \in Lows :
                  Reads(y.m, c, q, l) = IF c = d /\ q = t /\ l <= j THEN MergedAt(m, r, s, d, t, l)
                                        ELSE Reads(m, c, q, l)
    <3>1. sd # dd /\ \A c \in Pmaps, q \in Tops : x.m.root[c][q].a = dd <=> c = d /\ q = t
      BY <2>4, <2>5, <2>14 DEF Alone, SameRoot
    <3>2. \A c \in Pmaps, q \in Tops, l \in Lows :
            Reads(x.m, c, q, l) = IF c = d /\ q = t /\ l <= k THEN MergedAt(m, r, s, d, t, l)
                                  ELSE Reads(m, c, q, l)
      BY <2>3, <2>11, <2>14 DEF MergedUpTo
    <3>7. rd # 0 /\ sd # 0 /\ dd # 0
      BY <2>5, <2>14 DEF HaveTables
    <3>8. LowRead(x.m, y.m, dd, j, v)
      BY <2>10, <2>11, <2>14, <3>1, <3>7 DEF LowMerged
    <3>3. \A c \in Pmaps, q \in Tops, l \in Lows :
            Reads(y.m, c, q, l) = IF c = d /\ q = t /\ l = j THEN v ELSE Reads(x.m, c, q, l)
      BY <3>1, <3>8 DEF LowRead
    <3>4. /\ Contents(x.m, x.m.tab[rd][j]) = Reads(x.m, r, t, j)
          /\ Contents(x.m, x.m.tab[sd][j]) = Reads(x.m, s, t, j)
          /\ Contents(x.m, x.m.tab[dd][j]) = Reads(x.m, d, t, j)
      BY <2>8, <3>7 DEF Reads
    <3>5. /\ Reads(x.m, r, t, j) = Reads(m, r, t, j) /\ Reads(x.m, s, t, j) = Reads(m, s, t, j)
          /\ Reads(x.m, d, t, j) = Reads(m, d, t, j)
      BY <2>4, <2>12, <3>2
    <3>6. v = MergedAt(m, r, s, d, t, j)
      BY <2>10, <3>4, <3>5 DEF MergedAt
    <3> QED
      BY <2>12, <3>2, <3>3, <3>6
  <2>15. MergedUpTo(m, r, s, d, t, y, j)
    BY <2>11, <2>13, <2>14 DEF MergedUpTo
  <2> QED
    BY <2>1, <2>2, <2>15
<1>3. 0 \in S /\ \A k \in 0 .. NLows - 1 : k \in S => k + 1 \in S
  BY <1>1, <1>2
<1>4. \A k \in 0 .. NLows : k \in S
  <2> HIDE DEF S
  <2> QED BY <1>0, <1>3, Induction
<1> QED
  BY <1>4

MergedRows(n, re, se, de) ==
    CHOOSE a : a = [l \in 0 .. NLows |-> IF l = 0 THEN n ELSE MergeLow(a[l - 1], re, se, de, l)]

LEMMA MergedRowsOK ==
    ASSUME NEW z, MergingOK(z), NEW m, m = z.m, NEW r \in Pmaps, NEW s \in Pmaps, NEW d \in Pmaps,
           r # d, s # d, NEW t \in Tops, NEW rd, NEW sd, NEW dd,
           rd = m.root[r][t].a, sd = m.root[s][t].a, dd = m.root[d][t].a
    PROVE  MergedUpTo(m, r, s, d, t, MergedRows(z, rd, sd, dd)[NLows], NLows)
<1> DEFINE g == [p \in Merging \X (1 .. NLows) |-> MergeLow(p[1], rd, sd, dd, p[2])]
<1>0. NLows \in Nat
  BY PmapAssumption
<1>1. PICK a : Rounds(a, NLows, z, g)
  <2> HIDE DEF g
  <2> QED BY <1>0, Loop
<1>2. /\ a[0] = z /\ a = [k \in 0 .. NLows |-> a[k]]
      /\ \A k \in 1 .. NLows : a[k] = g[<<a[k - 1], k>>]
  <2> HIDE DEF g
  <2> QED BY <1>0, <1>1, RoundsAre
<1>3. \A k \in 1 .. NLows : a[k - 1] \in Merging => a[k] = MergeLow(a[k - 1], rd, sd, dd, k)
  BY <1>2
<1>4. \A k \in 0 .. NLows : MergedUpTo(m, r, s, d, t, a[k], k)
  <2> HIDE DEF g
  <2> QED
    BY <1>2, <1>3, MergedRounds
<1>5. ASSUME NEW k \in 0 .. NLows
      PROVE  a[k] = IF k = 0 THEN z ELSE MergeLow(a[k - 1], rd, sd, dd, k)
  <2>1. CASE k = 0
    BY <1>2, <2>1
  <2>2. CASE k # 0
    <3>1. k \in 1 .. NLows /\ k - 1 \in 0 .. NLows
      BY <1>0, <2>2
    <3>2. a[k - 1] \in Merging
      BY <1>4, <3>1 DEF MergedUpTo, MergingOK
    <3> QED
      BY <1>3, <2>2, <3>1, <3>2
  <2> QED
    BY <2>1, <2>2
<1>6. \E b : b = [l \in 0 .. NLows |-> IF l = 0 THEN z ELSE MergeLow(b[l - 1], rd, sd, dd, l)]
  <2>1. a = [l \in 0 .. NLows |-> IF l = 0 THEN z ELSE MergeLow(a[l - 1], rd, sd, dd, l)]
    BY <1>2, <1>5, Zenon
  <2> QED
    BY <2>1
<1>7. PICK b : b = MergedRows(z, rd, sd, dd)
  OBVIOUS
<1>8. b = [l \in 0 .. NLows |-> IF l = 0 THEN z ELSE MergeLow(b[l - 1], rd, sd, dd, l)]
  BY <1>6, <1>7 DEF MergedRows
<1>9. b[0] = z /\ \A k \in 1 .. NLows : b[k] = MergeLow(b[k - 1], rd, sd, dd, k)
  BY <1>0, <1>8
<1>10. \A k \in 0 .. NLows : MergedUpTo(m, r, s, d, t, b[k], k)
  BY <1>9, MergedRounds
<1>11. NLows \in 0 .. NLows
  BY <1>0
<1>12. MergedUpTo(m, r, s, d, t, b[NLows], NLows)
  BY <1>10, <1>11, Zenon
<1> QED
  BY <1>7, <1>12, Zenon

(* What the address spaces read after the tables at t have been merged. *)
TopMerged(m, n, r, s, d, t) ==
    \A c \in Pmaps, q \in Tops, l \in Lows :
      Reads(n, c, q, l) = IF c = d /\ q = t THEN MergedAt(m, r, s, d, t, l) ELSE Reads(m, c, q, l)

LEMMA PageReads ==
    ASSUME NEW m, MemOK(m), NEW s \in Pmaps, NEW t \in Tops, NEW l \in Lows
    PROVE  Reads(m, s, t, l) \in Page
<1>1. CASE m.root[s][t].a = 0
  BY <1>1 DEF Reads, ZeroPage, Page
<1>2. CASE m.root[s][t].a # 0
  <2>1. m.root[s][t].a \in Frames
    BY <1>2, TopRefs
  <2>2. Contents(m, m.tab[m.root[s][t].a][l]) \in Page
    BY <2>1, PageContents
  <2> QED
    BY <1>2, <2>2 DEF Reads
<1> QED
  BY <1>1, <1>2

LEMMA MergeTopOK ==
    ASSUME NEW z, MergingOK(z), NEW m, m = z.m, NEW r \in Pmaps, NEW s \in Pmaps, NEW d \in Pmaps,
           r # d, s # d, NEW t \in Tops, NEW y, y = MergeTop(z, r, s, d, t)
    PROVE  /\ MergingOK(y)
           /\ \/ m.root[s][t] # m.root[r][t] /\ m.root[d][t] # m.root[r][t] /\ InUse(m, d, t)
              \/ m.root[s][t] # m.root[r][t] /\ m.root[d][t] # m.root[r][t] /\ ~HaveTables(m, r, s, d, t)
              \/ y.status # "ok"
              \/ TopMerged(m, y.m, r, s, d, t)
<1>a. MemOK(m) /\ z.low \in Page /\ z.status \in Statuses
  BY MergingIs
<1>0. \A c \in Pmaps, l \in Lows : Reads(m, c, t, l) \in Page
  BY <1>a, PageReads
<1>1. CASE m.root[s][t] = m.root[r][t]
  <2>1. y = z
    BY <1>1 DEF MergeTop
  <2>2. \A l \in Lows : Reads(m, s, t, l) = Reads(m, r, t, l)
    BY <1>1 DEF Reads
  <2>3. \A l \in Lows : MergedAt(m, r, s, d, t, l) = Reads(m, d, t, l)
    BY <1>0, <2>2, MergedIs DEF MergedAt
  <2> QED
    BY <2>1, <2>3 DEF TopMerged
<1>2. CASE m.root[s][t] # m.root[r][t] /\ m.root[d][t] = m.root[r][t]
  <2>1. PICK n : n = CopyTop(m, s, d, t)
    OBVIOUS
  <2>5. y = SetMem(z, n)
    BY <1>2, <2>1 DEF MergeTop, SetMem
  <2>2. MemOK(n) /\ TopCopied(m, n, s, d, t)
    BY <1>a, <2>1, CopyTopOK
  <2>6. MergingOK(y) /\ y.m = n
    BY <1>a, <2>2, <2>5, SetFieldsOK
  <2>3. \A l \in Lows : Reads(m, d, t, l) = Reads(m, r, t, l)
    BY <1>2 DEF Reads
  <2>4. \A l \in Lows : MergedAt(m, r, s, d, t, l) = Reads(m, s, t, l)
    BY <1>0, <2>3, MergedIs DEF MergedAt
  <2> QED
    BY <2>2, <2>4, <2>6 DEF TopMerged, TopCopied
<1>3. CASE m.root[s][t] # m.root[r][t] /\ m.root[d][t] # m.root[r][t]
  <2>1. PICK rd, sd, dd : rd = m.root[r][t].a /\ sd = m.root[s][t].a /\ dd = m.root[d][t].a
    OBVIOUS
  <2>2. y = MergedRows(z, rd, sd, dd)[NLows]
    BY <1>3, <2>1 DEF MergeTop, MergedRows
  <2>3. MergedUpTo(m, r, s, d, t, y, NLows)
    BY <2>1, <2>2, MergedRowsOK
  <2>4. MergingOK(y)
    BY <2>3 DEF MergedUpTo
  <2>5. ASSUME ~InUse(m, d, t), HaveTables(m, r, s, d, t), y.status = "ok"
        PROVE  TopMerged(m, y.m, r, s, d, t)
    <3>1. Alone(m, d, t)
      <4>1. m.root[d][t].a # 0 /\ m.ref[m.root[d][t].a] = 1
        BY <1>a, <2>5, NotInUse DEF HaveTables
      <4> QED
        BY <1>a, <4>1, TopRefs DEF Alone
    <3>2. \A l \in Lows : l <= NLows
      BY PmapAssumption DEF Lows
    <3> QED
      BY <2>3, <2>5, <3>1, <3>2 DEF MergedUpTo, TopMerged
  <2> QED
    BY <1>3, <2>4, <2>5
<1> QED
  BY <1>1, <1>2, <1>3

-----------------------------------------------------------------------------
(* Snapshots *)

(* x is m after the first k tables of s have been copied to d. *)
CopiedUpTo(m, s, d, x, k) ==
    /\ MemOK(x)
    /\ \A c \in Pmaps, q \in Tops, l \in Lows :
         Reads(x, c, q, l) = IF c = d /\ q <= k THEN Reads(m, s, q, l) ELSE Reads(m, c, q, l)

LEMMA CopiedTops ==
    ASSUME NEW m, MemOK(m), NEW s \in Pmaps, NEW d \in Pmaps, s # d, NEW a, a[0] = m,
           \A k \in 1 .. NTops : a[k - 1] \in Memory => a[k] = CopyTop(a[k - 1], s, d, k)
    PROVE  \A k \in 0 .. NTops : CopiedUpTo(m, s, d, a[k], k)
<1> DEFINE S == {k \in 0 .. NTops : CopiedUpTo(m, s, d, a[k], k)}
<1>0. NTops \in Nat
  BY PmapAssumption
<1>1. 0 \in S
  <2>1. \A q \in Tops : ~(q <= 0)
    BY <1>0 DEF Tops
  <2> QED
    BY <1>0, <2>1 DEF CopiedUpTo
<1>2. ASSUME NEW k \in 0 .. NTops - 1, k \in S PROVE k + 1 \in S
  <2>1. k + 1 \in Tops /\ k + 1 \in 0 .. NTops /\ (k + 1) - 1 = k
    BY <1>0 DEF Tops
  <2>2. PICK x, y, j : x = a[k] /\ y = a[k + 1] /\ j = k + 1
    OBVIOUS
  <2>3. CopiedUpTo(m, s, d, x, k)
    BY <1>2, <2>2
  <2>4. MemOK(x) /\ x \in Memory /\ j \in Tops
    BY <2>1, <2>2, <2>3 DEF CopiedUpTo, MemOK
  <2>5. y = CopyTop(x, s, d, j)
    BY <2>1, <2>2, <2>4 DEF Tops
  <2>6. MemOK(y) /\ TopCopied(x, y, s, d, j)
    BY <2>4, <2>5, CopyTopOK
  <2>7. \A q \in Tops : q <= j <=> q <= k \/ q = j
    BY <1>0, <2>1, <2>2 DEF Tops
  <2>8. ASSUME NEW c \in Pmaps, NEW q \in Tops, NEW l \in Lows
        PROVE  Reads(y, c, q, l) = IF c = d /\ q <= j THEN Reads(m, s, q, l) ELSE Reads(m, c, q, l)
    <3>1. Reads(x, s, j, l) = Reads(m, s, j, l)
      BY <2>3, <2>4 DEF CopiedUpTo
    <3>2. Reads(x, c, q, l) = IF c = d /\ q <= k THEN Reads(m, s, q, l) ELSE Reads(m, c, q, l)
      BY <2>3 DEF CopiedUpTo
    <3>3. Reads(y, c, q, l) = IF c = d /\ q = j THEN Reads(x, s, j, l) ELSE Reads(x, c, q, l)
      BY <2>6 DEF TopCopied
    <3> QED
      BY <2>7, <3>1, <3>2, <3>3
  <2>9. CopiedUpTo(m, s, d, y, j)
    BY <2>6, <2>8 DEF CopiedUpTo
  <2> QED
    BY <2>1, <2>2, <2>9
<1>3. 0 \in S /\ \A k \in 0 .. NTops - 1 : k \in S => k + 1 \in S
  BY <1>1, <1>2
<1>4. \A k \in 0 .. NTops : k \in S
  <2> HIDE DEF S
  <2> QED BY <1>0, <1>3, Induction
<1> QED
  BY <1>4

CopiedSpaces(m, s, d) ==
    CHOOSE a : a = [t \in 0 .. NTops |-> IF t = 0 THEN m ELSE CopyTop(a[t - 1], s, d, t)]

(* n reads as m except that d reads what m reads in s. *)
AllCopied(m, n, s, d) ==
    \A c \in Pmaps, q \in Tops, l \in Lows :
      Reads(n, c, q, l) = IF c = d THEN Reads(m, s, q, l) ELSE Reads(m, c, q, l)

LEMMA CopyAllOK ==
    ASSUME NEW m, MemOK(m), NEW s \in Pmaps, NEW d \in Pmaps, s # d, NEW n, n = CopyAll(m, s, d)
    PROVE  MemOK(n) /\ AllCopied(m, n, s, d)
<1> DEFINE g == [p \in Memory \X (1 .. NTops) |-> CopyTop(p[1], s, d, p[2])]
<1>0. NTops \in Nat
  BY PmapAssumption
<1>1. PICK a : Rounds(a, NTops, m, g)
  <2> HIDE DEF g
  <2> QED BY <1>0, Loop
<1>2. /\ a[0] = m /\ a = [k \in 0 .. NTops |-> a[k]]
      /\ \A k \in 1 .. NTops : a[k] = g[<<a[k - 1], k>>]
  <2> HIDE DEF g
  <2> QED BY <1>0, <1>1, RoundsAre
<1>3. \A k \in 1 .. NTops : a[k - 1] \in Memory => a[k] = CopyTop(a[k - 1], s, d, k)
  BY <1>2
<1>4. \A k \in 0 .. NTops : CopiedUpTo(m, s, d, a[k], k)
  <2> HIDE DEF g
  <2> QED
    BY <1>2, <1>3, CopiedTops
<1>5. ASSUME NEW k \in 0 .. NTops
      PROVE  a[k] = IF k = 0 THEN m ELSE CopyTop(a[k - 1], s, d, k)
  <2>1. CASE k = 0
    BY <1>2, <2>1
  <2>2. CASE k # 0
    <3>1. k \in 1 .. NTops /\ k - 1 \in 0 .. NTops
      BY <1>0, <2>2
    <3>2. a[k - 1] \in Memory
      BY <1>4, <3>1 DEF CopiedUpTo, MemOK
    <3> QED
      BY <1>3, <2>2, <3>1, <3>2
  <2> QED
    BY <2>1, <2>2
<1>6. \E b : b = [t \in 0 .. NTops |-> IF t = 0 THEN m ELSE CopyTop(b[t - 1], s, d, t)]
  <2>1. a = [t \in 0 .. NTops |-> IF t = 0 THEN m ELSE CopyTop(a[t - 1], s, d, t)]
    BY <1>2, <1>5, Zenon
  <2> QED
    BY <2>1
<1>7. PICK b : b = CopiedSpaces(m, s, d)
  OBVIOUS
<1>8. b = [t \in 0 .. NTops |-> IF t = 0 THEN m ELSE CopyTop(b[t - 1], s, d, t)]
  BY <1>6, <1>7 DEF CopiedSpaces
<1>9. b[0] = m /\ \A k \in 1 .. NTops : b[k] = CopyTop(b[k - 1], s, d, k)
  BY <1>0, <1>8
<1>10. \A k \in 0 .. NTops : CopiedUpTo(m, s, d, b[k], k)
  BY <1>9, CopiedTops
<1>11. n = b[NTops]
  BY <1>7 DEF CopyAll, CopiedSpaces
<1>12. CopiedUpTo(m, s, d, n, NTops)
  BY <1>0, <1>10, <1>11
<1>13. \A q \in Tops : q <= NTops
  BY <1>0 DEF Tops
<1> QED
  BY <1>12, <1>13 DEF CopiedUpTo, AllCopied

-----------------------------------------------------------------------------
(* The initial memory state *)

AllZero(m) == \A s \in Pmaps, t \in Tops, l \in Lows : Reads(m, s, t, l) = ZeroPage

LEMMA UnusedOK == MemOK(Unused) /\ AllZero(Unused)
<1>0. PICK m : m = Unused
  OBVIOUS
<1>1. m \in Memory
  <2>1. EmptyTable \in [Lows -> Entry] /\ PTE_ZERO \in Entry /\ ZeroPage \in Page
    BY Entries DEF EmptyTable, ZeroPage, Page
  <2> QED
    BY <1>0, <2>1 DEF Unused, Memory
<1>2. \A s \in Pmaps, t \in Tops : m.root[s][t].a = 0 /\ ~m.root[s][t].w
  BY <1>0, Entries DEF Unused
<1>3. \A f \in Frames, l \in Lows : m.tab[f][l].a = 0
  BY <1>0, Entries DEF Unused, EmptyTable
<1>4. Exact(m)
  <2> SUFFICES ASSUME NEW f \in Frames
               PROVE  m.ref[f] = Cardinality(RootRefs(m, f)) + Cardinality(TabRefs(m, f))
    BY DEF Exact
  <2>1. f # 0
    BY DEF Frames
  <2>2. RootRefs(m, f) = {} /\ TabRefs(m, f) = {}
    BY <1>2, <1>3, <2>1 DEF RootRefs, TabRefs
  <2>3. m.ref[f] = 0
    BY <1>0 DEF Unused
  <2>4. Cardinality({}) = 0
    BY FS_EmptySet
  <2> QED
    BY <2>2, <2>3, <2>4
<1>5. Kinds(m) /\ Tables(m) /\ Own(m)
  BY <1>2, <1>3 DEF Kinds, Tables, Own
<1>6. AllZero(m)
  BY <1>2 DEF AllZero, Reads
<1> QED
  BY <1>0, <1>1, <1>4, <1>5, <1>6 DEF MemOK

LoadedTable(s, t, x) == MemOK(x) /\ AllZero(x) /\ x.root[s][t].a \in Frames

LEMMA LoadedLows ==
    ASSUME NEW m, MemOK(m), AllZero(m), NEW s \in Pmaps, NEW t \in Tops, NEW a, a[0] = Unshare(m, s, t),
           \A k \in 1 .. NLows : a[k - 1] \in Memory =>
             a[k] = NewPage(a[k - 1], a[k - 1].root[s][t].a, k, ZeroPage)
    PROVE  \A k \in 0 .. NLows : LoadedTable(s, t, a[k])
<1> DEFINE S == {k \in 0 .. NLows : LoadedTable(s, t, a[k])}
<1>0. NLows \in Nat
  BY PmapAssumption
<1>1. 0 \in S
  <2>1. PICK x : x = a[0]
    OBVIOUS
  <2>2. MemOK(x) /\ x.root[s][t].a \in Frames /\ SameReads(m, x)
    BY <2>1, UnshareOK
  <2>3. AllZero(x)
    BY <2>2 DEF AllZero, SameReads
  <2> QED
    BY <1>0, <2>1, <2>2, <2>3 DEF LoadedTable
<1>2. ASSUME NEW k \in 0 .. NLows - 1, k \in S PROVE k + 1 \in S
  <2>1. k + 1 \in Lows /\ k + 1 \in 0 .. NLows /\ (k + 1) - 1 = k
    BY <1>0 DEF Lows
  <2>2. PICK x, y, j : x = a[k] /\ y = a[k + 1] /\ j = k + 1
    OBVIOUS
  <2>3. MemOK(x) /\ x \in Memory /\ AllZero(x) /\ x.root[s][t].a \in Frames /\ j \in Lows
    BY <1>2, <2>1, <2>2 DEF LoadedTable, MemOK
  <2>4. PICK d : d = x.root[s][t].a
    OBVIOUS
  <2>5. y = NewPage(x, d, j, ZeroPage)
    BY <2>1, <2>2, <2>3, <2>4 DEF Lows
  <2>6. IsTable(x, d) /\ d \in Frames /\ ZeroPage \in Page
    BY <2>3, <2>4 DEF IsTable, ZeroPage, Page
  <2>7. MemOK(y) /\ SameRoot(x, y) /\ LowRead(x, y, d, j, ZeroPage)
    BY <2>3, <2>5, <2>6, NewPageOK
  <2>8. AllZero(y)
    BY <2>3, <2>7 DEF AllZero, LowRead
  <2>9. LoadedTable(s, t, y)
    BY <2>3, <2>7, <2>8 DEF LoadedTable, SameRoot
  <2> QED
    BY <2>1, <2>2, <2>9
<1>3. 0 \in S /\ \A k \in 0 .. NLows - 1 : k \in S => k + 1 \in S
  BY <1>1, <1>2
<1>4. \A k \in 0 .. NLows : k \in S
  <2> HIDE DEF S
  <2> QED BY <1>0, <1>3, Induction
<1> QED
  BY <1>4

LoadedRows(m, s, t) ==
    CHOOSE a : a = [l \in 0 .. NLows |->
                      IF l = 0 THEN Unshare(m, s, t)
                      ELSE NewPage(a[l - 1], a[l - 1].root[s][t].a, l, ZeroPage)]

LEMMA LoadTableOK ==
    ASSUME NEW m, MemOK(m), AllZero(m), NEW s \in Pmaps, NEW t \in Tops,
           NEW n, n = LoadTable(m, s, t)
    PROVE  MemOK(n) /\ AllZero(n)
<1> DEFINE g == [p \in Memory \X (1 .. NLows) |-> NewPage(p[1], p[1].root[s][t].a, p[2], ZeroPage)]
           m0 == Unshare(m, s, t)
<1>0. NLows \in Nat
  BY PmapAssumption
<1>1. PICK a : Rounds(a, NLows, m0, g)
  <2> HIDE DEF g, m0
  <2> QED BY <1>0, Loop
<1>2. /\ a[0] = m0 /\ a = [k \in 0 .. NLows |-> a[k]]
      /\ \A k \in 1 .. NLows : a[k] = g[<<a[k - 1], k>>]
  <2> HIDE DEF g, m0
  <2> QED BY <1>0, <1>1, RoundsAre
<1>3. \A k \in 1 .. NLows : a[k - 1] \in Memory =>
        a[k] = NewPage(a[k - 1], a[k - 1].root[s][t].a, k, ZeroPage)
  BY <1>2
<1>4. \A k \in 0 .. NLows : LoadedTable(s, t, a[k])
  <2>1. a[0] = Unshare(m, s, t)
    BY <1>2
  <2> HIDE DEF g, m0
  <2> QED
    BY <1>3, <2>1, LoadedLows
<1>5. ASSUME NEW k \in 0 .. NLows
      PROVE  a[k] = IF k = 0 THEN m0 ELSE NewPage(a[k - 1], a[k - 1].root[s][t].a, k, ZeroPage)
  <2>1. CASE k = 0
    BY <1>2, <2>1
  <2>2. CASE k # 0
    <3>1. k \in 1 .. NLows /\ k - 1 \in 0 .. NLows
      BY <1>0, <2>2
    <3>2. a[k - 1] \in Memory
      BY <1>4, <3>1 DEF LoadedTable, MemOK
    <3> QED
      BY <1>3, <2>2, <3>1, <3>2
  <2> QED
    BY <2>1, <2>2
<1>6. \E b : b = [l \in 0 .. NLows |-> IF l = 0 THEN m0
                                       ELSE NewPage(b[l - 1], b[l - 1].root[s][t].a, l, ZeroPage)]
  <2>1. a = [l \in 0 .. NLows |-> IF l = 0 THEN m0
                                  ELSE NewPage(a[l - 1], a[l - 1].root[s][t].a, l, ZeroPage)]
    BY <1>2, <1>5, Zenon
  <2> QED
    BY <2>1
<1>7. PICK b : b = LoadedRows(m, s, t)
  OBVIOUS
<1>8. b = [l \in 0 .. NLows |-> IF l = 0 THEN m0
                                ELSE NewPage(b[l - 1], b[l - 1].root[s][t].a, l, ZeroPage)]
  BY <1>6, <1>7 DEF LoadedRows
<1>9. /\ b[0] = m0
      /\ \A k \in 1 .. NLows : b[k] = NewPage(b[k - 1], b[k - 1].root[s][t].a, k, ZeroPage)
  <2> HIDE DEF m0
  <2>1. 0 \in 0 .. NLows /\ \A k \in 1 .. NLows : k \in 0 .. NLows /\ k # 0
    BY <1>0
  <2>2. \A k \in 0 .. NLows :
          b[k] = IF k = 0 THEN m0 ELSE NewPage(b[k - 1], b[k - 1].root[s][t].a, k, ZeroPage)
    BY <1>8, Zenon
  <2>3. b[0] = m0
    BY <2>1, <2>2, Zenon
  <2>4. \A k \in 1 .. NLows : b[k] = NewPage(b[k - 1], b[k - 1].root[s][t].a, k, ZeroPage)
    BY <2>1, <2>2, Zenon
  <2> QED
    BY <2>3, <2>4
<1>10. \A k \in 0 .. NLows : LoadedTable(s, t, b[k])
  BY <1>9, LoadedLows
<1>11. n = b[NLows]
  BY <1>7 DEF LoadTable, LoadedRows
<1> QED
  BY <1>0, <1>10, <1>11 DEF LoadedTable

LEMMA LoadedTops ==
    ASSUME NEW s \in Pmaps, NEW a, a[0] = Unused,
           \A k \in 1 .. NTops : a[k - 1] \in Memory => a[k] = LoadTable(a[k - 1], s, k)
    PROVE  \A k \in 0 .. NTops : MemOK(a[k]) /\ AllZero(a[k])
<1> DEFINE S == {k \in 0 .. NTops : MemOK(a[k]) /\ AllZero(a[k])}
<1>0. NTops \in Nat
  BY PmapAssumption
<1>1. 0 \in S
  BY <1>0, UnusedOK
<1>2. ASSUME NEW k \in 0 .. NTops - 1, k \in S PROVE k + 1 \in S
  <2>1. k + 1 \in Tops /\ k + 1 \in 0 .. NTops /\ (k + 1) - 1 = k
    BY <1>0 DEF Tops
  <2>2. PICK x, y, j : x = a[k] /\ y = a[k + 1] /\ j = k + 1
    OBVIOUS
  <2>3. MemOK(x) /\ x \in Memory /\ AllZero(x) /\ j \in Tops
    BY <1>2, <2>1, <2>2 DEF MemOK
  <2>4. y = LoadTable(x, s, j)
    BY <2>1, <2>2, <2>3 DEF Tops
  <2>5. MemOK(y) /\ AllZero(y)
    BY <2>3, <2>4, LoadTableOK
  <2> QED
    BY <2>1, <2>2, <2>5
<1>3. 0 \in S /\ \A k \in 0 .. NTops - 1 : k \in S => k + 1 \in S
  BY <1>1, <1>2
<1>4. \A k \in 0 .. NTops : k \in S
  <2> HIDE DEF S
  <2> QED BY <1>0, <1>3, Induction
<1> QED
  BY <1>4

LoadedSpaces(s) ==
    CHOOSE a : a = [t \in 0 .. NTops |-> IF t = 0 THEN Unused ELSE LoadTable(a[t - 1], s, t)]

LEMMA LoadOK ==
    ASSUME NEW s \in Pmaps, NEW n, n = Load(s)
    PROVE  MemOK(n) /\ AllZero(n)
<1> DEFINE g == [p \in Memory \X (1 .. NTops) |-> LoadTable(p[1], s, p[2])]
<1>0. NTops \in Nat
  BY PmapAssumption
<1>1. PICK a : Rounds(a, NTops, Unused, g)
  <2> HIDE DEF g
  <2> QED BY <1>0, Loop
<1>2. /\ a[0] = Unused /\ a = [k \in 0 .. NTops |-> a[k]]
      /\ \A k \in 1 .. NTops : a[k] = g[<<a[k - 1], k>>]
  <2> HIDE DEF g
  <2> QED BY <1>0, <1>1, RoundsAre
<1>3. \A k \in 1 .. NTops : a[k - 1] \in Memory => a[k] = LoadTable(a[k - 1], s, k)
  BY <1>2
<1>4. \A k \in 0 .. NTops : MemOK(a[k]) /\ AllZero(a[k])
  <2> HIDE DEF g
  <2> QED
    BY <1>2, <1>3, LoadedTops
<1>5. ASSUME NEW k \in 0 .. NTops
      PROVE  a[k] = IF k = 0 THEN Unused ELSE LoadTable(a[k - 1], s, k)
  <2>1. CASE k = 0
    BY <1>2, <2>1
  <2>2. CASE k # 0
    <3>1. k \in 1 .. NTops /\ k - 1 \in 0 .. NTops
      BY <1>0, <2>2
    <3>2. a[k - 1] \in Memory
      BY <1>4, <3>1 DEF MemOK
    <3> QED
      BY <1>3, <2>2, <3>1, <3>2
  <2> QED
    BY <2>1, <2>2
<1>6. \E b : b = [t \in 0 .. NTops |-> IF t = 0 THEN Unused ELSE LoadTable(b[t - 1], s, t)]
  <2>1. a = [t \in 0 .. NTops |-> IF t = 0 THEN Unused ELSE LoadTable(a[t - 1], s, t)]
    BY <1>2, <1>5, Zenon
  <2> QED
    BY <2>1
<1>7. PICK b : b = LoadedSpaces(s)
  OBVIOUS
<1>8. b = [t \in 0 .. NTops |-> IF t = 0 THEN Unused ELSE LoadTable(b[t - 1], s, t)]
  BY <1>6, <1>7 DEF LoadedSpaces
<1>9. b[0] = Unused /\ \A k \in 1 .. NTops : b[k] = LoadTable(b[k - 1], s, k)
  BY <1>0, <1>8
<1>10. \A k \in 0 .. NTops : MemOK(b[k]) /\ AllZero(b[k])
  BY <1>9, LoadedTops
<1>11. n = b[NTops]
  BY <1>7 DEF Load, LoadedSpaces
<1> QED
  BY <1>0, <1>10, <1>11

-----------------------------------------------------------------------------
(* The invariant of the specification *)

Spaces == [Pmaps -> [Tops -> [Lows -> Page]]]

Agrees(m, M) == \A s \in Pmaps, t \in Tops, l \in Lows : Reads(m, s, t, l) = M[s][t][l]

Inv ==
    /\ MemOK(pm) /\ low \in Page /\ status \in Statuses
    /\ mem \in Spaces /\ snapped \subseteq Children /\ shared \in BOOLEAN /\ missing \in BOOLEAN
    /\ status = "ok" /\ ~shared /\ ~missing => Agrees(pm, mem)

(* What every operation but a merge leaves alone. *)
NoMerge == missing' = missing /\ low' = low /\ status' = status

LEMMA Maps ==
    /\ "p" \in Procs /\ Children \subseteq Procs
    /\ \A c \in Procs : Pml4(c) \in Pmaps
    /\ \A c \in Children : Snap(c) \in Pmaps /\ Pml4(c) # Pml4("p") /\ c # "p"
    /\ \A c \in Children, q \in Procs : Snap(c) # Pml4(q)
  BY PmapAssumption DEF Procs, Pmaps, Pml4, Snap

LEMMA InitOK == Init => Inv
<1> SUFFICES ASSUME Init PROVE Inv
  OBVIOUS
<1>1. Pml4("p") \in Pmaps
  BY Maps
<1>2. MemOK(pm) /\ AllZero(pm)
  BY <1>1, LoadOK DEF Init
<1>3. ZeroPage \in Page
  BY DEF ZeroPage, Page
<1>4. mem \in Spaces /\ \A s \in Pmaps, t \in Tops, l \in Lows : mem[s][t][l] = ZeroPage
  BY <1>3 DEF Init, Spaces
<1>5. Agrees(pm, mem)
  BY <1>2, <1>4 DEF Agrees, AllZero
<1> QED
  BY <1>2, <1>4, <1>5, PmapAssumption DEF Inv, Init, Page, Statuses

LEMMA DoOK ==
    ASSUME NEW n, NEW M, Do(n, M), MemOK(n), M \in Spaces, (snapped \subseteq Children)',
           (shared \in BOOLEAN)', Inv, NoMerge,
           ~shared' /\ ~missing => Agrees(n, M)
    PROVE  Inv'
  BY DEF Do, Inv, NoMerge

(* Replacing a page, or a table of pages. *)
SetOne(M, s, t, l, x) == [M EXCEPT ![s][t][l] = x]
SetAll(M, s, t, x) == [M EXCEPT ![s][t] = x]

LEMMA SetOneOK ==
    ASSUME NEW M \in Spaces, NEW s \in Pmaps, NEW t \in Tops, NEW l \in Lows, NEW x \in Page,
           NEW N, N = SetOne(M, s, t, l, x)
    PROVE  /\ N \in Spaces
           /\ \A c \in Pmaps, q \in Tops, k \in Lows :
                N[c][q][k] = IF c = s /\ q = t /\ k = l THEN x ELSE M[c][q][k]
  BY DEF Spaces, SetOne

LEMMA SetAllOK ==
    ASSUME NEW M \in Spaces, NEW s \in Pmaps, NEW t \in Tops, NEW x \in [Lows -> Page],
           NEW N, N = SetAll(M, s, t, x)
    PROVE  /\ N \in Spaces
           /\ \A c \in Pmaps, q \in Tops, k \in Lows :
                N[c][q][k] = IF c = s /\ q = t THEN x[k] ELSE M[c][q][k]
  BY DEF Spaces, SetAll

(* An operation starts in a state in which nothing has gone wrong. *)
LEMMA WasOK ==
    ASSUME Inv, NEW n, NEW M, Do(n, M)
    PROVE  status = "ok" /\ (~shared /\ ~missing => Agrees(pm, mem))
  BY DEF Do, Inv

LEMMA ZeroOK ==
    ASSUME Inv, NEW s \in Pmaps, NEW t \in Tops, Zero(s, t)
    PROVE  Inv'
<1>1. PICK n, x, M : /\ n = RemoveTop(pm, s, t) /\ x = [l \in Lows |-> ZeroPage]
                     /\ M = SetAll(mem, s, t, x)
  OBVIOUS
<1>2. Do(n, M) /\ snapped' = snapped /\ shared' = shared /\ NoMerge
  BY <1>1 DEF NoMerge, Zero, SetAll
<1>3. MemOK(pm) /\ mem \in Spaces
  BY DEF Inv
<1>4. MemOK(n) /\ ReadsElse(pm, n, s, t) /\ \A l \in Lows : Reads(n, s, t, l) = ZeroPage
  BY <1>1, <1>3, RemoveTopOK
<1>5. x \in [Lows -> Page] /\ \A l \in Lows : x[l] = ZeroPage
  BY <1>1 DEF ZeroPage, Page
<1>6. /\ M \in Spaces
      /\ \A c \in Pmaps, q \in Tops, k \in Lows :
           M[c][q][k] = IF c = s /\ q = t THEN x[k] ELSE mem[c][q][k]
  BY <1>1, <1>3, <1>5, SetAllOK
<1>7. ~shared' /\ ~missing => Agrees(n, M)
  BY <1>2, <1>4, <1>5, <1>6, WasOK DEF Agrees, ReadsElse
<1>8. snapped' \subseteq Children /\ shared' \in BOOLEAN
  BY <1>2 DEF Inv
<1> QED
  BY <1>2, <1>4, <1>6, <1>7, <1>8, DoOK

LEMMA ZeroOneOK ==
    ASSUME Inv, NEW s \in Pmaps, NEW t \in Tops, NEW l \in Lows, ZeroOne(s, t, l)
    PROVE  Inv'
<1>1. PICK n, M : n = RemovePart(pm, s, t, l) /\ M = SetOne(mem, s, t, l, ZeroPage)
  OBVIOUS
<1>2. Do(n, M) /\ snapped' = snapped /\ shared' = shared /\ NoMerge
  BY <1>1 DEF NoMerge, ZeroOne, SetOne
<1>3. MemOK(pm) /\ mem \in Spaces /\ ZeroPage \in Page
  BY DEF Inv, ZeroPage, Page
<1>4. MemOK(n) /\ PageRead(pm, n, s, t, l, ZeroPage)
  BY <1>1, <1>3, RemovePartOK
<1>5. /\ M \in Spaces
      /\ \A c \in Pmaps, q \in Tops, k \in Lows :
           M[c][q][k] = IF c = s /\ q = t /\ k = l THEN ZeroPage ELSE mem[c][q][k]
  BY <1>1, <1>3, SetOneOK
<1>6. ~shared' /\ ~missing => Agrees(n, M)
  BY <1>2, <1>4, <1>5, WasOK DEF Agrees, PageRead
<1>7. snapped' \subseteq Children /\ shared' \in BOOLEAN
  BY <1>2 DEF Inv
<1> QED
  BY <1>2, <1>4, <1>5, <1>6, <1>7, DoOK

LEMMA PermOK ==
    ASSUME Inv, NEW s \in Pmaps, NEW t \in Tops, NEW l \in Lows, NEW perm \in Perms,
           Perm(s, t, l, perm)
    PROVE  Inv'
<1>1. PICK n : n = SetPerm(pm, s, t, l, perm)
  OBVIOUS
<1>2. Do(n, mem) /\ snapped' = snapped /\ shared' = shared /\ NoMerge
  BY <1>1 DEF NoMerge, Perm
<1>3. MemOK(pm) /\ mem \in Spaces
  BY DEF Inv
<1>4. MemOK(n) /\ SameReads(pm, n)
  BY <1>1, <1>3, SetPermOK
<1>5. ~shared' /\ ~missing => Agrees(n, mem)
  BY <1>2, <1>4, WasOK DEF Agrees, SameReads
<1>6. snapped' \subseteq Children /\ shared' \in BOOLEAN
  BY <1>2 DEF Inv
<1> QED
  BY <1>2, <1>3, <1>4, <1>5, <1>6, DoOK

LEMMA CopyOK ==
    ASSUME Inv, NEW s \in Pmaps, NEW d \in Pmaps, s # d, NEW t \in Tops, Copy(s, d, t)
    PROVE  Inv'
<1>1. PICK n, M : n = CopyTop(pm, s, d, t) /\ M = SetAll(mem, d, t, mem[s][t])
  OBVIOUS
<1>2. Do(n, M) /\ snapped' = snapped /\ shared' = shared /\ NoMerge
  BY <1>1 DEF NoMerge, Copy, SetAll
<1>3. MemOK(pm) /\ mem \in Spaces /\ mem[s][t] \in [Lows -> Page]
  BY DEF Inv, Spaces
<1>4. MemOK(n) /\ TopCopied(pm, n, s, d, t)
  BY <1>1, <1>3, CopyTopOK
<1>5. /\ M \in Spaces
      /\ \A c \in Pmaps, q \in Tops, k \in Lows :
           M[c][q][k] = IF c = d /\ q = t THEN mem[s][t][k] ELSE mem[c][q][k]
  BY <1>1, <1>3, SetAllOK
<1>6. ~shared' /\ ~missing => Agrees(n, M)
  BY <1>2, <1>4, <1>5, WasOK DEF Agrees, TopCopied
<1>7. snapped' \subseteq Children /\ shared' \in BOOLEAN
  BY <1>2 DEF Inv
<1> QED
  BY <1>2, <1>4, <1>5, <1>6, <1>7, DoOK

LEMMA CopyPageOK ==
    ASSUME Inv, NEW s \in Pmaps, NEW d \in Pmaps, s # d, NEW t \in Tops, NEW l \in Lows,
           CopyPage(s, d, t, l)
    PROVE  Inv'
<1>1. PICK n, M : n = CopyPart(pm, s, d, t, l) /\ M = SetOne(mem, d, t, l, mem[s][t][l])
  OBVIOUS
<1>2. /\ Do(n, M) /\ snapped' = snapped /\ NoMerge
      /\ shared' = (shared \/ (pm.root[s][t].a # 0 /\ InUse(pm, d, t)))
  BY <1>1 DEF CopyPage, SetOne, NoMerge
<1>3. MemOK(pm) /\ mem \in Spaces /\ mem[s][t][l] \in Page
  BY DEF Inv, Spaces
<1>4. /\ MemOK(n)
      /\ ~(pm.root[s][t].a # 0 /\ InUse(pm, d, t)) => PageRead(pm, n, d, t, l, Reads(pm, s, t, l))
  BY <1>1, <1>3, CopyPartOK
<1>5. /\ M \in Spaces
      /\ \A c \in Pmaps, q \in Tops, k \in Lows :
           M[c][q][k] = IF c = d /\ q = t /\ k = l THEN mem[s][t][l] ELSE mem[c][q][k]
  BY <1>1, <1>3, SetOneOK
<1>6. ASSUME ~shared', ~missing PROVE Agrees(n, M)
  <2>1. PageRead(pm, n, d, t, l, Reads(pm, s, t, l)) /\ Agrees(pm, mem)
    BY <1>2, <1>4, <1>6, WasOK
  <2> QED
    BY <1>5, <2>1 DEF Agrees, PageRead
<1>7. snapped' \subseteq Children /\ shared' \in BOOLEAN
  BY <1>2 DEF Inv
<1> QED
  BY <1>2, <1>4, <1>5, <1>6, <1>7, DoOK

LEMMA StoreOK ==
    ASSUME Inv, NEW c \in Procs, NEW t \in Tops, NEW l \in Lows, NEW b \in Bytes, NEW v \in Values,
           Store(c, t, l, b, v)
    PROVE  Inv'
<1>1. PICK s : s = Pml4(c)
  OBVIOUS
<1>2. s \in Pmaps /\ MemOK(pm) /\ mem \in Spaces /\ mem[s][t][l] \in Page
  <2>1. s \in Pmaps
    BY <1>1, Maps
  <2> QED
    BY <2>1 DEF Inv, Spaces
<1>3. PICK y : y = IF pm.root[s][t].w /\ pm.tab[pm.root[s][t].a][l].w THEN pm ELSE PageFault(pm, s, t, l)
  OBVIOUS
<1>4. MemOK(y) /\ SameReads(pm, y) /\ y.root[s][t].w
  <2>1. CASE pm.root[s][t].w /\ pm.tab[pm.root[s][t].a][l].w
    <3>1. y = pm
      BY <1>3, <2>1
    <3> QED
      BY <1>2, <2>1, <3>1 DEF SameReads
  <2>2. CASE ~(pm.root[s][t].w /\ pm.tab[pm.root[s][t].a][l].w)
    <3>1. y = PageFault(pm, s, t, l)
      BY <1>3, <2>2
    <3> QED
      BY <1>2, <3>1, PageFaultOK
  <2> QED
    BY <2>1, <2>2
<1>5. PICK d, a : d = y.root[s][t].a /\ a = y.tab[d][l].a
  OBVIOUS
<1>6. /\ IF y.tab[d][l].w THEN Do([y EXCEPT !.page[a][b] = v], [mem EXCEPT ![s][t][l][b] = v])
                          ELSE Do(y, mem)
      /\ snapped' = snapped /\ shared' = shared /\ NoMerge
  BY <1>1, <1>3, <1>5 DEF Store, NoMerge
<1>7. snapped' \subseteq Children /\ shared' \in BOOLEAN
  BY <1>6 DEF Inv
<1>8. CASE ~y.tab[d][l].w
  <2>1. Do(y, mem)
    BY <1>6, <1>8
  <2>2. ~shared' /\ ~missing => Agrees(y, mem)
    BY <1>4, <1>6, <2>1, WasOK DEF Agrees, SameReads
  <2> QED
    BY <1>2, <1>4, <1>6, <1>7, <2>1, <2>2, DoOK
<1>9. CASE y.tab[d][l].w
  <2>1. d \in Frames /\ y.ref[d] = 1 /\ a # 0 /\ y.ref[a] = 1
    <3>1. /\ y.root[s][t].a \in Frames /\ y.ref[y.root[s][t].a] = 1
          /\ \A k \in Lows : y.tab[y.root[s][t].a][k].w =>
               y.tab[y.root[s][t].a][k].a # 0 /\ y.ref[y.tab[y.root[s][t].a][k].a] = 1
      BY <1>2, <1>4, OwnRef
    <3> QED
      BY <1>5, <1>9, <3>1
  <2>2. y \in Memory /\ a \in Frames /\ y.page[a] \in Page
    <3>1. a \in Frames
      BY <1>4, <1>5, <2>1, LowRefs
    <3> QED
      BY <1>4, <3>1 DEF MemOK, Memory
  <2>3. PICK x, z : x = [y.page[a] EXCEPT ![b] = v] /\ z = [mem[s][t][l] EXCEPT ![b] = v]
    OBVIOUS
  <2>4. x \in Page /\ z \in Page
    BY <1>2, <2>2, <2>3 DEF Page
  <2>5. PICK n, M : n = SetPage(y, a, x) /\ M = SetOne(mem, s, t, l, z)
    OBVIOUS
  <2>6. Do(n, M)
    <3>1. n = [y EXCEPT !.page[a][b] = v]
      BY <2>2, <2>3, <2>5 DEF SetPage, Memory
    <3>2. M = [mem EXCEPT ![s][t][l][b] = v]
      BY <1>2, <2>3, <2>5 DEF SetOne, Spaces
    <3> QED
      BY <1>6, <1>9, <3>1, <3>2
  <2>7. MemOK(n) /\ LowRead(y, n, d, l, x)
    BY <1>4, <1>5, <2>1, <2>4, <2>5, SetPageOK
  <2>8. PageRead(y, n, s, t, l, x)
    <3>1. /\ y.root[s][t].a \in Frames /\ y.ref[y.root[s][t].a] = 1
          /\ LowRead(y, n, y.root[s][t].a, l, x)
      BY <1>5, <2>1, <2>7
    <3> QED
      BY <1>2, <1>4, <3>1, Private
  <2>9. /\ M \in Spaces
        /\ \A e \in Pmaps, q \in Tops, k \in Lows :
             M[e][q][k] = IF e = s /\ q = t /\ k = l THEN z ELSE mem[e][q][k]
    BY <1>2, <2>4, <2>5, SetOneOK
  <2>10. ASSUME ~shared', ~missing PROVE Agrees(n, M)
    <3>1. Agrees(pm, mem)
      BY <1>6, <2>6, <2>10, WasOK
    <3>2. Agrees(y, mem)
      BY <1>4, <3>1 DEF Agrees, SameReads
    <3>3. Reads(y, s, t, l) = y.page[a]
      <4>1. d # 0
        BY <2>1 DEF Frames
      <4> QED
        BY <1>5, <2>1, <4>1 DEF Reads, Contents
    <3>4. x = z
      BY <1>2, <2>3, <3>2, <3>3 DEF Agrees
    <3> QED
      BY <2>8, <2>9, <3>2, <3>4 DEF Agrees, PageRead
  <2> QED
    BY <1>6, <1>7, <2>6, <2>7, <2>9, <2>10, DoOK
<1> QED
  BY <1>8, <1>9

(* Replacing an address space. *)
SetSpace(M, s, x) == [M EXCEPT ![s] = x]

LEMMA SetSpaceOK ==
    ASSUME NEW M \in Spaces, NEW s \in Pmaps, NEW x \in [Tops -> [Lows -> Page]],
           NEW N, N = SetSpace(M, s, x)
    PROVE  N \in Spaces /\ \A c \in Pmaps : N[c] = IF c = s THEN x ELSE M[c]
  BY DEF Spaces, SetSpace

LEMMA SnapshotOK ==
    ASSUME Inv, NEW c \in Children, NEW copy \in BOOLEAN, Snapshot(c, copy)
    PROVE  Inv'
<1>1. PICK s, w, h : s = Pml4("p") /\ w = Pml4(c) /\ h = Snap(c)
  OBVIOUS
<1>2. s \in Pmaps /\ w \in Pmaps /\ h \in Pmaps /\ s # w /\ w # h /\ MemOK(pm) /\ mem \in Spaces
  <2>1. s \in Pmaps /\ w \in Pmaps /\ h \in Pmaps /\ s # w /\ w # h
    BY <1>1, Maps
  <2> QED
    BY <2>1 DEF Inv
<1>3. PICK y, p : y = (IF copy THEN CopyAll(pm, s, w) ELSE pm) /\ p = IF copy THEN s ELSE w
  OBVIOUS
<1>4. PICK x : x = mem[p]
  OBVIOUS
<1>5. PICK n, N, M : n = CopyAll(y, w, h) /\ N = SetSpace(mem, w, x) /\ M = SetSpace(N, h, x)
  OBVIOUS
<1>6. Do(n, M) /\ snapped' = snapped \cup {c} /\ shared' = shared /\ NoMerge
  <2>1. M = [mem EXCEPT ![w] = x, ![h] = x]
    BY <1>5 DEF SetSpace
  <2>2. n = CopyAll(IF copy THEN CopyAll(pm, s, w) ELSE pm, w, h)
    BY <1>3, <1>5
  <2> QED
    BY <1>1, <1>3, <1>4, <2>1, <2>2 DEF Snapshot, NoMerge
<1>7. p \in Pmaps /\ x \in [Tops -> [Lows -> Page]]
  BY <1>2, <1>3, <1>4 DEF Spaces
<1>8. N \in Spaces /\ \A e \in Pmaps : N[e] = IF e = w THEN x ELSE mem[e]
  BY <1>2, <1>5, <1>7, SetSpaceOK
<1>9. M \in Spaces /\ \A e \in Pmaps : M[e] = IF e = h THEN x ELSE N[e]
  <2>1. N \in Spaces /\ M = SetSpace(N, h, x)
    BY <1>5, <1>8
  <2> QED
    BY <1>2, <1>7, <2>1, SetSpaceOK, SMTT(30)
<1>10. MemOK(y) /\ AllCopied(pm, y, p, w)
  <2>1. CASE copy
    BY <1>2, <1>3, <2>1, CopyAllOK
  <2>2. CASE ~copy
    <3>1. y = pm /\ p = w
      BY <1>3, <2>2
    <3> QED
      BY <1>2, <3>1 DEF AllCopied
  <2> QED
    BY <2>1, <2>2
<1>11. MemOK(n) /\ AllCopied(y, n, w, h)
  BY <1>2, <1>5, <1>10, CopyAllOK
<1>12. ASSUME ~shared', ~missing PROVE Agrees(n, M)
  <2>1. Agrees(pm, mem)
    BY <1>6, <1>12, WasOK
  <2>2. Agrees(y, N)
    BY <1>4, <1>7, <1>8, <1>10, <2>1 DEF Agrees, AllCopied
  <2> QED
    BY <1>2, <1>8, <1>9, <1>11, <2>2 DEF Agrees, AllCopied
<1>13. snapped' \subseteq Children /\ shared' \in BOOLEAN
  BY <1>6 DEF Inv
<1> QED
  BY <1>6, <1>9, <1>11, <1>12, <1>13, DoOK

LEMMA MergedSpaceOK ==
    ASSUME NEW r \in [Lows -> Page], NEW s \in [Lows -> Page], NEW d \in [Lows -> Page]
    PROVE  /\ MergedSpace(r, s, d) \in [Lows -> Page]
           /\ \A l \in Lows : MergedSpace(r, s, d)[l] = Merged(r[l], s[l], d[l])
<1>1. ASSUME NEW l \in Lows
      PROVE  MergedSpace(r, s, d)[l] = Merged(r[l], s[l], d[l])
  <2>1. {b \in Bytes : s[l][b] # r[l][b]} \cap {b \in Bytes : d[l][b] # r[l][b]} # {}
          <=> Conflict(r[l], s[l], d[l])
    BY DEF Conflict
  <2>2. [b \in Bytes |-> IF b \in {b2 \in Bytes : s[l][b2] # r[l][b2]} THEN s[l][b] ELSE d[l][b]]
          = MergedPage(r[l], s[l], d[l])
    BY DEF MergedPage
  <2> QED
    BY <2>1, <2>2 DEF MergedSpace, Merged
<1>2. \A l \in Lows : Merged(r[l], s[l], d[l]) \in Page
  BY MergedIs
<1>3. MergedSpace(r, s, d) = [l \in Lows |-> MergedSpace(r, s, d)[l]]
  BY DEF MergedSpace
<1>4. PICK x : x = MergedSpace(r, s, d)
  OBVIOUS
<1>5. x = [l \in Lows |-> x[l]] /\ \A l \in Lows : x[l] \in Page
  BY <1>1, <1>2, <1>3, <1>4
<1> QED
  BY <1>1, <1>4, <1>5

LEMMA MergeOK ==
    ASSUME Inv, NEW c \in Children, NEW t \in Tops, Merge(c, t)
    PROVE  Inv'
<1>1. PICK r, s, d : r = Snap(c) /\ s = Pml4(c) /\ d = Pml4("p")
  OBVIOUS
<1>2. r \in Pmaps /\ s \in Pmaps /\ d \in Pmaps /\ r # d /\ s # d
  BY <1>1, Maps
<1>3. MemOK(pm) /\ mem \in Spaces
  BY DEF Inv
<1>4. PICK z, y, x, M : /\ z = [m |-> pm, low |-> low, status |-> status]
                        /\ y = MergeTop(z, r, s, d, t)
                        /\ x = MergedSpace(mem[r][t], mem[s][t], mem[d][t])
                        /\ M = SetAll(mem, d, t, x)
  OBVIOUS
<1>5. Do(y.m, M) /\ snapped' = snapped /\ low' = y.low /\ status' = y.status
  <2>1. M = [mem EXCEPT ![d][t] = MergedSpace(mem[r][t], mem[s][t], @)]
    BY <1>2, <1>3, <1>4 DEF SetAll, Spaces
  <2> QED
    BY <1>1, <1>4, <2>1 DEF Merge
<1>6. /\ shared' = (shared \/ (/\ pm.root[s][t] # pm.root[r][t] /\ pm.root[d][t] # pm.root[r][t]
                               /\ InUse(pm, d, t)))
      /\ missing' = (missing \/ (/\ pm.root[s][t] # pm.root[r][t] /\ pm.root[d][t] # pm.root[r][t]
                                 /\ ~HaveTables(pm, r, s, d, t)))
  <2>1. LacksTable(pm, c, t) <=> ~HaveTables(pm, r, s, d, t)
    BY <1>1 DEF LacksTable, HaveTables
  <2> QED
    BY <1>1, <2>1 DEF Merge, Merges
<1>7. MergingOK(z) /\ z.m = pm
  BY <1>3, <1>4 DEF MergingOK, Merging, Inv, MemOK
<1>8. /\ MergingOK(y)
      /\ \/ pm.root[s][t] # pm.root[r][t] /\ pm.root[d][t] # pm.root[r][t] /\ InUse(pm, d, t)
         \/ pm.root[s][t] # pm.root[r][t] /\ pm.root[d][t] # pm.root[r][t] /\ ~HaveTables(pm, r, s, d, t)
         \/ y.status # "ok"
         \/ TopMerged(pm, y.m, r, s, d, t)
  BY <1>2, <1>4, <1>7, MergeTopOK
<1>9. /\ x \in [Lows -> Page]
      /\ \A l \in Lows : x[l] = Merged(mem[r][t][l], mem[s][t][l], mem[d][t][l])
  <2>1. mem[r][t] \in [Lows -> Page] /\ mem[s][t] \in [Lows -> Page] /\ mem[d][t] \in [Lows -> Page]
    BY <1>2, <1>3 DEF Spaces
  <2> QED
    BY <1>4, <2>1, MergedSpaceOK
<1>10. /\ M \in Spaces
       /\ \A e \in Pmaps, q \in Tops, k \in Lows :
            M[e][q][k] = IF e = d /\ q = t THEN x[k] ELSE mem[e][q][k]
  BY <1>2, <1>3, <1>4, <1>9, SetAllOK
<1>11. ASSUME status' = "ok", ~shared', ~missing' PROVE Agrees(y.m, M)
  <2>1. Agrees(pm, mem) /\ TopMerged(pm, y.m, r, s, d, t)
    BY <1>5, <1>6, <1>8, <1>11, WasOK
  <2>2. \A l \in Lows : MergedAt(pm, r, s, d, t, l) = x[l]
    BY <1>2, <1>9, <2>1 DEF Agrees, MergedAt
  <2> QED
    BY <1>10, <2>1, <2>2 DEF Agrees, TopMerged
<1>12. snapped' \subseteq Children /\ shared' \in BOOLEAN /\ missing' \in BOOLEAN
  BY <1>5, <1>6 DEF Inv
<1>13. pm' = y.m /\ mem' = M
  BY <1>5 DEF Do
<1>14. MemOK(y.m) /\ y.low \in Page /\ y.status \in Statuses
  BY <1>8, MergingIs
<1> QED
  BY <1>5, <1>10, <1>11, <1>12, <1>13, <1>14 DEF Inv

LEMMA StepOK == Inv /\ [Next]_vars => Inv'
<1> SUFFICES ASSUME Inv, [Next]_vars PROVE Inv'
  OBVIOUS
<1>1. CASE UNCHANGED vars
  <2>1. /\ pm' = pm /\ mem' = mem /\ snapped' = snapped /\ shared' = shared
        /\ missing' = missing /\ low' = low /\ status' = status
    BY <1>1 DEF vars
  <2> QED
    BY <2>1 DEF Inv
<1>2. CASE Next
  <2>1. PICK t \in Tops :
          \/ \E c \in Procs, l \in Lows, b \in Bytes, v \in Values : Store(c, t, l, b, v)
          \/ \E c \in Procs :
               \/ Zero(Pml4(c), t)
               \/ \E l \in Lows : ZeroOne(Pml4(c), t, l)
               \/ \E l \in Lows, perm \in Perms : Perm(Pml4(c), t, l, perm)
          \/ \E c \in Children :
               \/ Copy(Pml4("p"), Pml4(c), t)
               \/ Copy(Pml4(c), Pml4("p"), t)
               \/ \E l \in Lows : CopyPage(Pml4("p"), Pml4(c), t, l) \/ CopyPage(Pml4(c), Pml4("p"), t, l)
          \/ \E c \in Children : Merge(c, t) \/ \E copy \in BOOLEAN : Snapshot(c, copy)
    BY <1>2 DEF Next
  <2>2. CASE \E c \in Procs, l \in Lows, b \in Bytes, v \in Values : Store(c, t, l, b, v)
    BY <2>2, StoreOK
  <2>3. ASSUME NEW c \in Procs, Zero(Pml4(c), t) PROVE Inv'
    BY <2>3, Maps, ZeroOK
  <2>4. ASSUME NEW c \in Procs, NEW l \in Lows, ZeroOne(Pml4(c), t, l) PROVE Inv'
    BY <2>4, Maps, ZeroOneOK
  <2>5. ASSUME NEW c \in Procs, NEW l \in Lows, NEW perm \in Perms, Perm(Pml4(c), t, l, perm)
        PROVE  Inv'
    BY <2>5, Maps, PermOK
  <2>6. ASSUME NEW c \in Children
        PROVE  /\ Pml4("p") \in Pmaps /\ Pml4(c) \in Pmaps
               /\ Pml4("p") # Pml4(c) /\ Pml4(c) # Pml4("p")
    BY Maps
  <2>7. ASSUME NEW c \in Children, Copy(Pml4("p"), Pml4(c), t) \/ Copy(Pml4(c), Pml4("p"), t)
        PROVE  Inv'
    BY <2>6, <2>7, CopyOK
  <2>8. ASSUME NEW c \in Children, NEW l \in Lows,
               CopyPage(Pml4("p"), Pml4(c), t, l) \/ CopyPage(Pml4(c), Pml4("p"), t, l)
        PROVE  Inv'
    BY <2>6, <2>8, CopyPageOK
  <2>9. ASSUME NEW c \in Children, Merge(c, t) PROVE Inv'
    BY <2>9, MergeOK
  <2>10. ASSUME NEW c \in Children, NEW copy \in BOOLEAN, Snapshot(c, copy) PROVE Inv'
    BY <2>10, SnapshotOK
  <2> QED
    BY <2>1, <2>2, <2>3, <2>4, <2>5, <2>7, <2>8, <2>9, <2>10
<1> QED
  BY <1>1, <1>2

-----------------------------------------------------------------------------
(* The properties *)

(* In every reachable state the page tables, pages and counts are related as
   Inv says, whatever PUT, GET, faults and stores have done in pmap.c. *)
THEOREM Invariance == Spec => []Inv
  BY InitOK, StepOK, PTL DEF Spec

(* Entries refer to frames, and no reference count becomes negative: the
   assertion of mem_decref holds. *)
THEOREM Types == Spec => []TypeOK
<1>1. Inv => TypeOK
  BY DEF Inv, MemOK, Memory, TypeOK, Page, Statuses
<1> QED
  BY <1>1, Invariance, PTL

(* pmap.c neither frees a frame that an entry still refers to nor leaks one:
   every reference count is the number of entries that refer to the frame. *)
THEOREM RefCountsExact == Spec => []RefExact
<1>1. ASSUME Inv, NEW f \in Frames
      PROVE  {x \in Frames \X Lows : pm.ref[x[1]] > 0 /\ pm.tab[x[1]][x[2]].a = f} = TabRefs(pm, f)
  <2>1. ASSUME NEW d \in Frames, NEW l \in Lows, pm.tab[d][l].a = f PROVE pm.ref[d] > 0
    <3>1. MemOK(pm) /\ pm.tab[d][l].a # 0 /\ d # 0
      BY <1>1, <2>1 DEF Inv, Frames
    <3>2. PICK s \in Pmaps, t \in Tops : pm.root[s][t].a = d
      BY <3>1 DEF MemOK, Tables, IsTable
    <3>3. pm.ref[d] \in Nat \ {0}
      BY <3>1, <3>2, TopRefs
    <3> QED
      BY <3>3
  <2> QED
    BY <2>1 DEF TabRefs
<1>2. Inv => RefExact
  <2> SUFFICES ASSUME Inv PROVE RefExact
    OBVIOUS
  <2>1. \A f \in Frames : pm.ref[f] = Cardinality(RootRefs(pm, f)) + Cardinality(TabRefs(pm, f))
    BY DEF Inv, MemOK, Exact
  <2> QED
    BY <1>1, <2>1 DEF RefExact, RootRefs
<1> QED
  BY <1>2, Invariance, PTL

(* What the MMU lets a process write is its own: pmap_walk_level and
   pmap_pagefault make an entry writable only on a path that nobody shares,
   and pmap_copy_level takes the permission away when it shares one. *)
THEOREM WritablePagesPrivate == Spec => []WritableIsPrivate
<1>1. Inv => WritableIsPrivate
  <2> SUFFICES ASSUME Inv, NEW s \in Pmaps, NEW t \in Tops, NEW l \in Lows, pm.root[s][t].w,
                      pm.tab[pm.root[s][t].a][l].w
               PROVE  /\ pm.ref[pm.root[s][t].a] = 1 /\ pm.tab[pm.root[s][t].a][l].a # 0
                      /\ pm.ref[pm.tab[pm.root[s][t].a][l].a] = 1
    BY DEF WritableIsPrivate
  <2>1. MemOK(pm)
    BY DEF Inv
  <2>2. /\ pm.ref[pm.root[s][t].a] = 1
        /\ \A k \in Lows : pm.tab[pm.root[s][t].a][k].w =>
             pm.tab[pm.root[s][t].a][k].a # 0 /\ pm.ref[pm.tab[pm.root[s][t].a][k].a] = 1
    BY <2>1, OwnRef, Zenon
  <2> QED
    BY <2>2
<1> QED
  BY <1>1, Invariance, PTL

(* PUT, GET, SNAP and MERGE behave as if pmap.c copied pages at once, until an
   operation modifies a lower table that another address space uses too, or a
   merge meets a missing table, fails an assertion or releases the zero page. *)
THEOREM CopyOnWriteInvisible == Spec => []ReadsAsCopiedUnshared
<1>1. Inv => ReadsAsCopiedUnshared
  BY DEF Inv, Agrees, ReadsAsCopiedUnshared, ReadsAsCopied
<1> QED
  BY <1>1, Invariance, PTL
=============================================================================
