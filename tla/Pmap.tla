-------------------------------- MODULE Pmap --------------------------------
(***************************************************************************)
(* Copy-on-write address spaces (kern/pmap.c and the reference counts of   *)
(* kern/mem.c).                                                            *)
(*                                                                         *)
(* A parent copies memory to and from its children, snapshots them and     *)
(* merges their changes (the memory operations of PUT and GET); every      *)
(* process stores into its own memory.  pmap.c shares whole tables and     *)
(* pages between address spaces and copies them on demand; mem is what     *)
(* eager copying would have put into each address space.                   *)
(*                                                                         *)
(* Two of the four levels are kept: an address space is a private root     *)
(* table whose entries refer to tables of entries that refer to pages.     *)
(* An operation on a whole table takes pmap.c's path for whole entries,    *)
(* one on a single page its path for parts of a lower table; an operation  *)
(* on a longer range is a sequence of these.  The memory state m is a      *)
(* record that the functions of pmap.c take and return.                    *)
(*                                                                         *)
(* Two tests of the merge compare a kernel address with PTE_ZERO, which is *)
(* a physical one, and never find them equal (pmap.c:734 and 822).  The    *)
(* first releases the zero page as if it were any page; the second, like   *)
(* the tests for NULL above it, lets the zero page stand for a table that  *)
(* does not exist, and its words, all 0, lead to physical page 0.  Both    *)
(* are modelled as they are.  The model stops where a merge ends in a      *)
(* failed assertion or puts the zero page on the free list.                *)
(*                                                                         *)
(* An operator named X_Y is a wrong version of the operator X.             *)
(***************************************************************************)
EXTENDS Integers, FiniteSets

CONSTANTS
    Children,       \* child processes
    NTops,          \* entries of a root table
    NLows,          \* entries of a lower table
    Bytes,          \* indices of a page
    Values,         \* what a process may store
    NFrames,        \* physical pages that can be allocated
    LowPage,        \* what physical page 0 holds after booting
    MaxOps          \* bound: operations

Frames == 1 .. NFrames
Tops == 1 .. NTops
Lows == 1 .. NLows

(* Each child has a working and a reference page map. *)
Snap(c) == <<"rpml4", c>>
Pml4(c) == <<"pml4", c>>
Procs == Children \cup {"p"}
Pmaps == {Pml4(c) : c \in Procs} \cup {Snap(c) : c \in Children}

(* There is a frame for every table and page that the address spaces could
   have of their own: mem_alloc does not fail. *)
ASSUME PmapAssumption ==
    /\ NTops \in Nat /\ NLows \in Nat /\ NFrames \in Nat /\ MaxOps \in Nat
    /\ IsFiniteSet(Children) /\ "p" \notin Children /\ 0 \notin Values
    /\ LowPage \in [Bytes -> Values \cup {0}]
    /\ NFrames > Cardinality(Pmaps \X Tops) + Cardinality((Pmaps \X Tops) \X Lows)

(* A page-table entry: frame (0 is PTE_ZERO), PTE_W, and the nominal
   permissions. *)
Perms == {"none", "read", "rw"}
PTE_ZERO == [a |-> 0, w |-> FALSE, perm |-> "none"]
Writable(f) == [a |-> f, w |-> TRUE, perm |-> "rw"]
ZeroPage == [b \in Bytes |-> 0]
EmptyTable == [l \in Lows |-> PTE_ZERO]

VARIABLES
    pm,         \* root, lower tables, pages and reference counts
    mem,        \* history: contents of each address space under eager copying
    snapped,    \* children that have been snapshotted
    shared,     \* history: whether a shared lower table has been modified
    missing,    \* history: whether a merge has gone through a missing lower table
    low,        \* contents of physical page 0
    status,     \* "ok", "assert" (an assertion has failed) or "zerofreed"
    nops

vars == <<pm, mem, snapped, shared, missing, low, status, nops>>

(* What an entry refers to, and what an address space holds. *)
Contents(m, e) == IF e.a = 0 THEN ZeroPage ELSE m.page[e.a]
Reads(m, s, t, l) ==
    LET dir == m.root[s][t]
    IN IF dir.a = 0 THEN ZeroPage ELSE Contents(m, m.tab[dir.a][l])

-----------------------------------------------------------------------------
(* Frames *)

(* mem_alloc: some page of the free list. *)
Alloc(m) == CHOOSE f \in Frames : m.ref[f] = 0

(* mem_incref, mem_decref with mem_free *)
IncRef(m, f) == IF f = 0 THEN m ELSE [m EXCEPT !.ref[f] = @ + 1]
DecRef(m, f) ==
    IF f = 0 THEN m
    ELSE [m EXCEPT !.ref[f] = @ - 1, !.page[f] = IF m.ref[f] = 1 THEN ZeroPage ELSE @]

(* A new page with contents x replaces the page at entry l of the table d. *)
NewPage(m, d, l, x) ==
    LET f == Alloc(m)
    IN DecRef([m EXCEPT !.tab[d][l] = Writable(f), !.ref[f] = 1, !.page[f] = x], m.tab[d][l].a)

(* The page at entry l of the table sd is used by the empty entry l of dd too. *)
Share(m, sd, dd, l) ==
    LET e == [m.tab[sd][l] EXCEPT !.w = FALSE]
    IN IncRef([m EXCEPT !.tab[dd][l] = e], e.a)

-----------------------------------------------------------------------------
(* pmap_remove_level on one entry of the table d, or of the root table, with
   pmap_freept for a lower table to which this was the last reference. *)
RemoveLow(m, d, l) ==
    IF m.tab[d][l].a = 0 THEN m
    ELSE [DecRef(m, m.tab[d][l].a) EXCEPT !.tab[d][l] = PTE_ZERO]

FreeTable(m, f) ==
    LET freed[l \in 0 .. NLows] == IF l = 0 THEN m ELSE RemoveLow(freed[l - 1], f, l)
    IN [freed[NLows] EXCEPT !.tab[f] = EmptyTable]

RemoveTop(m, s, t) ==
    LET a == m.root[s][t].a
    IN IF a = 0 THEN m
       ELSE [DecRef(IF m.ref[a] = 1 THEN FreeTable(m, a) ELSE m, a) EXCEPT !.root[s][t] = PTE_ZERO]

(* pmap_walk_level for writing: the lower table exists and is not shared;
   read-only status moves down to its entries. *)
NewTable(m, s, t) ==
    LET f == Alloc(m)
    IN [DecRef(m, m.root[s][t].a) EXCEPT !.root[s][t] = Writable(f),
                                         !.tab[f] = EmptyTable, !.ref[f] = 1]

CopyTable(m, s, t) ==
    LET f == Alloc(m)
        copied[l \in 0 .. NLows] == IF l = 0 THEN NewTable(m, s, t)
                                    ELSE Share(copied[l - 1], m.root[s][t].a, f, l)
    IN copied[NLows]

Unshare(m, s, t) ==
    LET dir == m.root[s][t]
    IN IF dir.a = 0 THEN NewTable(m, s, t)
       ELSE IF dir.w THEN m
       ELSE IF m.ref[dir.a] = 1
       THEN [m EXCEPT !.root[s][t] = Writable(dir.a),
                      !.tab[dir.a] = [l \in Lows |-> [m.tab[dir.a][l] EXCEPT !.w = FALSE]]]
       ELSE CopyTable(m, s, t)

RemovePart(m, s, t, l) ==
    IF m.root[s][t].a = 0 THEN m
    ELSE LET n == Unshare(m, s, t) IN RemoveLow(n, n.root[s][t].a, l)

(* pmap_setperm_level on one page: without permissions what does not exist is
   left alone, with some it is made to exist. *)
SetPerm(m, s, t, l, perm) ==
    LET n == Unshare(m, s, t)
        d == n.root[s][t].a
        pte == n.tab[d][l]
    IN IF perm = "none" /\ m.root[s][t].a = 0 THEN m
       ELSE IF perm = "none" /\ pte.a = 0 THEN n
       ELSE [n EXCEPT !.tab[d][l] = [pte EXCEPT !.perm = perm, !.w = @ /\ perm = "rw"]]

(* pmap_copy_level on a whole entry: the destination's old one is removed and
   both entries become read-only. *)
CopyTop_KeepW(m, s, d, t) ==
    LET n == RemoveTop(m, d, t)
        e == n.root[s][t]
    IN IncRef([n EXCEPT !.root[d][t] = [e EXCEPT !.w = FALSE]], e.a)
CopyTop_NoRef(m, s, d, t) ==
    LET n == RemoveTop(m, d, t)
        e == [n.root[s][t] EXCEPT !.w = FALSE]
    IN [n EXCEPT !.root[s][t] = e, !.root[d][t] = e]
CopyTop(m, s, d, t) ==
    LET n == RemoveTop(m, d, t)
        e == [n.root[s][t] EXCEPT !.w = FALSE]
    IN IncRef([n EXCEPT !.root[s][t] = e, !.root[d][t] = e], e.a)

CopyLow(m, sd, dd, l) ==
    LET n == RemoveLow(m, dd, l)
    IN Share([n EXCEPT !.tab[sd][l].w = FALSE], sd, dd, l)

(* pmap_copy_level on part of a lower table: a table is made for the
   destination if it has none, but one that it has is used as it is. *)
CopyPart(m, s, d, t, l) ==
    IF m.root[s][t].a = 0
    THEN RemovePart(m, d, t, l)
    ELSE LET n == IF m.root[d][t].a = 0 THEN Unshare(m, d, t) ELSE m
         IN CopyLow(n, n.root[s][t].a, n.root[d][t].a, l)

(* Whether a page may be modified where it is. *)
InPlace(m, f) == f # 0 /\ m.ref[f] = 1

(* pmap_mergepage: the bytes that changed in the source since the snapshot
   are written to a page of the destination's own; a byte that changed in
   both removes the page from the destination. *)
MergedPage_WholePage(r, s, d) == s
MergedPage(r, s, d) == [b \in Bytes |-> IF s[b] = r[b] THEN d[b] ELSE s[b]]
Conflict(r, s, d) == \E b \in Bytes : s[b] # r[b] /\ d[b] # r[b]

MergePage(m, r, s, dd, l) ==
    LET de == m.tab[dd][l]
        d == Contents(m, de)
        own == IF InPlace(m, de.a) THEN m ELSE NewPage(m, dd, l, d)
    IN IF Conflict(r, s, d) THEN RemoveLow(own, dd, l)
       ELSE [own EXCEPT !.page[own.tab[dd][l].a] = MergedPage(r, s, d)]

(* The state x of a merge is the memory state with low and status.  Entry l
   of the table d and the page it leads to: where there is no table, a word of
   the zero page, which is 0, and physical page 0. *)
NULL == [a |-> -1, w |-> FALSE, perm |-> "none"]
Pte(x, d, l) == IF d = 0 THEN NULL ELSE x.m.tab[d][l]
PageAt(x, d, l) == IF d = 0 THEN x.low ELSE Contents(x.m, x.m.tab[d][l])

(* pmap_mergepage on physical page 0, which has one reference and is not the
   zero page: the changes go into it where it is.  Its release after a
   conflict fails mem_decref's first assertion. *)
MergeLowPage(x, r, s) ==
    IF Conflict(r, s, x.low) THEN [x EXCEPT !.status = "assert"]
    ELSE [x EXCEPT !.low = MergedPage(r, s, x.low)]

(* pmap_merge_level on one entry of the lower tables, and of the root.  To
   copy an entry from or to a missing table takes or drops a reference to
   physical page 0, and an assertion fails. *)
MergeLow(x, rd, sd, dd, l) ==
    LET re == Pte(x, rd, l)
        se == Pte(x, sd, l)
        de == Pte(x, dd, l)
        r == PageAt(x, rd, l)
        s == PageAt(x, sd, l)
    IN IF x.status # "ok" \/ se = re THEN x
       ELSE IF de = re
       THEN IF 0 \in {sd, dd} THEN [x EXCEPT !.status = "assert"]
            ELSE [x EXCEPT !.m = CopyLow(x.m, sd, dd, l)]
       ELSE IF dd = 0 THEN MergeLowPage(x, r, s)
       ELSE [x EXCEPT !.m = MergePage(x.m, r, s, dd, l),
                      !.status = IF de.a = 0 THEN "zerofreed" ELSE "ok"]

MergeTop(x, r, s, d, t) ==
    LET re == x.m.root[r][t]
        se == x.m.root[s][t]
        de == x.m.root[d][t]
        merged[l \in 0 .. NLows] == IF l = 0 THEN x
                                    ELSE MergeLow(merged[l - 1], re.a, se.a, de.a, l)
    IN IF se = re THEN x
       ELSE IF de = re THEN [x EXCEPT !.m = CopyTop(x.m, s, d, t)]
       ELSE merged[NLows]

(* Whether the lower table of s at t, which an operation is about to modify
   in place, is also used by another address space. *)
InUse(m, s, t) == m.root[s][t].a # 0 /\ m.ref[m.root[s][t].a] > 1

-----------------------------------------------------------------------------
(* The processes and their system calls *)

(* Memory that nobody has touched, and the pages that the kernel inserts into
   the root process before it runs it: pmap_insert of a new page at every
   address. *)
Unused ==
    [root |-> [s \in Pmaps |-> [t \in Tops |-> PTE_ZERO]],
     tab  |-> [f \in Frames |-> EmptyTable],
     page |-> [f \in Frames |-> ZeroPage],
     ref  |-> [f \in Frames |-> 0]]

LoadTable(m, s, t) ==
    LET loaded[l \in 0 .. NLows] ==
          IF l = 0 THEN Unshare(m, s, t)
          ELSE NewPage(loaded[l - 1], loaded[l - 1].root[s][t].a, l, ZeroPage)
    IN loaded[NLows]

Load(s) ==
    LET loaded[t \in 0 .. NTops] == IF t = 0 THEN Unused ELSE LoadTable(loaded[t - 1], s, t)
    IN loaded[NTops]

Init ==
    /\ pm = Load(Pml4("p"))
    /\ mem = [s \in Pmaps |-> [t \in Tops |-> [l \in Lows |-> ZeroPage]]]
    /\ snapped = {} /\ shared = FALSE /\ missing = FALSE /\ nops = 0
    /\ low = LowPage /\ status = "ok"

(* An operation makes m the memory state and spaces the eager contents. *)
Do(m, spaces) ==
    /\ nops < MaxOps /\ status = "ok"
    /\ nops' = nops + 1
    /\ pm' = m /\ mem' = spaces

(* A store by process c: the MMU allows it, or pmap_pagefault first makes the
   tables and the page its own; without permission the fault is the user's,
   but the table has been copied. *)
PageFault(m, s, t, l) ==
    LET n == Unshare(m, s, t)
        d == n.root[s][t].a
        pte == n.tab[d][l]
    IN IF pte.perm # "rw" THEN n
       ELSE IF InPlace(n, pte.a) THEN [n EXCEPT !.tab[d][l] = Writable(pte.a)]
       ELSE NewPage(n, d, l, Contents(n, pte))

Store(c, t, l, b, v) ==
    LET s == Pml4(c)
        dir == pm.root[s][t]
        ready == IF dir.w /\ pm.tab[dir.a][l].w THEN pm ELSE PageFault(pm, s, t, l)
        pte == ready.tab[ready.root[s][t].a][l]
    IN
    /\ dir.a # 0
    /\ IF pte.w THEN Do([ready EXCEPT !.page[pte.a][b] = v], [mem EXCEPT ![s][t][l][b] = v])
                ELSE Do(ready, mem)
    /\ UNCHANGED <<snapped, shared, missing, low, status>>

(* SYS_COPY of a table or of a page from the parent to a child (PUT) or from a
   child to the parent (GET). *)
Copy(s, d, t) ==
    /\ Do(CopyTop(pm, s, d, t), [mem EXCEPT ![d][t] = mem[s][t]])
    /\ UNCHANGED <<snapped, shared, missing, low, status>>

CopyPage(s, d, t, l) ==
    /\ Do(CopyPart(pm, s, d, t, l), [mem EXCEPT ![d][t][l] = mem[s][t][l]])
    /\ shared' = (shared \/ (pm.root[s][t].a # 0 /\ InUse(pm, d, t)))
    /\ UNCHANGED <<snapped, missing, low, status>>

(* SYS_ZERO on a table or a page of a child (PUT) or of the parent (GET). *)
Zero(s, t) ==
    /\ Do(RemoveTop(pm, s, t), [mem EXCEPT ![s][t] = [l \in Lows |-> ZeroPage]])
    /\ UNCHANGED <<snapped, shared, missing, low, status>>

ZeroOne(s, t, l) ==
    /\ Do(RemovePart(pm, s, t, l), [mem EXCEPT ![s][t][l] = ZeroPage])
    /\ UNCHANGED <<snapped, shared, missing, low, status>>

(* SYS_PERM on a page of a child (PUT) or of the parent (GET). *)
Perm(s, t, l, perm) ==
    /\ Do(SetPerm(pm, s, t, l, perm), mem)
    /\ UNCHANGED <<snapped, shared, missing, low, status>>

(* SYS_SNAP: the whole child is copied to its reference page map; with
   SYS_COPY (fork, tfork) the whole parent is first copied to the child. *)
CopyAll(m, s, d) ==
    LET copied[t \in 0 .. NTops] == IF t = 0 THEN m ELSE CopyTop(copied[t - 1], s, d, t)
    IN copied[NTops]

Snapshot(c, copy) ==
    LET copied == IF copy THEN CopyAll(pm, Pml4("p"), Pml4(c)) ELSE pm
        child == IF copy THEN Pml4("p") ELSE Pml4(c)
    IN
    /\ Do(CopyAll(copied, Pml4(c), Snap(c)),
          [mem EXCEPT ![Pml4(c)] = mem[child], ![Snap(c)] = mem[child]])
    /\ snapped' = snapped \cup {c}
    /\ UNCHANGED <<shared, missing, low, status>>

(* SYS_MERGE of a table of a child that has been snapshotted: entry by entry
   where snapshot, child and parent all differ. *)
Merges(m, c, t) ==
    /\ m.root[Pml4(c)][t] # m.root[Snap(c)][t]
    /\ m.root[Pml4("p")][t] # m.root[Snap(c)][t]

LacksTable(m, c, t) == \E s \in {Snap(c), Pml4(c), Pml4("p")} : m.root[s][t].a = 0

MergedSpace(r, s, d) ==
    LET changed(x, l) == {b \in Bytes : x[l][b] # r[l][b]}
    IN [l \in Lows |-> IF changed(s, l) \cap changed(d, l) # {} THEN ZeroPage
                       ELSE [b \in Bytes |-> IF b \in changed(s, l) THEN s[l][b] ELSE d[l][b]]]

Merge(c, t) ==
    LET x == MergeTop([m |-> pm, low |-> low, status |-> status], Snap(c), Pml4(c), Pml4("p"), t)
    IN
    /\ c \in snapped
    /\ Do(x.m, [mem EXCEPT ![Pml4("p")][t] = MergedSpace(mem[Snap(c)][t], mem[Pml4(c)][t], @)])
    /\ low' = x.low /\ status' = x.status
    /\ shared' = (shared \/ (Merges(pm, c, t) /\ InUse(pm, Pml4("p"), t)))
    /\ missing' = (missing \/ (Merges(pm, c, t) /\ LacksTable(pm, c, t)))
    /\ UNCHANGED snapped

Next ==
    \E t \in Tops :
      \/ \E c \in Procs, l \in Lows, b \in Bytes, v \in Values : Store(c, t, l, b, v)
      \/ \E c \in Procs :
           \/ Zero(Pml4(c), t)
           \/ \E l \in Lows : ZeroOne(Pml4(c), t, l)
           \/ \E l \in Lows, perm \in Perms : Perm(Pml4(c), t, l, perm)
      \/ \E c \in Children :
           \/ Copy(Pml4("p"), Pml4(c), t)
           \/ Copy(Pml4(c), Pml4("p"), t)
           \/ \E l \in Lows : CopyPage(Pml4("p"), Pml4(c), t, l) \/ CopyPage(Pml4(c), Pml4("p"), t, l)
      \/ \E c \in Children : Merge(c, t) \/ \E copy \in BOOLEAN : Snapshot(c, copy)

Spec == Init /\ [][Next]_vars

-----------------------------------------------------------------------------
(* Correctness *)

Entry == [a : 0 .. NFrames, w : BOOLEAN, perm : Perms]
(* Types.  No reference count becomes negative, which mem_decref asserts. *)
TypeOK ==
    /\ pm.root \in [Pmaps -> [Tops -> Entry]]
    /\ pm.tab \in [Frames -> [Lows -> Entry]]
    /\ pm.page \in [Frames -> [Bytes -> Values \cup {0}]]
    /\ pm.ref \in [Frames -> Nat]
    /\ low \in [Bytes -> Values \cup {0}] /\ status \in {"ok", "assert", "zerofreed"}

(* The reference count of every frame is the number of entries that refer to
   it: nothing is freed that is still used, and nothing leaks. *)
RefExact ==
    \A f \in Frames :
      pm.ref[f] = Cardinality({x \in Pmaps \X Tops : pm.root[x[1]][x[2]].a = f})
                  + Cardinality({x \in Frames \X Lows : pm.ref[x[1]] > 0 /\ pm.tab[x[1]][x[2]].a = f})

(* A page that the MMU lets a process write is visible in no other address
   space: on the way to it no table and no page has a second reference. *)
WritableIsPrivate ==
    \A s \in Pmaps, t \in Tops, l \in Lows :
      LET dir == pm.root[s][t]
          pte == pm.tab[dir.a][l]
      IN dir.a # 0 /\ dir.w /\ pte.w => pm.ref[dir.a] = 1 /\ pte.a # 0 /\ pm.ref[pte.a] = 1

(* Copy on write is invisible: every address space reads as if PUT, GET, SNAP
   and MERGE copied their pages at once. *)
ReadsAsCopied == \A s \in Pmaps, t \in Tops, l \in Lows : Reads(pm, s, t, l) = mem[s][t][l]

(* The same until an operation has modified a table that another address
   space uses as well, a merge has come to a missing table, or the kernel has
   stopped or given the zero page away. *)
ReadsAsCopiedUnshared == status = "ok" /\ ~shared /\ ~missing => ReadsAsCopied

(* With a table wherever a merge needs one, copy on write is invisible.  Not
   so: pmap_copy and pmap_merge use a destination's table that is shared. *)
CopiesAreSeparate == status = "ok" /\ ~missing => ReadsAsCopied

(* The zero page is never released, which mem_decref means to assert.  Not so,
   even where no table is missing: a merge releases it when the page in the
   destination is still the zero page. *)
ZeroPageKept == status = "zerofreed" => missing

(* A merge handles a snapshot or a child without a table.  Not so: it fails
   an assertion about physical page 0. *)
MergeCompletes == status # "assert"
=============================================================================
