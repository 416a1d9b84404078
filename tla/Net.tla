-------------------------------- MODULE Net --------------------------------
(***************************************************************************)
(* Migration of processes between nodes (kern/net.c, with the parts of     *)
(* kern/mem.c and kern/pmap.c it relies on).                               *)
(*                                                                         *)
(* A process that names another node in a PUT or GET, or that returns away *)
(* from home, is marked MIGR and a MIGRQ with its registers and a remote   *)
(* reference (RR) to its page directory goes to the other node, which      *)
(* answers MIGRP and pulls the directory and then every page it refers to  *)
(* with PULLRQ and PULLRP; a page travels in Parts.  The clock retransmits *)
(* MIGRQ and PULLRQ.                                                       *)
(*                                                                         *)
(* A node handles one packet at a time; an action is one handler, or one   *)
(* turn of the loop at the end of net_rxpullrp, during which rx[n] names   *)
(* the process the handler works for.  A failed assertion stops the node;  *)
(* the ones that are modelled are named at NoPanic.                        *)
(* A page is one word per part; page directories and page tables are one   *)
(* level here, and permissions are left out.  Packets between two nodes    *)
(* keep their order.                                                       *)
(*                                                                         *)
(* An operator named X_Y is a wrong version of the operator X.             *)
(***************************************************************************)
EXTENDS Integers, Sequences, FiniteSets, SequencesExt

CONSTANTS
    Nodes,      \* node numbers, from 1
    Procs,      \* processes, 1 .. the number of them
    Home,       \* home node of each process
    DataPage,   \* address, at home, of the one page a process starts with
    NParts,     \* parts of a page
    Addrs,      \* page addresses of a node
    MaxWork,    \* bound: steps of a process in user mode
    Budgets     \* bounds on a behaviour: the nodes that processes go to, the pages
                \* they write, the migrations they make, the packets lost, and the
                \* packets between two nodes before the clock retransmits

Parts == 0 .. NParts - 1

ASSUME NetAssumption ==
    /\ NParts \in Nat \ {0} /\ 0 \notin Nodes /\ Addrs \subseteq Nat \ {0}
    /\ IsFiniteSet(Procs)
    /\ Home \in [Procs -> Nodes] /\ Procs \subseteq Addrs
    /\ DataPage \in [Procs -> Addrs \ Procs]
    /\ MaxWork \in Nat
    /\ Budgets \subseteq [dests : SUBSET Nodes, writes : SUBSET Parts, migr : Nat,
                          loss : Nat, queue : Nat]

NoProc == 0

(* A word of a page: data, or an entry of a page directory. *)
Word(k, n, a) == [k |-> k, n |-> n, a |-> a]
Data(v) == Word("data", 0, v)
Zero == Word("zero", 0, 0)
Local(a) == Word("local", 0, a)
RR(n, a) == Word("remote", n, a)
ZeroRR == RR(0, 0)
NoRR == ZeroRR

Blank == [i \in Parts |-> Zero]
FreePage == [ref |-> 0, home |-> NoRR, shared |-> {}, data |-> Blank]

VARIABLES
    proc,       \* proc[n][p]: the proc structure of p at node n
    page,       \* page[n][a]: contents and pageinfo of page a of node n
    pulllist,   \* net_pulllist of each node
    rx,         \* process that the packet handler of each node works for
    panicked,   \* nodes stopped by a failed assertion
    net,        \* packets from one node to another
    budget,     \* what is left of the budget
    done,       \* history: steps each process has made
    mem         \* history: what each process last wrote to each of its pages

vars == <<proc, page, pulllist, rx, panicked, net, budget, done, mem>>
history == <<done, mem>>

Channels == {c \in Nodes \X Nodes : c[1] # c[2]}

NewProc == [state |-> "NONE", sv |-> 0, migrdest |-> 0, pml4 |-> 0, pullva |-> 0,
            pullrr |-> NoRR, pullpg |-> 0, arrived |-> {}, pullnext |-> NoProc]

(* Each process is ready at its home with one page of its own, or one that
   it shares with another process. *)
Init ==
    /\ proc = [n \in Nodes |-> [p \in Procs |->
                 IF n = Home[p] THEN [NewProc EXCEPT !.state = "READY", !.pml4 = p]
                                ELSE NewProc]]
    /\ page = [n \in Nodes |-> [a \in Addrs |->
                 LET users == {p \in Procs : Home[p] = n /\ DataPage[p] = a} IN
                 IF a \in Procs /\ Home[a] = n
                 THEN [FreePage EXCEPT !.ref = 1,
                          !.data = [Blank EXCEPT ![0] = Local(DataPage[a])]]
                 ELSE IF users # {}
                 THEN [FreePage EXCEPT !.ref = Cardinality(users),
                          !.data = [i \in Parts |-> Data(0)]]
                 ELSE FreePage]]
    /\ pulllist = [n \in Nodes |-> <<>>]
    /\ rx = [n \in Nodes |-> NoProc]
    /\ panicked = {}
    /\ net = [c \in Channels |-> <<>>]
    /\ budget \in Budgets
    /\ done = [p \in Procs |-> 0]
    /\ mem = [p \in Procs |-> [va \in Parts |-> 0]]

-----------------------------------------------------------------------------
(* Pages *)

(* mem_alloc: a page neither in use nor kept for other nodes. *)
FreeAddrs(n) == {a \in Addrs : page[n][a].ref = 0 /\ page[n][a].shared = {}}
Alloc(n) == CHOOSE a \in FreeAddrs(n) : TRUE

(* mem_rrlookup *)
Tracked(n, rr) == {a \in Addrs : page[n][a].home = rr}

(* mem_decref of a page directory: the last reference frees it and drops its
   references to pages, unless other nodes hold remote references to it. *)
DropPmap(pages, a) ==
    LET users(b) == Cardinality({i \in Parts : pages[a].data[i] = Local(b)}) IN
    IF a = 0 THEN pages
    ELSE IF pages[a].ref > 1 \/ pages[a].shared # {}
    THEN [pages EXCEPT ![a].ref = @ - 1]
    ELSE [b \in Addrs |-> IF b = a THEN FreePage ELSE [pages[b] EXCEPT !.ref = @ - users(b)]]

-----------------------------------------------------------------------------
(* Packets *)

Migrq(p, n, r) == [type |-> "MIGRQ", p |-> p, pml4 |-> RR(n, r.pml4), sv |-> r.sv]
Migrp(p) == [type |-> "MIGRP", p |-> p]

(* The parts of the page that have not arrived. *)
Need_Unflipped(arrived) == arrived
Need(arrived) == Parts \ arrived
Pullrq(rr, level, arrived) ==
    [type |-> "PULLRQ", rr |-> rr, level |-> level, need |-> Need(arrived)]
Pullrp(rr, i, word) == [type |-> "PULLRP", rr |-> rr, part |-> i, data |-> word]

Level(r) == IF r.pullpg = r.pml4 THEN "PDIR" ELSE "PAGE"

(* Receive the first packet from s at n and send out to d. *)
Exchange(s, n, d, out) ==
    net' = [net EXCEPT ![<<s, n>>] = Tail(@), ![<<n, d>>] = @ \o out]

Receives(s, n, type) ==
    /\ n \notin panicked /\ rx[n] = NoProc
    /\ <<s, n>> \in Channels /\ net[<<s, n>>] # <<>>
    /\ Head(net[<<s, n>>]).type = type

Panic(n) ==
    /\ panicked' = panicked \cup {n}
    /\ UNCHANGED <<proc, page, pulllist, rx, net, budget, history>>

-----------------------------------------------------------------------------
(* The process in user mode, and proc_sched *)

Running(n, p) == n \notin panicked /\ proc[n][p].state = "RUN"

ProcRun(n, p) ==
    /\ n \notin panicked /\ proc[n][p].state = "READY"
    /\ proc' = [proc EXCEPT ![n][p].state = "RUN"]
    /\ UNCHANGED <<page, pulllist, rx, panicked, net, budget, history>>

Work(n, p) ==
    /\ Running(n, p) /\ done[p] < MaxWork
    /\ proc' = [proc EXCEPT ![n][p].sv = @ + 1]
    /\ done' = [done EXCEPT ![p] = @ + 1]
    /\ UNCHANGED <<page, pulllist, rx, panicked, net, budget, mem>>

(* A store, with pmap_pagefault: a page with more than one reference and the
   zero page are copied first, another one is written in place. *)
Write(n, p, va) ==
    LET dir == proc[n][p].pml4
        word == page[n][dir].data[va]
        new == [i \in Parts |-> Data(mem[p][va] + 1)]
        alone == word # Zero /\ page[n][word.a].ref <= 1
        a == Alloc(n)
        copied == [page[n] EXCEPT ![dir].data[va] = Local(a),
                                  ![a] = [FreePage EXCEPT !.ref = 1, !.data = new]]
    IN
    /\ Running(n, p) /\ mem[p][va] < MaxWork
    /\ IF ~alone /\ FreeAddrs(n) = {} THEN Panic(n)
       ELSE /\ page' = [page EXCEPT ![n] =
                 IF alone THEN [page[n] EXCEPT ![word.a].data = new]
                 ELSE IF word = Zero THEN copied
                 ELSE [copied EXCEPT ![word.a].ref = @ - 1]]
            /\ mem' = [mem EXCEPT ![p][va] = @ + 1]
            /\ UNCHANGED <<proc, pulllist, rx, panicked, net, budget, done>>

(* do_put, do_get or proc_ret needs another node: net_migrate puts the
   process on the migration list and sends the request. *)
Leaving_Runs(r, dst) == r
Leaving(r, dst) == [r EXCEPT !.state = "MIGR", !.migrdest = dst]

Migrate(n, p, dst) ==
    LET r == Leaving(proc[n][p], dst) IN
    /\ Running(n, p) /\ dst # n /\ dst \in budget.dests /\ budget.migr > 0
    /\ IF proc[n][p].migrdest # 0 THEN Panic(n)
       ELSE /\ proc' = [proc EXCEPT ![n][p] = r]
            /\ net' = [net EXCEPT ![<<n, dst>>] = Append(@, Migrq(p, n, r))]
            /\ budget' = [budget EXCEPT !.migr = @ - 1]
            /\ UNCHANGED <<page, pulllist, rx, panicked, history>>

-----------------------------------------------------------------------------
(* net_pull: r is put on the pull list of n to pull rr into page a.  *)
StartPull(r, n, rr, a) ==
    [r EXCEPT !.state = "PULL", !.pullrr = rr, !.pullpg = a, !.arrived = {},
              !.pullnext = IF pulllist[n] = <<>> THEN NoProc ELSE Head(pulllist[n])]

(* net_rxmigrq: a process that is not away is taken for a duplicate. *)
IsAway(state) == state \in {"NONE", "AWAY"}

(* The state that the request brings, and a fresh page directory a. *)
Arrive_OldSave(old, m, a) == [old EXCEPT !.pullva = 0, !.pml4 = a]
Arrive(old, m, a) == [old EXCEPT !.sv = m.sv, !.pullva = 0, !.pml4 = a]

RxMigrqDuplicate(s, n) ==
    LET m == Head(net[<<s, n>>]) IN
    /\ Receives(s, n, "MIGRQ")
    /\ ~IsAway(proc[n][m.p].state)
    /\ Exchange(s, n, s, <<Migrp(m.p)>>)
    /\ UNCHANGED <<proc, page, pulllist, rx, panicked, budget, history>>

RxMigrq(s, n) ==
    LET m == Head(net[<<s, n>>])
        p == m.p
        old == proc[n][p]
        dropped == DropPmap(page[n], old.pml4)
        a == Alloc(n)
        r == StartPull(Arrive(old, m, a), n, m.pml4, a)
    IN
    /\ Receives(s, n, "MIGRQ")
    /\ IsAway(old.state)
    /\ IF FreeAddrs(n) = {} \/ old.pullnext # NoProc
       THEN /\ panicked' = panicked \cup {n}
            /\ Exchange(s, n, s, <<Migrp(p)>>)
            /\ UNCHANGED <<proc, page, pulllist, rx, budget, history>>
       ELSE /\ proc' = [proc EXCEPT ![n][p] = r]
            /\ page' = [page EXCEPT ![n] = [dropped EXCEPT ![a] = [FreePage EXCEPT !.ref = 1]]]
            /\ pulllist' = [pulllist EXCEPT ![n] = <<p>> \o @]
            /\ Exchange(s, n, s, <<Migrp(p), Pullrq(m.pml4, Level(r), {})>>)
            /\ UNCHANGED <<rx, panicked, budget, history>>

(* net_rxmigrp: if the process is on the migration list, it is away now. *)
RxMigrp_Unlisted(s, n) ==
    LET p == Head(net[<<s, n>>]).p IN
    /\ Receives(s, n, "MIGRP")
    /\ proc' = [proc EXCEPT ![n][p].state = "AWAY", ![n][p].migrdest = 0]
    /\ Exchange(s, n, s, <<>>)
    /\ UNCHANGED <<page, pulllist, rx, panicked, budget, history>>
RxMigrp(s, n) ==
    LET p == Head(net[<<s, n>>]).p IN
    /\ Receives(s, n, "MIGRP")
    /\ proc' = IF proc[n][p].state = "MIGR"
               THEN [proc EXCEPT ![n][p].state = "AWAY", ![n][p].migrdest = 0]
               ELSE proc
    /\ Exchange(s, n, s, <<>>)
    /\ UNCHANGED <<page, pulllist, rx, panicked, budget, history>>

-----------------------------------------------------------------------------
(* Pulling pages *)

(* net_txpullrp: an entry of a page directory is sent as a remote reference.
   Entries are well formed and of one level here.  The code still reads them as
   32-bit words, which is part of the unfinished port to 64 bits, and asserts
   that each names a page in use. *)
ToRemote(n, word) ==
    CASE word.k = "remote" -> word
      [] word.k = "zero"   -> ZeroRR
      [] word.k = "local"  -> IF page[n][word.a].home # NoRR THEN page[n][word.a].home
                              ELSE RR(n, word.a)

(* net_rrshare *)
Share(pg, s) == [pg EXCEPT !.shared = @ \cup {s}]

(* The numbers in S, in ascending order. *)
InOrder(S) ==
    {f \in [1 .. Cardinality(S) -> S] : \A i, j \in DOMAIN f : i < j => f[i] < f[j]}

(* net_rxpullrq *)
RxPullrq(s, n) ==
    LET m == Head(net[<<s, n>>])
        pg == page[n][m.rr.a]
        word(i) == IF m.level = "PDIR" THEN ToRemote(n, pg.data[i]) ELSE pg.data[i]
    IN
    /\ Receives(s, n, "PULLRQ")
    /\ IF pg.ref = 0 \/ pg.home # NoRR
       THEN Exchange(s, n, s, <<>>) /\ UNCHANGED page
       ELSE /\ \E parts \in InOrder(m.need) :
                 Exchange(s, n, s, [j \in DOMAIN parts |->
                                     Pullrp(m.rr, parts[j], word(parts[j]))])
            /\ page' = [page EXCEPT ![n][m.rr.a] = Share(@, s)]
    /\ UNCHANGED <<proc, pulllist, rx, panicked, budget, history>>

(* The places on the list of n of the processes that pull rr; the first counts. *)
Pullers(n, rr) == {i \in DOMAIN pulllist[n] : proc[n][pulllist[n][i]].pullrr = rr}
IsFirst(i, S) == i \in S /\ \A j \in S : i <= j

(* net_rxpullrp up to the last part of the page. *)
RxPullrpStale(s, n) ==
    LET m == Head(net[<<s, n>>]) IN
    /\ Receives(s, n, "PULLRP")
    /\ \A i \in Pullers(n, m.rr) : IsFirst(i, Pullers(n, m.rr)) =>
         m.part \in proc[n][pulllist[n][i]].arrived
    /\ Exchange(s, n, s, <<>>)
    /\ UNCHANGED <<proc, page, pulllist, rx, panicked, budget, history>>

(* Whether all parts of the page have arrived. *)
Complete(arrived) == arrived = Parts

RxPullrp(s, n, i) ==
    LET m == Head(net[<<s, n>>])
        p == pulllist[n][i]
        arrived == proc[n][p].arrived \cup {m.part}
        prev == {q \in Range(pulllist[n]) : proc[n][q].pullnext = p}
    IN
    /\ Receives(s, n, "PULLRP")
    /\ IsFirst(i, Pullers(n, m.rr)) /\ m.part \notin proc[n][p].arrived
    /\ page' = [page EXCEPT ![n][proc[n][p].pullpg].data[m.part] = m.data]
    /\ IF Complete(arrived)
       THEN /\ pulllist' = [pulllist EXCEPT ![n] = RemoveAt(@, i)]
            /\ rx' = [rx EXCEPT ![n] = p]
            /\ proc' = [proc EXCEPT ![n] = [q \in Procs |->
                 IF q = p THEN [proc[n][p] EXCEPT !.arrived = arrived]
                 ELSE IF q \in prev THEN [proc[n][q] EXCEPT !.pullnext = proc[n][p].pullnext]
                 ELSE proc[n][q]]]
       ELSE /\ proc' = [proc EXCEPT ![n][p].arrived = arrived]
            /\ UNCHANGED <<pulllist, rx>>
    /\ Exchange(s, n, s, <<>>)
    /\ UNCHANGED <<panicked, budget, history>>

-----------------------------------------------------------------------------
(* The loop of net_rxpullrp over the address space, with net_pullpte *)

Entry(n, p) == page[n][proc[n][p].pml4].data[proc[n][p].pullva]

(* A turn that makes word the entry and goes on, with a reference to a. *)
Resolve(n, p, word, a) ==
    LET dir == proc[n][p].pml4
        va == proc[n][p].pullva
        set == [page[n] EXCEPT ![dir].data[va] = word]
    IN
    /\ page' = [page EXCEPT ![n] = IF a = 0 THEN set ELSE [set EXCEPT ![a].ref = @ + 1]]
    /\ proc' = [proc EXCEPT ![n][p].pullva = va + 1]
    /\ UNCHANGED <<pulllist, rx, panicked, net, budget, history>>

Pulling(n, p) == n \notin panicked /\ rx[n] = p /\ proc[n][p].pullva < NParts

PullLocal(n, p) ==
    /\ Pulling(n, p) /\ Entry(n, p).k # "remote"
    /\ Resolve(n, p, Entry(n, p), 0)

PullZero(n, p) ==
    /\ Pulling(n, p) /\ Entry(n, p) = ZeroRR
    /\ Resolve(n, p, Zero, 0)

PullOwn(n, p) ==
    LET rr == Entry(n, p) IN
    /\ Pulling(n, p) /\ rr.k = "remote" /\ rr.n = n
    /\ IF page[n][rr.a].home # NoRR \/ page[n][rr.a].shared = {} THEN Panic(n)
       ELSE Resolve(n, p, Local(rr.a), rr.a)

PullTracked(n, p) ==
    LET rr == Entry(n, p) IN
    /\ Pulling(n, p) /\ rr.k = "remote" /\ rr.n \notin {0, n}
    /\ \E a \in Tracked(n, rr) :
         IF page[n][a].shared = {} THEN Panic(n) ELSE Resolve(n, p, Local(a), a)

PullPage(n, p) ==
    LET rr == Entry(n, p)
        a == Alloc(n)
        r == StartPull(proc[n][p], n, rr, a)
    IN
    /\ Pulling(n, p) /\ rr.k = "remote" /\ rr.n \notin {0, n}
    /\ Tracked(n, rr) = {}
    /\ IF FreeAddrs(n) = {} \/ proc[n][p].pullnext # NoProc THEN Panic(n)
       ELSE /\ proc' = [proc EXCEPT ![n][p] = r]
            /\ page' = [page EXCEPT
                  ![n][proc[n][p].pml4].data[proc[n][p].pullva] = Local(a),
                  ![n][a] = [FreePage EXCEPT !.ref = 1, !.home = rr, !.shared = {rr.n}]]
            /\ pulllist' = [pulllist EXCEPT ![n] = <<p>> \o @]
            /\ net' = [net EXCEPT ![<<n, rr.n>>] = Append(@, Pullrq(rr, Level(r), {}))]
            /\ rx' = [rx EXCEPT ![n] = NoProc]
            /\ UNCHANGED <<panicked, budget, history>>

PullDone(n, p) ==
    /\ n \notin panicked /\ rx[n] = p /\ proc[n][p].pullva = NParts
    /\ proc' = [proc EXCEPT ![n][p].state = "READY"]
    /\ rx' = [rx EXCEPT ![n] = NoProc]
    /\ UNCHANGED <<page, pulllist, panicked, net, budget, history>>

-----------------------------------------------------------------------------
(* The clock, and the network *)

(* net_tick retransmits the requests of every process on the two lists, those
   of one list in any order. *)
Retransmits(n, d) ==
    LET migr == SetToSeq({p \in Procs : proc[n][p].state = "MIGR" /\ proc[n][p].migrdest = d})
        pull == SetToSeq({p \in Range(pulllist[n]) : proc[n][p].pullrr.n = d})
    IN [i \in 1 .. Len(migr) |-> Migrq(migr[i], n, proc[n][migr[i]])]
       \o [i \in 1 .. Len(pull) |->
             LET r == proc[n][pull[i]] IN Pullrq(r.pullrr, Level(r), r.arrived)]

Tick(n) ==
    /\ n \notin panicked /\ rx[n] = NoProc
    /\ \E d \in Nodes \ {n} : Retransmits(n, d) # <<>>
    /\ \A d \in Nodes \ {n} : Retransmits(n, d) # <<>> =>
                              Len(net[<<n, d>>]) + Len(net[<<d, n>>]) < budget.queue
    /\ net' = [c \in Channels |-> IF c[1] = n THEN net[c] \o Retransmits(n, c[2]) ELSE net[c]]
    /\ UNCHANGED <<proc, page, pulllist, rx, panicked, budget, history>>

(* The network loses a packet. *)
Lose(c) ==
    /\ net[c] # <<>> /\ budget.loss > 0
    /\ net' = [net EXCEPT ![c] = Tail(@)]
    /\ budget' = [budget EXCEPT !.loss = @ - 1]
    /\ UNCHANGED <<proc, page, pulllist, rx, panicked, history>>

-----------------------------------------------------------------------------
Rx(s, n) ==
    \/ RxMigrqDuplicate(s, n) \/ RxMigrq(s, n) \/ RxMigrp(s, n)
    \/ RxPullrq(s, n) \/ RxPullrpStale(s, n)
    \/ \E i \in DOMAIN pulllist[n] : RxPullrp(s, n, i)

PullLoop(n, p) ==
    \/ PullLocal(n, p) \/ PullZero(n, p) \/ PullOwn(n, p)
    \/ PullTracked(n, p) \/ PullPage(n, p) \/ PullDone(n, p)

User(n, p) ==
    \/ Work(n, p)
    \/ \E va \in budget.writes : Write(n, p, va)
    \/ \E dst \in Nodes : Migrate(n, p, dst)

Next ==
    \/ \E n \in Nodes, p \in Procs : ProcRun(n, p) \/ User(n, p) \/ PullLoop(n, p)
    \/ \E s, n \in Nodes : Rx(s, n)
    \/ \E n \in Nodes : Tick(n)
    \/ \E c \in Channels : Lose(c)

Spec == Init /\ [][Next]_vars

(* Packets that arrive are handled, the handler's loop goes on, a ready
   process gets a CPU, and the clock ticks. *)
FairSpec ==
    /\ Spec
    /\ \A s, n \in Nodes : WF_vars(Rx(s, n))
    /\ \A n \in Nodes, p \in Procs : WF_vars(ProcRun(n, p)) /\ WF_vars(PullLoop(n, p))
    /\ \A n \in Nodes : WF_vars(Tick(n))

-----------------------------------------------------------------------------
(* Correctness *)

Words == [k : {"data", "zero", "local", "remote"}, n : Nodes \cup {0}, a : Nat]
ProcRecords ==
    [state : {"NONE", "READY", "RUN", "MIGR", "AWAY", "PULL"}, sv : Nat,
     migrdest : Nodes \cup {0}, pml4 : Addrs \cup {0}, pullva : 0 .. NParts, pullrr : Words,
     pullpg : Addrs \cup {0}, arrived : SUBSET Parts, pullnext : Procs \cup {NoProc}]
PageRecords == [ref : Int, home : Words, shared : SUBSET Nodes, data : [Parts -> Words]]
Packets ==
         [type : {"MIGRQ"}, p : Procs, pml4 : Words, sv : Nat]
    \cup [type : {"MIGRP"}, p : Procs]
    \cup [type : {"PULLRQ"}, rr : Words, level : {"PDIR", "PAGE"}, need : SUBSET Parts]
    \cup [type : {"PULLRP"}, rr : Words, part : Parts, data : Words]

(* Types.  A process never migrates to the node it is on, and a page is never
   shared with its own node. *)
TypeOK ==
    /\ proc \in [Nodes -> [Procs -> ProcRecords]]
    /\ \A n \in Nodes, p \in Procs : proc[n][p].migrdest # n
    /\ page \in [Nodes -> [Addrs -> PageRecords]]
    /\ \A n \in Nodes, a \in Addrs : n \notin page[n][a].shared
    /\ pulllist \in [Nodes -> Seq(Procs)]
    /\ rx \in [Nodes -> Procs \cup {NoProc}]
    /\ panicked \subseteq Nodes
    /\ net \in [Channels -> Seq(Packets)]
    /\ budget \in [dests : SUBSET Nodes, writes : SUBSET Parts, migr : Nat, loss : Nat,
                    queue : Nat]
    /\ done \in [Procs -> Nat]
    /\ mem \in [Procs -> [Parts -> Nat]]

At(n, p) == proc[n][p].state \in {"READY", "RUN"}

(* A process is on one node: two nodes never both have it ready, running or
   pulled in, however often the clock has retransmitted its requests. *)
OneOwner ==
    \A p \in Procs : Cardinality({n \in Nodes : At(n, p) \/ proc[n][p].state = "PULL"}) <= 1

(* A process goes on with the registers it had when it left the last node:
   an old request never takes it back to an earlier point. *)
NoRollback == \A n \in Nodes, p \in Procs : At(n, p) => proc[n][p].sv = done[p]

(* A process is never forgotten by all nodes: one has it, or a request that
   carries it is on its way. *)
NeverForgotten ==
    \A p \in Procs :
      \/ \E n \in Nodes : At(n, p) \/ proc[n][p].state \in {"PULL", "MIGR"}
      \/ \E c \in Channels : \E m \in Range(net[c]) : m.type = "MIGRQ" /\ m.p = p

(* A process is made ready only when all its pages have arrived: "We've pulled
   the proc's entire address space: it's ready to go!" (kern/net.c:639). *)
PagesArrived ==
    \A n \in Nodes, p \in Procs : At(n, p) =>
      \A va \in Parts :
        LET word == page[n][proc[n][p].pml4].data[va] IN
        /\ word.k # "remote"
        /\ word.k = "local" => \A i \in Parts : page[n][word.a].data[i].k = "data"

(* A process finds in its memory what it last wrote, wherever that was: a page
   that is written in place because "refcount is 1, we have the only ref"
   (kern/pmap.c:690) is not found under its remote reference elsewhere. *)
MemoryFollows ==
    \A n \in Nodes, p \in Procs : At(n, p) =>
      \A va \in Parts :
        LET word == page[n][proc[n][p].pml4].data[va] IN
        IF word = Zero THEN mem[p][va] = 0
        ELSE page[n][word.a].data = [i \in Parts |-> Data(mem[p][va])]

(* None of the assertions that Net models fails: those on migrdest and pullnext
   (kern/net.c:222, 385), on the allocation of a page directory, of a page to
   pull into and of one to copy into, and on the home and shared fields of a
   page that an RR names (kern/net.c:667, 668 and 681). *)
NoPanic == panicked = {}

(* A process that leaves a node runs again. *)
Arrives ==
    \A p \in Procs :
      (\E n \in Nodes : proc[n][p].state = "MIGR") ~> (\E n \in Nodes : proc[n][p].state = "RUN")
=============================================================================
