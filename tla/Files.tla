------------------------------- MODULE Files -------------------------------
(***************************************************************************)
(* The user-level file system and its reconciliation between a process and *)
(* its children (lib/fork.c, lib/file.c, lib/dir.c, lib/unistd.c).         *)
(*                                                                         *)
(* Every process has a whole file system in its memory.  fork copies it;   *)
(* from then on parent and child change their copies alone, and waitpid    *)
(* synchronises them whenever the child returns: for reading input that is *)
(* not there yet, for fsync, or to exit.  An inode carries the version,    *)
(* size and inode number of the parent's copy at the last reconciliation.  *)
(*                                                                         *)
(* A process is one actor.  Its file operations are local; one action of   *)
(* the parent covers what waitpid does between two blocking system calls,  *)
(* which is possible because the child is stopped during all of it.  The   *)
(* copy of the child's file table that the parent edits at VM_SCRATCHLO is *)
(* therefore the child's table itself.                                     *)
(*                                                                         *)
(* A write writes one byte, and a byte is the change that wrote it; Zero   *)
(* fills a file that truncate makes longer.  All the files are in the root *)
(* directory, whose own inode is left out.                                 *)
(***************************************************************************)
EXTENDS Integers, Sequences, FiniteSets

LOCAL INSTANCE SequencesExt
LOCAL INSTANCE FiniteSetsExt

CONSTANTS
    NProc,          \* processes are 0 .. NProc - 1, and 0 is the root process
    FILE_INODES,    \* inodes are 1 .. FILE_INODES
    OPEN_MAX,       \* descriptors are 0 .. OPEN_MAX - 1
    FILE_MAXSIZE,   \* maximal size of a file
    Names,          \* names of files other than the console files
    InitFiles,      \* those of Names that are there from the start, one byte long
    Deleted,        \* those of Names that a large initial file keeps in the deleted state
    OpenFlags,      \* the flags programs open files with
    Lengths,        \* the lengths programs truncate files to
    MaxChanges,     \* bound: file operations except reads, and keys typed
    MaxTyped,       \* bound: keys typed
    MaxForks        \* bound: processes forked

ASSUME FilesAssumption ==
    /\ NProc \in Nat \ {0} /\ OPEN_MAX \in Nat /\ OPEN_MAX >= 2
    /\ FILE_MAXSIZE \in Nat /\ MaxChanges \in Nat
    /\ MaxTyped \in Nat /\ MaxForks \in Nat
    /\ InitFiles \subseteq Names /\ Deleted \subseteq Names \ InitFiles
    /\ FILE_INODES \in Nat /\ Cardinality(InitFiles \cup Deleted) + 2 <= FILE_INODES
    /\ OpenFlags \subseteq SUBSET {"r", "w", "creat", "trunc", "append"}
    /\ Lengths \subseteq 0 .. FILE_MAXSIZE

Procs == 0 .. NProc - 1
Root == 0
NoProc == -1
Inos == 1 .. FILE_INODES
FILEINO_NULL == 0
FILEINO_CONSIN == 1
FILEINO_CONSOUT == 2
FILEINO_GENERAL == 3
Fds == 0 .. OPEN_MAX - 1
NoName == "none"
Zero == <<>>

VARIABLES
    fi,         \* each process's inodes, with the contents of the files
    fd,         \* each process's descriptors
    pc,         \* what each process is doing, "free" if it does not exist
    parent,     \* the process that forked each process
    wpid,       \* the child each process waits for in waitpid
    outsize,    \* how much of the root's consout the console has shown
    typed,      \* keys typed that the root process has not got yet
    ntyped,     \* keys typed
    nchange,    \* file operations each process has made
    nforked,    \* processes forked
    aborted     \* processes that stopped at an assertion of reconcile

vars == <<fi, fd, pc, parent, wpid, outsize, typed, ntyped, nchange, nforked, aborted>>

\* A field 'has', which the code does not have, remembers the changes a copy
\* of a file derives from.
NoInode == [name |-> NoName, mode |-> {}, ver |-> 0, data |-> <<>>, rino |-> 0,
            rver |-> 0, rlen |-> 0, has |-> {}]

NoFd == [ino |-> FILEINO_NULL, flags |-> {}, ofs |-> 0]

\* file_initroot: the console files and the initial files.
InitInodes ==
    LET order == SetToSeq(InitFiles \cup Deleted)
        InitFile(name) ==
          IF name \in Deleted THEN [NoInode EXCEPT !.name = name]
          ELSE [NoInode EXCEPT !.name = name, !.mode = {"reg"}, !.data = <<Zero>>]
    IN  [i \in Inos |->
           CASE i = FILEINO_CONSIN ->
                    [NoInode EXCEPT !.name = "consin", !.mode = {"reg", "part"}]
             [] i = FILEINO_CONSOUT ->
                    [NoInode EXCEPT !.name = "consout", !.mode = {"reg"}]
             [] i - 2 \in DOMAIN order -> InitFile(order[i - 2])
             [] OTHER -> NoInode]

InitFds ==
    [f \in Fds |->
       CASE f = 0 -> [NoFd EXCEPT !.ino = FILEINO_CONSIN, !.flags = {"r"}]
         [] f = 1 -> [NoFd EXCEPT !.ino = FILEINO_CONSOUT, !.flags = {"w", "append"}]
         [] OTHER -> NoFd]

Init ==
    /\ fi = [p \in Procs |-> InitInodes]
    /\ fd = [p \in Procs |-> InitFds]
    /\ pc = [p \in Procs |-> IF p = Root THEN "run" ELSE "free"]
    /\ parent = [p \in Procs |-> NoProc]
    /\ wpid = [p \in Procs |-> NoProc]
    /\ outsize = 0 /\ typed = <<>> /\ ntyped = 0
    /\ nchange = [p \in Procs |-> 0] /\ nforked = 0
    /\ aborted = {}

-----------------------------------------------------------------------------
(* Inodes *)

Size(i) == Len(i.data)

\* The inodes of table t with a given name.
WithName(t, name) == {i \in FILEINO_GENERAL .. FILE_INODES : t[i].name = name}

First(S) == CHOOSE i \in S : \A j \in S : i <= j

\* fileino_create: the table with an inode for name, and its number or -1.
FileinoCreate(t, name) ==
    LET old == WithName(t, name)
        free == WithName(t, NoName)
    IN  CASE old # {} -> [t |-> t, ino |-> First(old)]
          [] old = {} /\ free # {} ->
               [t |-> [t EXCEPT ![First(free)].name = name], ino |-> First(free)]
          [] OTHER -> [t |-> t, ino |-> -1]

\* The contents after a byte is written at offset ofs, and after a truncation.  A
\* byte of a gap that a write leaves behind the old end is whatever the file's pages
\* held; here it is Zero, and no property looks at it.
Overwrite(data, ofs, b) ==
    [k \in 1 .. IF ofs < Len(data) THEN Len(data) ELSE ofs + 1 |->
       CASE k = ofs + 1 -> b
         [] k # ofs + 1 /\ k <= Len(data) -> data[k]
         [] OTHER -> Zero]

Resized(data, n) == [k \in 1 .. n |-> IF k <= Len(data) THEN data[k] ELSE Zero]

\* fileino_truncate, as change number ch.
FileinoTruncate(i, n, ch) ==
    [i EXCEPT !.data = Resized(@, n), !.ver = @ + 1, !.has = @ \cup {ch}]

\* dir_walk: the inode of a name, re-created as change ch if it was deleted and
\* created if there is none, or -1.
DirWalk(t, name, create, ch) ==
    LET old == {i \in Inos : t[i].name = name}
        free == WithName(t, NoName)
        i == First(IF old # {} THEN old ELSE free)
    IN  CASE old # {} /\ t[i].mode # {} -> [t |-> t, ino |-> i]
          [] old # {} /\ t[i].mode = {} /\ create ->
               [t |-> [t EXCEPT ![i].ver = @ + 1, ![i].mode = {"reg"},
                                ![i].data = <<>>, ![i].has = @ \cup {ch}],
                ino |-> i]
          [] old = {} /\ free # {} /\ create ->
               [t |-> [t EXCEPT ![i].name = name, ![i].ver = 0, ![i].mode = {"reg"},
                                ![i].data = <<>>],
                ino |-> i]
          [] OTHER -> [t |-> t, ino |-> -1]

-----------------------------------------------------------------------------
(* Operations of a running process on its own files *)

Running(p) == pc[p] = "run"
\* A change is the process that makes it and its number.
Change(p) == <<p, nchange[p] + 1>>
MayChange == MapThenSumSet(LAMBDA p : nchange[p], Procs) + ntyped < MaxChanges
OthersSame == UNCHANGED <<pc, parent, wpid, outsize, typed, ntyped, nforked, aborted>>

\* open, fopen: filedesc_alloc, dir_walk, the conflict mark and O_TRUNC without
\* O_WRONLY refused, O_TRUNC.
FiledescOpen(p, name, flags) ==
    LET closed == {f \in Fds : fd[p][f].ino = FILEINO_NULL}
        w == DirWalk(fi[p], name, "creat" \in flags, Change(p))
        refused == "conf" \in w.t[w.ino].mode \/ ("trunc" \in flags /\ "w" \notin flags)
        t == IF "trunc" \in flags /\ ~refused
             THEN [w.t EXCEPT ![w.ino] = FileinoTruncate(@, 0, Change(p))] ELSE w.t
    IN  /\ Running(p) /\ MayChange
        /\ closed # {} /\ w.ino # -1
        /\ fi' = [fi EXCEPT ![p] = t]
        /\ fd' = IF refused THEN fd
                 ELSE [fd EXCEPT ![p][First(closed)] =
                         [ino |-> w.ino, flags |-> flags \cap {"r", "w", "append"},
                          ofs |-> IF "append" \in flags THEN Size(t[w.ino]) ELSE 0]]
        /\ nchange' = [nchange EXCEPT ![p] = @ + 1]
        /\ OthersSame

\* A write that does not append is an exclusive change.
VerAfterWrite_Same(ver, append) == ver

VerAfterWrite(ver, append) == IF append THEN ver ELSE ver + 1

\* write: filedesc_write and fileino_write.  A file at its limit stays as it is.
FiledescWrite(p, f) ==
    LET d == fd[p][f]
        i == fi[p][d.ino]
        append == "append" \in d.flags
        ofs == IF append THEN Size(i) ELSE d.ofs
        fits == ofs + 1 <= FILE_MAXSIZE
    IN  /\ Running(p) /\ MayChange
        /\ d.ino # FILEINO_NULL /\ "w" \in d.flags
        /\ fd' = [fd EXCEPT ![p][f].ofs = IF fits THEN ofs + 1 ELSE ofs]
        /\ fi' = IF ~fits THEN fi
                 ELSE [fi EXCEPT ![p][d.ino] =
                         [i EXCEPT !.data = Overwrite(@, ofs, Change(p)),
                                   !.ver = VerAfterWrite(@, append),
                                   !.has = @ \cup {Change(p)}]]
        /\ nchange' = [nchange EXCEPT ![p] = @ + 1]
        /\ OthersSame

\* lseek: filedesc_seek, to a position within the file; a descriptor for appending
\* is always moved to the end.
FiledescSeek(p, f) ==
    /\ Running(p) /\ MayChange
    /\ fd[p][f].ino # FILEINO_NULL /\ fd[p][f].flags = {"w"}
    /\ \E ofs \in 0 .. Size(fi[p][fd[p][f].ino]) :
         fd' = [fd EXCEPT ![p][f].ofs = ofs]
    /\ nchange' = [nchange EXCEPT ![p] = @ + 1]
    /\ UNCHANGED fi /\ OthersSame

\* close: filedesc_close, of a descriptor other than those for the console.
FiledescClose(p, f) ==
    /\ Running(p) /\ MayChange
    /\ fd[p][f].ino # FILEINO_NULL /\ f > 1
    /\ fd' = [fd EXCEPT ![p][f].ino = FILEINO_NULL]
    /\ nchange' = [nchange EXCEPT ![p] = @ + 1]
    /\ UNCHANGED fi /\ OthersSame

\* truncate: a path is walked without creating it, and the mark is not looked at.
Truncate(p, name, n) ==
    LET w == DirWalk(fi[p], name, FALSE, Change(p))
    IN  /\ Running(p) /\ MayChange
        /\ w.ino # -1
        /\ fi' = [fi EXCEPT ![p][w.ino] = FileinoTruncate(@, n, Change(p))]
        /\ nchange' = [nchange EXCEPT ![p] = @ + 1]
        /\ UNCHANGED fd /\ OthersSame

\* read: filedesc_read of one byte; at the end of a partial file fileino_read
\* returns to the parent and looks again when it is continued.
FiledescRead(p, f) ==
    LET d == fd[p][f]
        i == fi[p][d.ino]
    IN  /\ d.ino # FILEINO_NULL /\ "r" \in d.flags
        /\ Running(p) \/ (pc[p] = "reading" /\ "part" \in i.mode)
        /\ \/ /\ d.ofs < Size(i)
              /\ fd' = [fd EXCEPT ![p][f].ofs = @ + 1]
              /\ pc' = [pc EXCEPT ![p] = "run"]
           \/ /\ d.ofs >= Size(i) /\ "part" \in i.mode
              /\ pc' = [pc EXCEPT ![p] = "read"]
              /\ UNCHANGED fd
        /\ UNCHANGED <<fi, parent, wpid, outsize, typed, ntyped, nchange, nforked, aborted>>

\* fsync: fileino_flush returns to the parent if the file has grown.
FileinoFlush(p, f) ==
    LET i == fi[p][fd[p][f].ino]
    IN  /\ Running(p)
        /\ fd[p][f].ino # FILEINO_NULL
        /\ Size(i) > i.rlen
        /\ pc' = [pc EXCEPT ![p] = "sync"]
        /\ UNCHANGED <<fi, fd, parent, wpid, outsize, typed, ntyped, nchange, nforked, aborted>>

\* exit, and a trap that the process did not ask for.
Exit(p) ==
    /\ Running(p)
    /\ \/ pc' = [pc EXCEPT ![p] = "exit"]
       \/ p # Root /\ pc' = [pc EXCEPT ![p] = "trap"]
    /\ UNCHANGED <<fi, fd, parent, wpid, outsize, typed, ntyped, nchange, nforked, aborted>>
-----------------------------------------------------------------------------
(* Reconciliation of a parent's inode pi with its child's inode ci.  The   *)
(* result is both inodes, whether anything was propagated (did) and        *)
(* whether an assertion failed (fail).                                     *)

\* The assertions at the head of reconcile_inode and of reconcile_merge.
InodeAsserts(pi, ci) ==
    /\ ci.ver >= ci.rver /\ pi.ver >= ci.rver
    /\ ci.ver = ci.rver => Size(ci) >= ci.rlen
    /\ pi.ver = ci.rver => Size(pi) >= ci.rlen
    /\ pi.ver = ci.rver /\ ci.ver = ci.rver => pi.mode = ci.mode

\* A wrong copy: from the beginning of the file.
Grown_FromStart(i, rlen) == SubSeq(i.data, 1, Size(i) - rlen)

\* What inode i has got beyond the common length rlen.
Grown(i, rlen) == SubSeq(i.data, rlen + 1, Size(i))

Conflict(i) == [i EXCEPT !.mode = @ \cup {"conf"}]

TooBig(n) == n > FILE_MAXSIZE

\* The child's inode with the new common length.
Merged_KeepLen(ci, n) == ci

Merged(ci, n) == [ci EXCEPT !.rlen = n]

\* Inode i with the other side's growth.
Exchange(i, grow) == [i EXCEPT !.data = @ \o grow]

\* reconcile_merge: each side appends what the other has appended.
ReconcileMerge(pi, ci) ==
    LET pgrow == Grown(pi, ci.rlen)
        cgrow == Grown(ci, ci.rlen)
        newlen == ci.rlen + Len(pgrow) + Len(cgrow)
        both == pi.has \cup ci.has
    IN  CASE "reg" \notin pi.mode \/ Len(pgrow) + Len(cgrow) = 0 ->
               [p |-> pi, c |-> ci, did |-> FALSE]
          [] "reg" \in pi.mode /\ TooBig(newlen) ->
               [p |-> Conflict(pi), c |-> Conflict(ci), did |-> TRUE]
          [] OTHER ->
               [p |-> [Exchange(pi, cgrow) EXCEPT !.has = both],
                c |-> [Exchange(Merged(ci, newlen), pgrow) EXCEPT !.has = both],
                did |-> TRUE]

\* A copy of inode 'from' over inode 'to', which keeps its own name and links.
CopyInode(to, from) ==
    [to EXCEPT !.ver = from.ver, !.mode = from.mode, !.data = from.data, !.has = from.has]

MaxVer(pi, ci) == IF pi.ver > ci.ver THEN pi.ver ELSE ci.ver

\* The child's inode once the pair is the same on both sides.
Reconciled(ci, pi) == [ci EXCEPT !.rver = pi.ver, !.rlen = Size(pi)]

\* Whether a copy has changed since the last reconciliation.
Changed_VerOnly(i, rver, rlen) == i.ver > rver

Changed(i, rver, rlen) == i.ver > rver \/ Size(i) > rlen

ReconcileInode(pi, ci) ==
    LET pnew == Changed(pi, ci.rver, ci.rlen)
        cnew == Changed(ci, ci.rver, ci.rlen)
        shared == pi.ver = ci.rver /\ ci.ver = ci.rver
        ver == MaxVer(pi, ci)
    IN  CASE shared -> ReconcileMerge(pi, ci)
          [] ~shared /\ pnew /\ cnew ->
               [p |-> [Conflict(pi) EXCEPT !.ver = ver],
                c |-> [Conflict(ci) EXCEPT !.ver = ver, !.rver = ver],
                did |-> TRUE]
          [] ~shared /\ pnew /\ ~cnew ->
               [p |-> pi, c |-> Reconciled(CopyInode(ci, pi), pi), did |-> TRUE]
          [] OTHER ->
               [p |-> CopyInode(pi, ci), c |-> Reconciled(ci, ci), did |-> TRUE]

\* First loop of reconcile: a parent's inode for the child's inode number cino.
\* s holds both tables and the two maps between inode numbers, 0 where undefined.
MapChild(s, cino) ==
    LET ci == s.c[cino]
        found == IF ci.rino = 0 THEN FileinoCreate(s.p, ci.name)
                 ELSE [t |-> s.p, ino |-> ci.rino]
        pino == found.ino
        s1 == [s EXCEPT !.p = found.t, !.c[cino].rino = pino]
        valid == /\ pino \in Inos
                 /\ s1.p[pino].name = ci.name
                 /\ ci.rver <= s1.p[pino].ver /\ ci.rver <= ci.ver
    IN  IF ci.name = NoName \/ (ci.mode = {} /\ ci.rino = 0) THEN s
        ELSE IF ~valid THEN s1
        ELSE [s1 EXCEPT !.p2c[pino] = cino, !.c2p[cino] = pino]

\* Second loop: an inode in the child for the parent's inode number pino.
MapParent(s, pino) ==
    LET pi == s.p[pino]
        found == FileinoCreate(s.c, pi.name)
    IN  IF pi.name = NoName \/ pi.mode = {} \/ s.p2c[pino] # 0 \/ found.ino = -1 THEN s
        ELSE [s EXCEPT !.c = [found.t EXCEPT ![found.ino].rino = pino],
                       !.p2c[pino] = found.ino, !.c2p[found.ino] = pino]

\* Third loop: the pair of the parent's inode number pino.
ReconcilePair(s, pino) ==
    LET cino == s.p2c[pino]
        r == ReconcileInode(s.p[pino], s.c[cino])
    IN  IF s.fail \/ cino = 0 THEN s
        ELSE IF s.c2p[cino] # pino \/ ~InodeAsserts(s.p[pino], s.c[cino])
        THEN [s EXCEPT !.fail = TRUE]
        ELSE [s EXCEPT !.p[pino] = r.p, !.c[cino] = r.c, !.did = @ \/ r.did]

\* A loop over the inode numbers that carries s along.
ForAllInos(Body(_, _), s) ==
    LET after[i \in 0 .. FILE_INODES] ==
          IF i = 0 THEN s ELSE CHOOSE r \in {Body(x, i) : x \in {after[i - 1]}} : TRUE
    IN  after[FILE_INODES]

\* reconcile, of the parent's table p with the child's table c.
Reconcile(p, c) ==
    LET cons == [i \in Inos |-> IF i < FILEINO_GENERAL THEN i ELSE 0]
    IN  ForAllInos(ReconcilePair, ForAllInos(MapParent, ForAllInos(MapChild,
            [p |-> p, c |-> c, p2c |-> cons, c2p |-> cons,
             did |-> FALSE, fail |-> FALSE])))

-----------------------------------------------------------------------------
(* fork, waitpid and the root process's own I/O *)

\* p and all the processes below it.
Below(p) ==
    LET above[c \in Procs] == c = p \/ (parent[c] # NoProc /\ above[parent[c]])
    IN  {c \in Procs : above[c]}

\* fork: the first free slot gets a copy of everything, and the child notes
\* what each inode was like.
Fork(p) ==
    LET free == {c \in Procs : pc[c] = "free"}
        c == First(free)
    IN  /\ Running(p) /\ free # {} /\ nforked < MaxForks
        /\ nforked' = nforked + 1
        /\ fi' = [fi EXCEPT ![c] =
                    [i \in Inos |->
                       IF fi[p][i].name = NoName THEN fi[p][i]
                       ELSE [fi[p][i] EXCEPT !.rino = i, !.rver = fi[p][i].ver,
                                             !.rlen = Size(fi[p][i])]]]
        /\ fd' = [fd EXCEPT ![c] = fd[p]]
        /\ pc' = [pc EXCEPT ![c] = "run"]
        /\ parent' = [parent EXCEPT ![c] = p]
        /\ UNCHANGED <<wpid, outsize, typed, ntyped, nchange, aborted>>

\* waitpid, up to the first sys_get; wait chooses the first child.
Waitpid(p, c) ==
    /\ Running(p)
    /\ parent[c] = p
    /\ pc' = [pc EXCEPT ![p] = "wait"]
    /\ wpid' = [wpid EXCEPT ![p] = c]
    /\ UNCHANGED <<fi, fd, parent, outsize, typed, ntyped, nchange, nforked, aborted>>

\* The states in which a process has returned to its parent by sys_ret, and
\* where each of them goes on.
Returned == {"sync", "read", "waitret"}

Continued(q) == [sync |-> "run", read |-> "reading", waitret |-> "rewait"][q]

\* "done:" in waitpid: the child's memory is cleared, and what runs below it
\* can never be seen again.
Discard(p) ==
    LET gone == Below(wpid[p])
    IN  /\ pc' = [q \in Procs |-> IF q \in gone THEN "free"
                                  ELSE IF q = p THEN "run" ELSE pc[q]]
        /\ parent' = [q \in Procs |-> IF q \in gone THEN NoProc ELSE parent[q]]
        /\ wpid' = [q \in Procs |-> IF q \in gone \cup {p} THEN NoProc ELSE wpid[q]]
        /\ fd' = [q \in Procs |-> IF q \in gone THEN InitFds ELSE fd[q]]

Cleared(t, p) == [q \in Procs |-> IF q \in Below(wpid[p]) THEN InitInodes ELSE t[q]]

\* An assertion fails in the parent: abort exits with what it has done so far.
Abort(p, r) ==
    /\ fi' = [fi EXCEPT ![p] = r.p]
    /\ pc' = [pc EXCEPT ![p] = "exit"]
    /\ aborted' = aborted \cup {p}
    /\ UNCHANGED <<fd, parent, wpid>>

\* The second reconcile of waitpid, and the sys_put that continues the child.
Forward(p, t) ==
    \E r \in {Reconcile(t[p], t[wpid[p]])} :
        \/ r.fail /\ Abort(p, r)
        \/ /\ ~r.fail
           /\ fi' = [t EXCEPT ![p] = r.p, ![wpid[p]] = r.c]
           /\ pc' = [pc EXCEPT ![p] = "wait", ![wpid[p]] = Continued(@)]
           /\ UNCHANGED <<fd, parent, wpid, aborted>>

\* The loop of waitpid from its sys_get, which waits for the child to stop.
WaitTrap(p) ==
    /\ pc[p] = "wait" /\ pc[wpid[p]] = "trap"
    /\ Discard(p)
    /\ fi' = Cleared(fi, p)
    /\ UNCHANGED <<outsize, typed, ntyped, nchange, nforked, aborted>>

AskParent_Never(did) == FALSE

AskParent(did) == ~did

WaitReconcile(p) ==
    /\ pc[p] = "wait" /\ pc[wpid[p]] \in Returned \cup {"exit"}
    /\ \E r \in {Reconcile(fi[p], fi[wpid[p]])} :
         LET t == [fi EXCEPT ![p] = r.p, ![wpid[p]] = r.c]
         IN  \/ r.fail /\ Abort(p, r)
             \/ /\ ~r.fail /\ pc[wpid[p]] = "exit"
                /\ Discard(p)
                /\ fi' = Cleared(t, p)
                /\ UNCHANGED aborted
             \/ /\ ~r.fail /\ pc[wpid[p]] # "exit" /\ ~AskParent(r.did)
                /\ Forward(p, t)
             \/ /\ ~r.fail /\ pc[wpid[p]] # "exit" /\ AskParent(r.did)
                /\ fi' = t
                /\ pc' = [pc EXCEPT ![p] = "waitret"]
                /\ UNCHANGED <<fd, parent, wpid, aborted>>
    /\ UNCHANGED <<outsize, typed, ntyped, nchange, nforked>>

\* Back from the sys_ret in waitpid.
WaitAgain(p) ==
    /\ pc[p] = "rewait"
    /\ Forward(p, fi)
    /\ UNCHANGED <<outsize, typed, ntyped, nchange, nforked>>

\* A key is typed.
Type ==
    /\ ntyped < MaxTyped /\ MayChange
    /\ typed' = Append(typed, <<NoProc, ntyped + 1>>)
    /\ ntyped' = ntyped + 1
    /\ UNCHANGED <<fi, fd, pc, parent, wpid, outsize, nchange, nforked, aborted>>

\* The kernel's file_io and cons_io when the root process returns: new input
\* goes to its consin and new output to the console; without either the root
\* process sleeps until there is input.
RootIO ==
    LET room == FILE_MAXSIZE - Size(fi[Root][FILEINO_CONSIN])
        n == IF Len(typed) < room THEN Len(typed) ELSE room
        got == SubSeq(typed, 1, n)
        out == Size(fi[Root][FILEINO_CONSOUT])
    IN  /\ pc[Root] \in Returned
        /\ n > 0 \/ out > outsize
        /\ fi' = [fi EXCEPT ![Root][FILEINO_CONSIN].data = @ \o got,
                            ![Root][FILEINO_CONSIN].has =
                               @ \cup {got[k] : k \in DOMAIN got}]
        /\ typed' = SubSeq(typed, n + 1, Len(typed))
        /\ outsize' = out
        /\ pc' = [pc EXCEPT ![Root] = Continued(@)]
        /\ UNCHANGED <<fd, parent, wpid, ntyped, nchange, nforked, aborted>>

WaitStep(p) == WaitTrap(p) \/ WaitReconcile(p) \/ WaitAgain(p)

FileOp(p) ==
    \/ \E name \in Names : \/ \E flags \in OpenFlags : FiledescOpen(p, name, flags)
                           \/ \E n \in Lengths : Truncate(p, name, n)
    \/ \E f \in Fds : \/ FiledescWrite(p, f) \/ FiledescSeek(p, f)
                      \/ FiledescClose(p, f) \/ FiledescRead(p, f)
                      \/ FileinoFlush(p, f)

Next ==
    \/ \E p \in Procs :
         \/ FileOp(p) \/ Fork(p) \/ Exit(p) \/ WaitStep(p)
         \/ \E c \in Procs : Waitpid(p, c)
    \/ Type
    \/ RootIO

Spec == Init /\ [][Next]_vars

-----------------------------------------------------------------------------
Changes == (Procs \X (1 .. MaxChanges)) \cup ({NoProc} \X (1 .. MaxTyped))

FileType(i) ==
    /\ i.name \in Names \cup {"consin", "consout", NoName}
    /\ i.mode \subseteq {"reg", "part", "conf"}
    /\ i.ver \in Nat /\ i.rver \in Nat
    /\ i.data \in Seq(Changes \cup {Zero}) /\ Size(i) <= FILE_MAXSIZE
    /\ i.rino \in Inos \cup {0, -1} /\ i.rlen \in 0 .. FILE_MAXSIZE
    /\ i.has \subseteq Changes

\* The variables have their types, sizes stay within FILE_MAXSIZE, and a process
\* that is in waitpid has the child it waits for.
TypeOK ==
    /\ \A p \in Procs : \A i \in Inos : FileType(fi[p][i])
    /\ fd \in [Procs -> [Fds -> [ino : 0 .. FILE_INODES, ofs : 0 .. FILE_MAXSIZE,
                                 flags : SUBSET {"r", "w", "append"}]]]
    /\ pc \in [Procs -> {"free", "run", "reading", "exit", "trap", "wait", "rewait"}
                        \cup Returned]
    /\ \A p \in Procs : pc[p] \in {"wait", "waitret", "rewait"} =>
                            parent[wpid[p]] = p /\ pc[wpid[p]] # "free"
    /\ outsize \in 0 .. Size(fi[Root][FILEINO_CONSOUT])
    /\ typed \in Seq(Changes) /\ ntyped \in 0 .. MaxTyped
    /\ nchange \in [Procs -> 0 .. MaxChanges] /\ nforked \in 0 .. MaxForks
    /\ aborted \subseteq Procs

\* The pairs of a parent's and its child's inodes for one file.
Pairs ==
    {<<p, i, c, j>> \in Procs \X Inos \X Procs \X Inos :
        /\ parent[c] = p
        /\ fi[c][j].name # NoName /\ fi[c][j].rino = i}

Marked(i) == "conf" \in i.mode
Records(data) == {data[k] : k \in DOMAIN data} \ {Zero}

\* What rver and rlen record is true: while neither side has moved to another
\* version, the first rlen bytes on both sides come from the same changes,
\* although in another order where both appended, unless the file is marked.
\* The growth that reconcile_merge exchanges is then new to the other side.
BaseAgrees ==
    \A x \in Pairs :
        LET pi == fi[x[1]][x[2]]
            ci == fi[x[3]][x[4]]
        IN  pi.ver = ci.rver /\ ci.ver = ci.rver /\ ~Marked(pi) /\ ~Marked(ci)
            => /\ Size(pi) >= ci.rlen /\ Size(ci) >= ci.rlen
               /\ Records(SubSeq(pi.data, 1, ci.rlen)) =
                  Records(SubSeq(ci.data, 1, ci.rlen))

\* No byte is in an unmarked file twice: however many processes a file passes
\* through, and in whatever order they synchronise, what is appended once
\* arrives once.
AppendedOnce ==
    \A p \in Procs : \A i \in Inos :
        LET d == fi[p][i].data
        IN  Marked(fi[p][i]) \/
            \A k, l \in DOMAIN d : d[k] = d[l] /\ d[k] # Zero => k = l

Lives(p) == pc[p] # "free" /\ pc'[p] # "free"

\* Within a version a file only grows, and what was there stays where it is
\* (the comment on the assertions of reconcile_inode).  The output that the
\* console has shown is therefore never revised.
AppendOnly ==
    [][\A p \in Procs : \A i \in Inos :
         Lives(p) /\ fi[p][i].name # NoName /\ fi'[p][i].ver = fi[p][i].ver
         => /\ Size(fi'[p][i]) >= Size(fi[p][i])
            /\ SubSeq(fi'[p][i].data, 1, Size(fi[p][i])) = fi[p][i].data]_vars

\* No change is lost without a mark: a reconciliation replaces a file only by
\* one that derives from it, and a child that exits has left all its changes in
\* its parent.  It is checked for files that exist from the start: reconcile passes
\* over a file that a child has created when the parent has no free inode for it
\* (lib/fork.c:217), and so loses it silently.
NoLostChange ==
    [][/\ \A p \in Procs : \A i \in Inos :
            Lives(p) /\ ~Marked(fi[p][i]) /\ ~Marked(fi'[p][i])
            => fi[p][i].has \subseteq fi'[p][i].has
       /\ \A c \in Procs : \A j \in Inos :
            pc[c] = "exit" /\ pc'[c] = "free" /\ pc[parent[c]] = "wait"
            /\ parent[c] \notin aborted' /\ wpid[parent[c]] = c
            /\ fi[c][j].has # {}
            => LET t == fi'[parent[c]]
               IN  \E i \in Inos :
                      /\ t[i].name = fi[c][j].name
                      /\ Marked(t[i]) \/ fi[c][j].has \subseteq t[i].has
      ]_vars

\* A process that waits for input, with every process above it in waitpid for
\* the one below.
Served(p) ==
    /\ pc[p] \in {"read", "reading"}
    /\ \A q \in Procs : p \in Below(q) /\ q # p =>
          pc[q] \in {"wait", "waitret", "rewait"} /\ p \in Below(wpid[q])

\* Input reaches the reader: waitpid passes it down through any number of
\* processes, each of which waits for its own parent when it has nothing new.
InputArrives ==
    \A p \in Procs : (Served(p) /\ ntyped > fd[p][0].ofs) ~> ~Served(p)

\* The kernel and the processes that are not stopped go on.
FairSpec ==
    /\ Spec
    /\ WF_vars(RootIO)
    /\ \A p \in Procs : WF_vars(WaitStep(p)) /\ WF_vars(pc[p] = "reading" /\ FiledescRead(p, 0))

\* No assertion of reconcile fails, whatever the processes do to their files.
AssertsHold == aborted = {}

\* A file marked as conflicted stays marked: open refuses it until the user
\* resolves the conflict, which no operation does.
ConflictStays ==
    [][\A p \in Procs : \A i \in Inos :
         Lives(p) /\ Marked(fi[p][i]) => Marked(fi'[p][i])]_vars
=============================================================================
