# A verification project for Determinator

Determinator is an operating system kernel (a research kernel grown from the PIOS course kernel) whose
system calls let a parent process start, stop, copy and merge child processes so that a parallel
computation has the same result however the processors schedule it. This directory holds TLA+ models of
the kernel and its libraries, the TLC configurations that check them on small instances, and
machine-checked proofs about the process core, what its calls mean, determinism, copy-on-write memory,
root I/O, migration, deterministic threads and instruction counting. All paths below are relative to the repository. The code is read as it is built with
`LAB = 9` and `SOL = 9`.

## 1. Inventory

### Components, state and operations

| Component | State | Operations | Module |
|---|---|---|---|
| Process core (`kern/proc.c`, `kern/syscall.c`, `kern/trap.c`, `kern/spinlock.c`) | process tree, `state`, `runcpu`, `waitchild`, saved registers; per-process locks; ready queue and its lock; current process of each CPU | `proc_alloc`, `proc_ready`, `proc_save`, `proc_wait`, `proc_sched`, `proc_run`, `proc_ret`; PUT, GET, RET, CPUTS, NCPU; `systrap`, `sysrecover`, user traps | `Machine`, `Proc`, `ProcProofs` |
| Meaning of the system calls | registers, memory and snapshot of each space | atomic PUT, GET, RET | `Spaces`, `ProcRefinement`, `RefinementProofs`, `Determinism`, `DeterminismProofs` |
| Copy-on-write memory (`kern/pmap.c`, counts of `kern/mem.h`) | page tables, pages, reference counts | page fault, copy, zero, permissions, snapshot, merge | `Pmap`, `PmapProofs` |
| Root process I/O (`kern/file.c`, `kern/cons.c`, end of `kern/init.c`) | console buffer, console files, sleep state | `file_io`, `cons_io`, `cons_intr`, `file_wakeroot`, boot | `RootIO`, `RootIOProofs` |
| Process migration (`kern/net.c`, tracking in `kern/mem.c`) | migration state of each process on each node, pull list, remote references, packets | `net_migrate`, `net_rx*`, `net_tx*`, `net_pull`, `net_pullpte`, `net_tick` | `Net`, `NetProofs` |
| Files, fork and reconciliation (`lib/fork.c`, `lib/file.c`, `lib/dir.c`, `lib/unistd.c`) | inode table with versions and reference versions, descriptors, in user memory | `open`, `read`, `write`, `lseek`, `close`, `truncate`, `fsync`, `exit`, `fork`, `waitpid`, `reconcile*` | `Files` |
| Deterministic threads (`lib/dsthread.c`) | run queue, ready queue, mutexes with owners and requests, conditions, copies of all this in the threads | `pthread_sched`, `mcall`, `mret`, `tblock`, mutexes, conditions, create, join, exit | `DSched`, `DSchedProofs` |
| Barrier threads (`lib/pthread.c`, `lib/thread.c`) | barrier counts, child states, memory and snapshot of each thread | create, join, `wait_at_barrier`, barriers, `tfork`, `tjoin`, `tresume`, `tparallel_*` | `Pthread` |
| Instruction counting (`kern/proc.c`, `kern/trap.c`, `dev/pmc.c`) | `icnt`, `imax`, `pmcmax`, trace flag, performance counter | `proc_save`, `proc_run`, `T_DEBUG`, `T_PERFCTR`, `pmc_set`, `pmc_get` | `Icount`, `IcountProofs` |
| Boot, devices, debugging, C library, user programs | | | not modelled |

### How the components interact

User code reaches the kernel by traps. PUT and GET work on a child's registers and, through `pmap.c`, on
its memory; they wait for the child by aborting the call and replaying it when the child stops. RET of the
root process has no parent to go to and becomes I/O: `proc_ret` calls `file_io`, and console interrupts on
any CPU wake the root process through the same ready queue. A PUT or GET that names another node, and a
RET away from home, become a migration. Library code builds Unix-like processes, files and threads out of
PUT, GET and RET and keeps all its state in user memory, merged by the kernel or by `reconcile`.

### What is hard

* PUT and GET drop the caller's lock before they touch the child, and rely on "since the child is now
  stopped, it's ours to control".
* A parent decides to sleep while its child decides to stop, on different CPUs.
* A waiting call is replayed from its start; an error in the saved program counter shows many steps later.
* The sharing of page tables between address spaces is decided by reference counts and one bit per entry.
* Interrupt handlers on any CPU race with the root process's way to sleep.
* Migration runs over a network that may lose packets, with retransmission and without sequence numbers.
* `reconcile` keeps one version and one length per file to tell who has changed what, through any tree of
  processes that synchronise in any order.
* In `dsthread.c` a thread locks and unlocks the mutexes it owns in its own copy of memory; the master
  learns of it at the end of the slice, which may come anywhere, in the library too.
* `wait_at_barrier` collects threads in the order of their slots while they arrive in any order.
* The performance counter interrupts late, and system calls are aborted and replayed while it counts.

`PROJECT.json` lists these as hazards, each at its line, with the properties that cover it or the reason
why none does yet.

## 2. The modules

In all modules one action is one stretch of code that no other actor can interrupt, and a definition
`X_Y` next to `X` is `X` with a plausible mistake. Specifications never use it; it shows that a property
would notice the mistake. The proofs about `X` are in `XProofs` (those about `ProcRefinement` in
`RefinementProofs`) and are the subject of section 5.

### Machine, Proc

`Machine` has the registers (program, position, trap number), memory (a word per page) and the
instructions of user code that reach the kernel. `Proc` has a control point for each CPU: `user`, the
phases of PUT and GET (`sync`, `regs`, `memop`, `perm`, `start`, `enqueue`), the two parts of `proc_ret`
(`ret`, `stop`), the scheduler (`sched`, `pick`, `lockproc`, `run` and the idle loop), and `panic` and
`nullmap`, where a CPU stops for good. Taking
a spinlock is an action; a critical section together with its release is one action; each unlocked phase
of a call is one action. `UserStore` is a store in user mode, `UserTrap` the traps that go to the parent.
The faults of `usercopy` are two of the values that an instruction's `regs` may have: refused by `checkva`,
or a page fault during the copy, which continues in `Sysrecover` with the frame that `recoverdata` points
to. That pointer is never set for `usercopy`, so the frame is `NullFrame`, whatever lies at address 0. A
copy to or from the caller may have been done or not when it faults. A GET of a child that was never created
works on `proc_null`: its registers are zeroes, a merge compares its NULL page maps with each other and finds
no change, and a copy takes the NULL page map for a table. The call does not survive that; the CPU stops at the
control point `nullmap` with the call's locks released (`CopiesNull`).

Left out of `Proc`: SYS_TIME (it reads a clock and is the one call whose result depends on timing),
floating-point state, instruction counting, and the paths into `net_migrate` and `file_io`, which have
modules of their own. `proc_yield` is not called at this lab level.

### Spaces, ProcRefinement, Determinism

`Spaces` is what the calls promise: there are no CPUs, no locks, no sleeping parents, PUT and GET are
atomic and wait until the child is not live, and a process that has executed its last instruction stops a
step later. `ProcRefinement` maps a state of `Proc` to one of `Spaces`. A call takes effect when it leaves
its register phase; what its later phases will still do is already in the abstract state. In `Spaces` a GET
from a child that was never created reads zeroes, as from one that is blank. The kernel never completes such
a GET if it copies memory. It refines `Spaces` all the same, because `Spaces` has no fairness and does not
say that a process takes its next step; that calls complete is `CallsComplete`, which fails (section 4).
`Determinism` runs two copies of `Spaces` side by side, with one program and independent schedules. It
counts the events in the life of each process (its own steps, and what its parent's PUTs do to it) and says
that after the same number of events a process is in the same state in both executions, and that a child
which has stopped in both is in the state in which its parent's next PUT or GET will find it. One case is
open in `Spaces` itself: a PUT or GET that faults while it copies registers may have copied them or not.

### Pmap

An address space is a root table whose entries refer to lower tables whose entries refer to pages (two of
the four levels of `pmap.c`; the code treats all levels above the last alike). An entry has an address,
the bit `PTE_W` and the nominal permissions. The parent and each child have a page map, each child a
reference page map too. Operations are those of PUT and GET on a whole table, or on one page, which is
where `pmap.c` takes its two paths (share the table, or descend into it); a longer range is a sequence of
these. `mem` records what eager copying would have put into each address space. The functions of `pmap.c`
are operators that take a memory state and return one; where the code walks over the entries of a table
(`FreeTable`, `CopyTable`, `MergeTop`, and `CopyAll` over a whole address space) the model has a function
of the number of entries done so far. Initially the parent has a page of its own at every address, put
there by `pmap_insert` as `init` does for the root process (`Load`). Operations are atomic:
the spaces an operation works on belong to a running parent and a stopped child (`ChildUnderControl` of
`Proc`), and what other CPUs do at that time to frames they share is to copy them before they drop
their reference.

The merge is modelled with its two wrong tests. `pmap_mergepage` compares the kernel address of the
destination page with `PTE_ZERO`, which is a physical address, and so releases the zero page when the
destination has it (`status` is then `zerofreed`). `pmap_merge_level` compares in the same way and uses
`pmap_zero` for a table that does not exist; the words of `pmap_zero` are 0, not `PTE_ZERO`, and lead to physical
page 0 (`Pte`, `PageAt`), which is read, written, or referenced with a failed assertion (`status` is then
`assert`). `LowPage` is what page 0 holds after booting and `low` what it holds now. The model stops at the
first failed assertion and when the zero page has been given away; `missing` remembers that a merge has gone
through a missing table and `shared` that a shared table has been modified.

Left out: ranges that are not aligned alike in source and destination, TLB invalidation, accessed and
dirty bits, and exhaustion of memory.

### RootIO

The root process, from `init` through user mode, `cons_io` and sleep, is one actor and each console
device's handler is another. The console buffer has `CONSBUFSIZE` positions and is linear for `cons_io`
but circular for `cons_intr`, as in the code. A character is its position in the order of typing, so
loss, repetition and reordering all show.

### Net

Each node has its own proc structure for every process and its own pages. A packet handler is an action;
the loop at the end of `net_rxpullrp`, which may stop at every page to pull it, is one action per turn. A
page travels in `NParts` parts. Channels keep their order and may lose packets (`Lose`); `Tick`
retransmits. A failed assertion stops the node.

`net.c` was written for 32-bit page tables (a page directory, tables and pages) and still reads entries
as 32-bit words, while the rest of the kernel has four levels of 64-bit entries. The model takes an entry
for an entry and keeps one level of tables: it is about the protocol, not about the unfinished port.

`Budgets` is a set of alternatives from which a behaviour chooses one at the start: how many migrations,
losses and queued packets it may have, which nodes it may go to and which pages it writes.

### Files

Every process has a file system of its own; `fi[p]` are its inodes and `fd[p]` its descriptors. A file
operation is an action of the process. What `waitpid` does between two blocking system calls is one action
of the parent (`WaitTrap`, `WaitReconcile`, `WaitAgain`), because the child is stopped all the while.
`Reconcile` is a function of the two inode tables, with the three loops of the code as folds over the
inode numbers. A byte is the change that wrote it, so that loss, repetition and disorder show. The field
`has`, which the code does not have, collects the changes a copy derives from. A failed assertion is
`abort`: the parent exits with what it has done so far. The kernel's part for the root process (`RootIO` in
this module) is module `RootIO` without its races.

Left out: directories other than the root, `stat`, `dup`, and names in use by two directories.

### DSched

`m` is what the library keeps in the master's memory, `view[t]` the copy a running thread works on and
`ref[t]` that copy at the start of its slice. Operations that a thread can do in its slice (`MutexLock` of
a mutex it owns, `MutexUnlock`, `CondSignal`, `Join` of an exited thread) change its view. Everything else
is a stop of the thread (`MCall`, `Preempt`) and an action of the master (`Collect...`, `Resume...`) that
covers the code from the merge to the next slice or `tblock`. A slice may end anywhere: before an
operation, inside it with `tlock` set, or after the master's part of a call is done and before the thread has
left the library (`returning`). The queues, chained through one field `qnext` in the code, are sequences, and
that a thread is on one of them is a property and not an assumption. An assertion that fails in a slice leaves `panic` in the
thread's copy, and the master ends the process when it collects the thread. `exit` in any thread ends the
process. `kids` are the threads a thread has created, by number of creation; one that was detached or has
been joined is `NoThread`.

The 64-bit port of this file is unfinished. The jump by which `pthread_sched` resumes a blocked thread is
commented out (`lib/dsthread.c:263`), and an `assert(0)` in `tpgetsize` (line 586), which `tpinit` calls when
the library starts and when a thread does (lines 193 and 636), stops every thread as the file is built now. The
model is of the algorithm, with the port taken as done. Thread-private data, keys, attributes and `malloc` are
left out, and so are traps of threads (a panic of the master) and system calls for I/O, which the master
passes on before it goes on with the thread (`lib/dsthread.c:308`).

### Pthread

A space is the path of child slots that leads to it. Memory is a counter per space in a page of its own,
so that `Merged` is `pmap_mergepage` for whole pages. `PthreadJoin`, `BarrierCollect`, `BarrierShort` and
`Release` are the stretches of `pthread_join` and `wait_at_barrier` between two blocking calls. A thread
that has exited and is restarted by a barrier would return from `sys_ret` in `pthread_create` into code
that expects not to be reached; it becomes a `ghost` that stays stopped. A thread's return value and the word
that `pthread_barrier_wait` leaves are the same register, and the model treats them so: a negative value looks
like a thread at a barrier. `tparallel_begin`, `tparallel_internal` and `tparallel_end` are programs made of
create and join, with the assertions of the second (`AssertFree`) and the exits of all three.

### Icount

An action is an instruction of a process with the traps it causes, or an interrupt. The counter is an
external part: it counts the retired instructions of user mode modulo `CtrSize` and raises its interrupt
up to `MaxLate` instructions after it has overflowed, or when the process is gone. INT clears the trace
flag, so that a system call which returns at once is not stepped; `missed` counts these. Where the code
assigns to `int32_t`, values wrap into `-IntHalf .. IntHalf - 1`.

## 3. The runs

| Run | Checks | Instance |
|---|---|---|
| `proc` | `TypeOK`, `RunsOnOneCpu`, `ReadyQueueExact`, `ChildUnderControl`, `NoLostWakeup`, `LockDiscipline`, `Isolation`, `ImplementsSpaces`, `EventuallyRuns` | 2 CPUs, 4 processes in 3 generations, 20 root programs |
| `determinism` | `Deterministic` | two executions, all root programs but the two with a PUT or GET that faults while it copies registers, up to 9 events per process |
| `rootio` | `QueuedOnce`, `InputIntact`, `KeyWakes` | 2 devices, buffer of 3, 3 keys, file of 2 |
| `net` | `OneOwner`, `NoRollback`, `NeverForgotten`, `Arrives` | 3 nodes, 1 process, pages in 2 parts; 4 migrations with retransmission and no loss, or 1 migration with up to 2 packets lost and a page written |
| `pmap` | `RefExact`, `WritableIsPrivate`, `ReadsAsCopiedUnshared` | parent and 2 children, one table of 2 pages of 2 bytes, 4 operations, 16 frames |
| `files` | `BaseAgrees`, `AppendedOnce`, `AppendOnly`, `NoLostChange` | 3 processes, one file that is there at the start, files of at most 2 bytes, 3 file operations, 2 forks |
| `files_input` | `InputArrives` | 3 processes, 1 key, 2 file operations, a file that is created and one that had been deleted |
| `dsched` | `MutualExclusion`, `QueueExact`, `ReqsExact`, `DataFresh`, `NoClash`, `PanicIsReal`, `EventuallyEnds` | 3 threads, 2 mutexes, 1 condition, 6 programs, slices cut short 3 times |
| `pthread` | `BarrierData`, `MergedOnce`, `EventuallyEnds` | 4 threads of one process, or 2 of a second level, 2 barriers, 14 programs |
| `icount` | `CountExact` | 2 CPUs, 2 processes, limits 1, 4 and 7, `IntHalf = 4`, margin 2, with and without a counter |
| `dsched_wait` | `AssertsHold` (violated) | 2 threads that wait for each other in rounds |
| `net_loss` | `OneOwner` (violated) | 2 nodes, 3 migrations, 1 packet lost |

The passing runs leave out what section 4 shows to fail, and claim nothing about it: `net` has one process and
says nothing of the contents of pages, `pthread` has no thread that exits beside a barrier of others or with a
negative number, the programs of `dsched` do not broadcast and wait in one slice, and
`ReadsAsCopiedUnshared` of `pmap` ends where a table that is shared or missing is used.

The state spaces have from 2,000 (`pthread`) to 600,000 (`files`) states; the longest runs take about two
minutes. Files are truncated by `open` in `files`, and by `truncate` too in `files_input`; with `Lengths`
set to `{1}` in MCFiles.cfg the `files` run passes as well, with 1.2 million states.

### Why the bounds are enough

* Process core. Locks are per process and a call involves a parent, one child and the scheduler. Two CPUs
  let a parent and its child, or two users of the ready queue, act at once; three generations let a
  process be parent and child. The programs contain every call with every outcome, a child that stops
  several times, calls on a child that was never started, and nested forks. Programs end in a loop of
  RETs. The theorems of section 5 hold for any number of CPUs and any programs.
* Root I/O. Two devices are the two handlers that can race for `file_lock` and the buffer. A buffer of 3
  with 3 keys can be filled, so that `wpos` wraps.
* Migration. Four migrations among three nodes include going away, going on to a third node, coming home
  and leaving again with old retransmissions still in a channel; two parts per page make `arrived` and
  the need bits matter. The queue field of a budget says how many packets may wait in a channel before the
  clock adds another.
* Memory. Four operations include fork with snapshot, a store on each side and the merge. One table is
  enough because nothing relates different root entries; two pages are needed to tell a table from a
  page, two bytes to tell a page from a byte. The children are interchangeable (symmetry). 16 frames
  are one more than the tables and pages that the five page maps could have of their own (5 tables and 10
  pages), so that `mem_alloc` does not fail; `PmapAssumption` asks this of every instance.
* Files. Reconciliation works on pairs of inodes and files do not interact, except for inode numbers. Two
  children of one process, or a child of a child, are what it takes to bring a change back to its author
  by another way. Three operations let each of three processes change a file, or one process change it
  before and after a synchronisation.
* Deterministic threads. Three threads are an owner, a thread that waits and one to which a mutex is
  passed with a third behind it; the programs have a deadlock, a reused slot, a detached thread and a loop
  without library calls. Three slices cut short let every thread be stopped once inside an operation.
* Barriers. Four threads at a barrier of four in three rounds, joined in four orders; a group that is too
  small, a thread that traps, one at another barrier, and a nested master.
* Counting. With `IntHalf = 4` the limit 7 makes `pmax` negative, 4 leaves two instructions to the counter and
  two to single-stepping, 1 is stepped only. `MaxLate` is the margin, the largest for which the
  code can be right.

CHECK_DEADLOCK is off where a bound ends a behaviour, or where the system may rightly stop (a panic, a
root process that has exited, all processes stopped). In `dsched` and `pthread` it is on.

### Fairness

* `Proc!FairSpec`: every CPU keeps executing. Nothing is assumed about who gets a lock other than that a
  CPU whose acquire stays possible gets it in the end.
* `RootIO!FairSpec`: the root process's kernel code and each interrupt handler keep executing. Nothing
  forces user code to return to the kernel.
* `Net!FairSpec`: packets that arrive are handled, ready processes get a CPU, the clock ticks. Loss is
  bounded by the budget and not by fairness.
* `Files!FairSpec`: the kernel serves the root process, and a process that is in `waitpid` or has been
  continued in `read` goes on when it can. No process is forced to read, write, wait or exit.
* `DSched!FairSpec`: a started slice goes on and ends, because the kernel runs every started space and
  `P_QUANTUM` instructions are soon over, and so does the master. Which of them is first is left open.
* `Pthread!FairSpec`: the kernel runs every space that is neither stopped nor waiting in GET or PUT.

## 4. Findings

Each has a configuration that violates the property named (`tlc -config X.cfg M`). `MCDSchedWait` and
`MCNetLoss` are the runs `dsched_wait` and `net_loss` of `PROJECT.json`; the others are run by hand.

| Configuration, module | Violates | What happens |
|---|---|---|
| `MCProcNull.cfg`, `MCProc` | `CallsComplete` | a GET that copies memory from a child which was never created takes the NULL page map of `proc_null` ("null process - just leave it initialized to 0", `kern/proc.c:31`) for a page table (`kern/syscall.c:354`) and ends in a failed assertion, or worse |
| `MCProcFault.cfg`, `MCProc` | `FaultKeepsProgram` | `usercopy` never sets `recoverdata`, so a page fault in it stops the process with registers read from address 0 (`kern/syscall.c:118`; "Be sure the parent gets the correct trapno, err, and eip values", line 63) |
| `MCRootIOSleep.cfg`, `RootIO` | `NoSleepOnInput` | `cons_io` finds no input; a key arrives; `file_wakeroot` sees the process running; then `file_io` marks it stopped (`kern/file.c:197`). It sleeps on buffered input until the next key |
| `MCNetLoss.cfg`, `MCNet` | `OneOwner` | with one lost MIGRP and a migration back, the request is taken for a duplicate of the one already answered (`kern/net.c:294`), and two nodes come to own the process |
| `MCNetShared.cfg`, `MCNet` | `PagesArrived` | two processes share a page: the second finds it tracked while the first is still pulling it (`kern/net.c:677`), and becomes ready too early ("We've pulled the proc's entire address space: it's ready to go!", line 639) |
| `MCNetPulls.cfg`, `MCNet` | `NoPanic` | `net_rxpullrp` leaves `p->pullnext` set when it takes a process off the pull list (`kern/net.c:592`), and the next `net_pull` fails its assertion (line 385) |
| `MCNetWrites.cfg`, `MCNet` | `MemoryFollows` | a page that was pulled, and then written in place because it has one local reference, is still known by its origin's remote reference (`kern/net.c:524`); the process finds the old contents at home ("If refcount is 1, we have the only ref!", `kern/pmap.c:690`) |
| `MCPmapShared.cfg`, `MCPmap` | `CopiesAreSeparate` | copying a page between two spaces that share the table removes the page and then copies the empty entry, so that both lose it (`kern/pmap.c:635`). The same missing copy of the table lets a merge into the parent, or a copy of a page to one child, change what another child reads ("If the destination page is read-shared, be sure to copy it before modifying!", line 717) |
| `MCPmapZero.cfg`, `MCPmap` | `ZeroPageKept` | a merge of a page that the parent no longer has releases the zero page (`kern/pmap.c:734`; "Don't alloc/free zero page!", `kern/mem.h:181`) |
| `MCPmapMissing.cfg`, `MCPmap` | `MergeCompletes` | a merge where a lower table is missing takes `pmap_zero` for the table (`kern/pmap.c:820`) and fails an assertion about physical page 0 ("rpmte and spmte can be PTE_ZERO", line 816) |
| `MCFilesAsserts.cfg`, `MCFiles` | `AssertsHold` | a conflict or a merge that would be too big changes the mode and not the version; a file that another process knows under the same version then has two modes, and the assertion at `lib/fork.c:373` fails in the parent |
| `MCFilesConflict.cfg`, `MCFiles` | `ConflictStays` | the mark of a conflict disappears: it comes with no version of its own, and a sibling's later change replaces the file, mark and all (`lib/fork.c:316`) |
| `MCDSchedWait.cfg`, `MCDSched` | `AssertsHold` | a thread broadcasts a condition on which others wait and then waits on it itself, in one slice. `pthread_cond_wait` puts it on the queue, and `tblock` carries out the broadcast before it sets the thread's state: the assertion at `lib/dsthread.c:1028` fails |
| `MCDSchedReady.cfg`, `MCDSched` | `ReadyRuns` | after restarting a preempted thread `pthread_sched` stays in its loop over the run queue (`lib/dsthread.c:328`), so that threads which make no calls starve a ready one ("We always process the ready queue before the run queue", line 112) |
| `MCPthreadAside.cfg`, `MCPthread` | `WholeGroups` | a thread that has exited with a status whose low byte is the barrier's number is taken for one at the barrier (`lib/pthread.c:136`) and another member of the group is left behind ("This should be the same barrier", line 135) |
| `MCPthreadStatus.cfg`, `MCPthread` | `EventuallyEnds` | a thread returns a negative number and is taken for one at a barrier (`lib/pthread.c:186`); if that barrier is not in use, `pthread_join` goes round its loop for ever |
| `MCIcountLate.cfg`, `Icount` | `AssertsHold` | a counter interrupt that is still on its way when its process leaves the CPU hits the next counted process, which is then single-stepped far from its limit: the assertion at `kern/trap.c:344` fails, although the comment at line 353 expects such interrupts |
| `MCIcountCalls.cfg`, `Icount` | `StopsAtLimit` | INT clears the trace flag, so that a call that returns at once is not counted while the process is single-stepped (`kern/trap.c:346`); it executes more than `imax`, "max insns to execute before ret" (`inc/syscall.h:95`) |

Observed with the same modules and other constants:

* `RootIO` with `EarlyTyping = TRUE`: a key between `proc_alloc` and `proc_ready` in `init` makes
  `file_wakeroot` queue a root process that is not loaded (`ReadyIsLoaded` fails), and `init` queues it
  again. Console interrupts are enabled at `kern/init.c:215`.
* `Icount` with a limit of 2^31 and more: `pmax` (`kern/proc.c:275`) is negative, the process is single-stepped
  from the start, and the assertion at `kern/trap.c:344` fails.

And from reading the code while modelling it:

* `pthread_mutex_trylock` fails for every thread but the owner and leaves no request, so that a loop of
  trylocks on a free mutex never succeeds (`lib/dsthread.c:844`).
* The barrier's count is read in the process that joins. If it is 0 there, nobody is restarted and
  `pthread_join` collects the same stopped thread for ever (`lib/pthread.c:148`).
* When the parent has no free inode for a file of its child, the file is skipped in silence
  (`lib/fork.c:217`).

## 5. Proofs

The theorems hold for every value of the constants that the ASSUMEs of the modules allow; TLC evaluates
these in the runs. Where a theorem has a hypothesis of its own, it is in the table.

| Module | Theorem | Statement |
|---|---|---|
| `ProcProofs` | `TypeCorrect` | `Spec => []TypeOK` |
| | `OneCpu` | `Spec => []RunsOnOneCpu` |
| | `QueueExact` | `Spec => []ReadyQueueExact` |
| | `ChildOwned` | `Spec => []ChildUnderControl` |
| | `WakeupKept` | `Spec => []NoLostWakeup` |
| | `LocksBalanced` | `Spec => []LockDiscipline` |
| | `Isolated` | `Spec => Isolation` |
| | `StatesFollowMachine` | `Spec => StateMachine` |
| `RefinementProofs` | `Implements` | `Spec => ImplementsSpaces` |
| `DeterminismProofs` | `SameResults` | `DSpec => []Deterministic`, if no PUT or GET faults while it copies registers (`NoHalfCopy`) |
| `PmapProofs` | `Types` | `Spec => []TypeOK` |
| | `RefCountsExact` | `Spec => []RefExact` |
| | `WritablePagesPrivate` | `Spec => []WritableIsPrivate` |
| | `CopyOnWriteInvisible` | `Spec => []ReadsAsCopiedUnshared` |
| `RootIOProofs` | `RootQueuedOnce` | `Spec => []QueuedOnce`, if no key is hit during boot (`~EarlyTyping`) |
| | `InputArrives` | `Spec => []InputIntact` |
| `IcountProofs` | `CountsExactly` | `Spec => []CountExact` |
| `NetProofs` | `NetOneOwner` | `Spec => []OneOwner`, if no packet is lost |
| | `NetNoRollback` | `Spec => []NoRollback`, if no packet is lost |
| | `NetNeverForgotten` | `Spec => [](NoPanic => NeverForgotten)`, if no packet is lost |
| `DSchedProofs` | `MutexesExclude` | `Spec => []MutualExclusion`, if always `JoinsOwn` |
| | `QueuesExact` | `Spec => []QueueExact`, if always `JoinsOwn` |
| | `RequestsExact` | `Spec => []ReqsExact`, if always `JoinsOwn` and `ExitsUnlocked` |
| | `DataIsFresh` | `Spec => []DataFresh`, if always `JoinsOwn` and `AddsLocked` |
| | `MergesNeverClash` | `Spec => []NoClash`, if always `JoinsOwn` and `AddsLocked` |

### The process core

Assumptions: there is at least one CPU, the parent function makes Root the only process without a parent
and no process its own parent, code maps register states to instruction records, and the null values are
distinct from processes and CPUs.

The inductive invariant `IInv` is `TypeOK` and `Control`. None of the five properties in `Control` is
inductive alone. That a child is under control while its parent works on it without a lock needs
`LockDiscipline` for the moment of the test (`sync` holds the parent's lock), `RunsOnOneCpu` to exclude
a second CPU that executes the same parent, and `ReadyQueueExact` to exclude that the child is already
queued. `NoLostWakeup` needs that `proc_wait` and `proc_ret` hold the same lock, the parent's. The queue is
exact because only the parent that controls a stopped child adds it. `ControlFacts` adds what a CPU knows
at each control point: that the child named in the call is a child of the current process, and where the
process it is about to run came from. The proof has one lemma per action that touches control
(`PutGetLockStep`, `PutGetSyncStep`, `ProcWaitStep`, `ProcReadyStep`, `RetLockStep`, `RetStopStep`,
`SchedPickStep`, `SchedLockProcStep`, `ProcRunStep`), and one (`LocalActions`) for those that do not. The action
properties follow from `IInv` at the start of a step.

### The kernel implements Spaces

`RInv` is `IInv` with what a call has already passed when it is at a control point (`CallFacts`) and
that a process not yet created is blank (`Blank`). Under `RInv` a process is in one of three situations: a
CPU executes it, a CPU's PUT or GET controls it, or nobody works on it. In each, a lemma
(`ViewsHold`) says what the abstract state shows of it: what the rest of the call under way will still do
is already there. `Apart`, which is `ChildUnderControl` and `RunsOnOneCpu` in another form, says that
nobody works on a process that somebody else works on, so that a step changes the view of the process it
executes and of the child it controls and of nobody else. PUT and GET then take their abstract step when
they leave the register phase, and the phases after it are stutters; a call that is aborted to wait for
its child is a stutter as a whole, because the saved program counter leads back to its start; picking,
queueing and waking processes are stutters. A GET that copies from a child never created has taken its
abstract step when it stops the CPU: the abstract state then shows the zeroes that it should have copied, and
no step follows. The theorem says that the kernel does nothing that `Spaces` does not allow, not that it
completes what `Spaces` allows.

### Determinism

`Deterministic` is not inductive: the two executions can be at different places, and then it says
nothing. The proof therefore constructs one history that both follow: the state of every process
after each number of events, and for each PUT and GET the age at which it finds its child (`Follows`). An
execution that goes on where it is ahead extends the history; one that is behind finds its step there.
What makes the second case work is that a stopped process changes only by a PUT of its
parent and that the parent's calls find the child in the order of the calls, so that the age at which
a call finds the child is the same in both. `NoHalfCopy` excludes the PUTs and GETs whose outcome `Spaces`
leaves open. Together with `Implements`: what a process of the kernel computes does not depend on the number of
CPUs or on their scheduling.

### Copy-on-write memory

Assumptions: finitely many children, and more frames than the tables and pages that all page maps could
have of their own. The number of children, entries, bytes, values and operations is arbitrary.

The inductive invariant of the memory state is `MemOK`. `Exact` counts all entries of all frames, which
gives `RefExact` because only tables have entries (`Tables`) and no frame is both a table and a page
(`Kinds`); without these a page could be freed as a table. `Own` says that a writable root entry is the only
reference to its table and that the writable entries in it are the only references to their pages. It says
nothing of entries under a read-only root entry: they may have `PTE_W` while the page has many references,
because `pmap_copy_level` closes the root entry and leaves the table below as it is. That is why
`pmap_walk_level` clears the bit in all entries when it opens a table again (`ReopenOK`) or copies it
(`CopyTableOK`), and why `WritableIsPrivate` alone is not inductive.

Almost every function of `pmap.c` changes one entry and the counts of the frames that the entry referred to
and now refers to. `LowStep` and `TopStep` say once and for all that such a change keeps `MemOK` if the counts
follow (`RefsFollow`); they rest on `Counted`, about how the number of places of a value in a function changes
with one place. `LowReads` and `TopReads` say who reads something else afterwards: the address spaces that
use the table. Then every function has a lemma `...OK` with both parts, in the order in which they call each
other. The loops are functions of the number of rounds; their invariants (`Freed`, `Copied`, `MergedUpTo`,
`CopiedUpTo`, `LoadedTable`) are shown by induction. `AllocFree` shows that there always is a free frame.

`Inv` adds that the address spaces read what eager copying would have put there, as long as no operation
has modified a shared table and no merge has gone through a missing one or ended badly. These conditions are
needed: section 4 has the counterexamples without them. They matter only in `CopyPart` and `MergeTop`, which
work on the destination's table as they find it. Reference counts and private pages do not depend on them:
they are proved through every merge, with a missing table and in the state in which the model stops. The counts
are those of the frames that `mem_alloc` gives out. The zero page and physical page 0 are not among them; that
the first is kept is `ZeroPageKept`, which fails.

### Root process I/O

`QueuedOnce` is proved from `ControlInv`: the state of the root process follows its control point
(`StateOfPc`), `file_lock` is held where the code holds it (`FileLocked`), and a handler that is about to
queue the root process has found it asleep and holds the lock that keeps others from doing the same
(`FoundAsleep`). Without the hypothesis the theorem is false (section 4): `Quiet` is the part that fails.
`InputIntact` is proved from `DataInv`, without it: every character is in one place (`InputFresh`,
`StashedFresh`), the buffer holds the characters stored last in their order, also after `wpos` has
wrapped (`Buffered`), and the file holds earlier ones in their order (`InOrder`), all of them as long as the
buffer has never been full (`AllThere`).

### Instruction counting

What the count of a running process lacks is in the counter, or nothing while it is single-stepped
(`Counting`). The counter was set so that the margin `pmc_safety` remains, and `InMargin` says that a
process whose counter has overflowed is at most as far over as the interrupt is late. The limit therefore
cannot be passed while the counter is on, and single-stepping takes the process to the limit exactly.
`IInv` adds that a process is on one CPU and that one which is not running has been saved. An assertion
that fails stops the kernel (section 4 has two that do), so that the invariant beyond `CountExact` is claimed only
until then.

### Migration

The theorems hold for any nodes, processes, programs of migrations and retransmissions, over channels that
keep their order and lose nothing. Run `net_loss` shows that the last hypothesis is needed.

`NetInv` has two parts. `Shape` says what the words of pages, packets and pull requests may be. It uses the
sets `A` and `D` of the pages ever allocated at each node and of the directories among them: no page is used
again, since it stays referenced or shared, so that a remote reference denotes one page for ever and a
reference to a directory is never taken for one to a page. `Way` says that every process is in one of three
phases: one node holds it and no packet about its present directory is on its way (`Held`); it has left
`s` for `d`, and every MIGRQ there is has gone from `s` to `d` and carries its registers
(`InTransit`); or `d` has accepted it and pulls the directory from `s` (`Arriving`). The protocol has no
sequence numbers, and old MIGRQs in a channel are what could take a process back. They are gone when they
could do harm because of the order in a channel: `d` sends its MIGRP before it asks for the directory,
so `s` has stopped retransmitting before it sends the directory, so no MIGRQ is behind the directory, and
when `d` has got it no MIGRQ is left. `OneOwner` and `NoRollback` follow from the phases.
`NeverForgotten` needs `NoPanic`, because a node that fails an assertion while it handles a MIGRQ has
acknowledged the process and does not have it. `NetInv` includes `TypeOK`.

### Deterministic threads

The theorems hold for any number of threads, mutexes and conditions and for any programs that keep to
rules which the library takes for granted. `JoinsOwn`: a thread joins threads it has created itself, that
are not detached, once (a slot is reused after a join, so that a second join may wait for a stranger).
`ExitsUnlocked`: a thread exits with nothing locked (otherwise its requests die with it).
`AddsLocked`: the datum is changed under its mutex only. The programs of run `dsched` satisfy them, except
that one, which spins without calls, changes the datum without the mutex and is alone to do so.

`Good` relates three things: the library's state in the master, the threads, and the copies in which running
threads work, each with the copy at the start of its slice. `Queues` and `Reasons` say which queue a thread
is on and what it was about to do; `Locks`, that a holder owns its mutex and finds it locked in the memory in
which it works; `Copies`, that a running thread changes the mutexes it owns and no others, and that the master
leaves these alone while it runs; `Kids`, that a thread freed by its joiner in a copy is still `EXIT` in the
master and nobody else's child. At the top of the scheduler this is the invariant (`Rest`). It does not hold in
the middle of the master's work: between the merge and the next `tblock` or slice the thread is on no queue and
its requests are unanswered. `Mid` is `Good` for the state that the thread is about to have, with the requests to it
excepted. Each function of the library has a lemma that it keeps `Mid` (`MergeMid`, `WakeupMid`,
`CondWakeupsMid`, `TransferMid`, `MutexReqsMid`, `TeventsMid` and so on), and `SliceRest` and `BlockRest` lead
from `Mid` back to `Rest`. The loops over deferred events, woken threads and requested mutexes are by
induction over their rounds.

`Rest` is claimed until the process ends or an assertion fails. Both do happen (section 4), and the properties
are checked in that last state too, so every action also has a lemma on what it leaves when it fails
(`...Settled`). `Lost`, under `ExitsUnlocked`, adds that a mutex is locked only by a thread that holds it and that a
queue of waiting threads is known to the owner. `Data`, under `AddsLocked`, adds where the last increase is: in
the copy of the mutex's owner while it runs, else in the master. No merge clashes because a datum has one
author at a time: the owner for a mutex and the datum under it, the thread for its events, the joiner for the slot.

### Only model-checked

* All liveness properties (`EventuallyRuns`, `KeyWakes`, `Arrives`, `InputArrives` of `Files`,
  `EventuallyEnds`): the prover has no rules for fairness.
* `PanicIsReal` of `DSched`: that a panic means a cycle of waiting threads is an argument about paths in the
  graph of who waits for whom, over all programs, and is shown for those of the run.
* `BaseAgrees`, `AppendedOnce`, `AppendOnly` and `NoLostChange` of `Files`: `Reconcile` consists of three folds
  over the inode table, and what a fold computes is induction over data, which the library states with an
  operator parameter that the prover cannot instantiate. (`PmapProofs` and `DSchedProofs` do induction over
  the rounds of loops with a lemma of their own, `Induction`, from the well-foundedness of the naturals.)
* `Pthread`: `BarrierData` and `MergedOnce` hold for the programs of the run and not for all.
* That a migrated process finds its memory complete and as it left it: `PagesArrived`, `MemoryFollows` and
  `NoPanic` of `Net` fail for two processes and for pages that are written (section 4), and no run claims them.

The inductive invariants were checked by TLC on the instances of the runs before they were proved. The type
invariants of `Pmap`, `Files` and `DSched` can be added to their configurations; the runs leave them out.

## 6. Plan

1. Process core, its abstract meaning, determinism and the proofs: done.
2. Root process I/O, migration, copy-on-write memory: done for the operations named above.
3. Files and reconciliation, deterministic threads, barriers, instruction counting: done for the
   operations named above.
4. Composition: `Pmap` as the memory of `Spaces` (its `mem` is the memory of `Spaces`); exhaustion of
   frames in `Pmap`.
5. Theorems. Done: the process core, `ImplementsSpaces`, `Deterministic`, `QueuedOnce`, `InputIntact`,
   `CountExact`, `OneOwner`, `NoRollback`, `NeverForgotten`, the three properties of `Pmap` and five of the six
   invariants of `DSched`. Left: `BaseAgrees` of `Files`, which needs `Reconcile` with its folds written as
   loops, as was done for `Pmap`; `MergedOnce` of `Pthread` under a rule for the order of joins.

## 7. Not modelled

The modules cover the code that coordinates: kernel processes, memory sharing, migration, root I/O, files,
and threads. By lines this is a small part of the repository. Of its 53 000 lines two fifths are a
mathematics library and an eighth a memory allocator, both from other projects; much of the rest are
benchmarks and test programs, headers of device registers, and drivers. None of these has state that
several actors change, and a model of their lines would be a transliteration with nothing to check.

* The network adapter (`dev/e100.c`): its rings are shared with a device whose rules are not in the
  repository. From reading the code: while one CPU is in `net_rx` with the lock released, `rx_head` can
  wrap to the slot it has claimed, and the packet is taken twice (`dev/e100.c:283`); and the first pass
  clears the control word of `rx[-1]` (`dev/e100.c:321`).
* Boot code, processor and bus discovery, disk, video and interrupt controllers: register I/O in a fixed
  order.
* The debugger, formatting, strings, mathematics and allocation of the C library: sequential.
* `exec`, `mman`, `stat`, `dup`, directory streams: sequential over PUT and GET or over one process's
  memory.
* User programs, tests and benchmarks: what runs on the system. The programs of `MCPrograms`, `MCDSched`
  and `MCPthread` stand for them.
* In modelled parts: the clock call SYS_TIME, floating-point state, the unfinished 64-bit ports of
  `net.c` and `dsthread.c`, and what section 2 says each module leaves out.

`PROJECT.json` lists each with its reason.
