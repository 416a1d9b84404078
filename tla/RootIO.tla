------------------------------- MODULE RootIO -------------------------------
(***************************************************************************)
(* Console input and output of the root process (kern/file.c, kern/cons.c  *)
(* and the end of kern/init.c).                                            *)
(*                                                                         *)
(* The root process does I/O by returning to its non-existent parent:      *)
(* proc_ret calls file_io, which moves data between the console and the    *)
(* console files in the root process's memory, and puts the process to     *)
(* sleep when there is nothing to move.  Keyboard and serial interrupts,   *)
(* taken by whichever CPU is in user mode or idle, fill the console buffer *)
(* and wake the root process.  The root process is one actor here and each *)
(* device's interrupt handler is another; an action is a critical section  *)
(* or a stretch of unlocked code.                                          *)
(*                                                                         *)
(* A character is its position in the order of typing, or 0 for an event   *)
(* that yields no character.  Of the output file only its size matters.    *)
(***************************************************************************)
EXTENDS Integers, Sequences

CONSTANTS
    Devs,           \* devices with an interrupt handler
    CONSBUFSIZE,    \* size of the console input buffer
    FILE_MAXSIZE,   \* maximal size of the console input file
    MaxTyped,       \* bound: characters typed
    MaxNul,         \* bound: events that yield no character
    MaxOut,         \* bound: characters the root process writes
    EarlyTyping     \* whether keys may be hit before the root process runs

ASSUME RootIOAssumption ==
    /\ CONSBUFSIZE \in Nat \ {0} /\ FILE_MAXSIZE \in Nat
    /\ MaxTyped \in Nat /\ MaxNul \in Nat /\ MaxOut \in Nat
    /\ EarlyTyping \in BOOLEAN
    /\ Devs \cap {"none", "root"} = {}

NoOne == "none"
RootProc == "root"

VARIABLES
    state,      \* proc_root->state, "NULL" before it is allocated
    queued,     \* occurrences of the root process in the ready queue
    loaded,     \* whether init has loaded the root process
    rpc,        \* control point of the root process, or of init before it
    didio,      \* what cons_io returned
    ipc,        \* control point of each interrupt handler
    input,      \* characters waiting in each device
    ntyped, nnul,
    buf, rpos, wpos,    \* cons
    cons_outsize,
    outsize,    \* size of the root process's console output file
    infile,     \* contents of its console input file
    exited,     \* files->exited
    cons_lock, file_lock,
    stashed,    \* history: every character put into cons.buf
    wrapped     \* history: whether wpos has wrapped around

procvars == <<state, queued, loaded>>
consvars == <<buf, rpos, wpos>>
filevars == <<cons_outsize, outsize, infile, exited>>
devvars == <<input, ntyped, nnul>>
history == <<stashed, wrapped>>
vars == <<state, queued, loaded, rpc, didio, ipc, input, ntyped, nnul, buf, rpos,
          wpos, cons_outsize, outsize, infile, exited, cons_lock, file_lock,
          stashed, wrapped>>

Init ==
    /\ state = "NULL" /\ queued = 0 /\ loaded = FALSE
    /\ rpc = "alloc" /\ didio = FALSE
    /\ ipc = [d \in Devs |-> "off"]
    /\ input = [d \in Devs |-> <<>>] /\ ntyped = 0 /\ nnul = 0
    /\ buf = [i \in 0 .. CONSBUFSIZE - 1 |-> 0] /\ rpos = 0 /\ wpos = 0
    /\ cons_outsize = 0 /\ outsize = 0 /\ infile = <<>> /\ exited = FALSE
    /\ cons_lock = NoOne /\ file_lock = NoOne
    /\ stashed = <<>> /\ wrapped = FALSE

-----------------------------------------------------------------------------
(* Boot: the root process is allocated, loaded and made ready. *)

BootAlloc ==
    /\ rpc = "alloc"
    /\ state' = "STOP"
    /\ rpc' = "load"
    /\ UNCHANGED <<queued, loaded, didio, ipc, devvars, consvars, filevars,
                   cons_lock, file_lock, history>>

BootLoad ==
    /\ rpc = "load"
    /\ loaded' = TRUE
    /\ rpc' = "bootready"
    /\ UNCHANGED <<state, queued, didio, ipc, devvars, consvars, filevars,
                   cons_lock, file_lock, history>>

BootReady ==
    /\ rpc = "bootready"
    /\ state' = "READY" /\ queued' = queued + 1
    /\ rpc' = "asleep"
    /\ UNCHANGED <<loaded, didio, ipc, devvars, consvars, filevars,
                   cons_lock, file_lock, history>>

-----------------------------------------------------------------------------
(* The root process in user mode *)

(* proc_sched takes the process from the ready queue and runs it. *)
ProcRun ==
    /\ rpc = "asleep" /\ state = "READY" /\ queued > 0
    /\ state' = "RUN" /\ queued' = queued - 1
    /\ rpc' = "user"
    /\ UNCHANGED <<loaded, didio, ipc, devvars, consvars, filevars,
                   cons_lock, file_lock, history>>

UserWrite ==
    /\ rpc = "user" /\ outsize < MaxOut
    /\ outsize' = outsize + 1
    /\ UNCHANGED <<procvars, rpc, didio, ipc, devvars, consvars, cons_outsize,
                   infile, exited, cons_lock, file_lock, history>>

UserExit ==
    /\ rpc = "user" /\ ~exited
    /\ exited' = TRUE
    /\ UNCHANGED <<procvars, rpc, didio, ipc, devvars, consvars, cons_outsize,
                   outsize, infile, cons_lock, file_lock, history>>

(* A PUT or GET waits for a child; the child's proc_ret runs the root
   process again without the ready queue. *)
WaitChild ==
    /\ rpc = "user"
    /\ state' = "WAIT" /\ rpc' = "waiting"
    /\ UNCHANGED <<queued, loaded, didio, ipc, devvars, consvars, filevars,
                   cons_lock, file_lock, history>>

ChildStops ==
    /\ rpc = "waiting"
    /\ state' = "RUN" /\ rpc' = "user"
    /\ UNCHANGED <<queued, loaded, didio, ipc, devvars, consvars, filevars,
                   cons_lock, file_lock, history>>

UserRet ==
    /\ rpc = "user"
    /\ rpc' = "cons_io"
    /\ UNCHANGED <<procvars, didio, ipc, devvars, consvars, filevars,
                   cons_lock, file_lock, history>>

-----------------------------------------------------------------------------
(* file_io *)

ConsIoLock ==
    /\ rpc = "cons_io" /\ cons_lock = NoOne
    /\ cons_lock' = RootProc
    /\ rpc' = "transfer"
    /\ UNCHANGED <<procvars, didio, ipc, devvars, consvars, filevars, file_lock,
                   history>>

(* The characters of cons.buf between rpos and wpos. *)
Slice_OffByOne(b, r, w) == [i \in 1 .. w - r |-> b[r + i]]
Slice(b, r, w) == [i \in 1 .. w - r |-> b[r + i - 1]]

(* How far the output loop gets: to the end of the console output file. *)
Output(done, size) == IF done < size THEN size ELSE done

(* cons_io: all pending output goes to the device, all buffered input to the
   console input file.  It panics if the file is full and asserts that the
   buffer positions did not pass each other. *)
ConsIo ==
    LET amount == wpos - rpos IN
    /\ rpc = "transfer"
    /\ cons_outsize' = Output(cons_outsize, outsize)
    /\ IF Len(infile) + amount > FILE_MAXSIZE \/ amount < 0
       THEN /\ rpc' = "panic"
            /\ UNCHANGED <<didio, rpos, wpos, infile, cons_lock>>
       ELSE /\ infile' = infile \o Slice(buf, rpos, wpos)
            /\ rpos' = IF amount > 0 THEN 0 ELSE rpos
            /\ wpos' = IF amount > 0 THEN 0 ELSE wpos
            /\ didio' = (cons_outsize < cons_outsize' \/ amount > 0)
            /\ cons_lock' = NoOne
            /\ rpc' = "file_io"
    /\ UNCHANGED <<procvars, ipc, devvars, buf, outsize, exited, file_lock, history>>

(* file_io after cons_io: stop the system, run again, or go to sleep. *)
AfterIo ==
    /\ rpc = "file_io"
    /\ rpc' = IF exited THEN "done" ELSE IF didio THEN "user" ELSE "lockfile"
    /\ UNCHANGED <<procvars, didio, ipc, devvars, consvars, filevars,
                   cons_lock, file_lock, history>>

FileLock ==
    /\ rpc = "lockfile" /\ file_lock = NoOne
    /\ file_lock' = RootProc
    /\ rpc' = "stop"
    /\ UNCHANGED <<procvars, didio, ipc, devvars, consvars, filevars, cons_lock,
                   history>>

FileSleep ==
    /\ rpc = "stop"
    /\ state' = "STOP"
    /\ file_lock' = NoOne
    /\ rpc' = "asleep"
    /\ UNCHANGED <<queued, loaded, didio, ipc, devvars, consvars, filevars,
                   cons_lock, history>>

-----------------------------------------------------------------------------
(* Devices and their interrupts *)

(* A key is hit, or a character arrives on the serial line. *)
Type(d) ==
    /\ EarlyTyping \/ rpc \notin {"alloc", "load", "bootready"}
    /\ \/ /\ ntyped < MaxTyped
          /\ ntyped' = ntyped + 1
          /\ input' = [input EXCEPT ![d] = Append(@, ntyped + 1)]
          /\ UNCHANGED nnul
       \/ /\ nnul < MaxNul
          /\ nnul' = nnul + 1
          /\ input' = [input EXCEPT ![d] = Append(@, 0)]
          /\ UNCHANGED ntyped
    /\ UNCHANGED <<procvars, rpc, didio, ipc, consvars, filevars, cons_lock,
                   file_lock, history>>

(* The interrupt: cons_intr takes the console lock. *)
IntrLock(d) ==
    /\ ipc[d] = "off" /\ input[d] # <<>>
    /\ cons_lock = NoOne
    /\ cons_lock' = d
    /\ ipc' = [ipc EXCEPT ![d] = "cons_intr"]
    /\ UNCHANGED <<procvars, rpc, didio, devvars, consvars, filevars, file_lock,
                   history>>

(* One turn of cons_intr's loop. *)
ConsIntr(d) ==
    LET ch == Head(input[d])
        next == wpos + 1
    IN
    /\ ipc[d] = "cons_intr" /\ input[d] # <<>>
    /\ input' = [input EXCEPT ![d] = Tail(@)]
    /\ IF ch = 0 THEN UNCHANGED <<consvars, history>>
       ELSE /\ buf' = [buf EXCEPT ![wpos] = ch]
            /\ wpos' = IF next = CONSBUFSIZE THEN 0 ELSE next
            /\ stashed' = Append(stashed, ch)
            /\ wrapped' = (wrapped \/ next = CONSBUFSIZE)
            /\ UNCHANGED rpos
    /\ UNCHANGED <<procvars, rpc, didio, ipc, ntyped, nnul, filevars, cons_lock,
                   file_lock>>

(* No more characters: release the console lock and go to file_wakeroot. *)
IntrUnlock(d) ==
    /\ ipc[d] = "cons_intr" /\ input[d] = <<>>
    /\ cons_lock' = NoOne
    /\ ipc' = [ipc EXCEPT ![d] = "wakeroot"]
    /\ UNCHANGED <<procvars, rpc, didio, devvars, consvars, filevars, file_lock,
                   history>>

WakeLock(d) ==
    /\ ipc[d] = "wakeroot" /\ file_lock = NoOne
    /\ file_lock' = d
    /\ ipc' = [ipc EXCEPT ![d] = "test"]
    /\ UNCHANGED <<procvars, rpc, didio, devvars, consvars, filevars, cons_lock,
                   history>>

(* file_wakeroot's test of the root process's state. *)
Wakeable_NotRun(s) == s # "RUN"
Wakeable(s) == s = "STOP"

(* The test under the file lock: nothing to do, or on to proc_ready. *)
WakeTest(d) ==
    /\ ipc[d] = "test"
    /\ IF Wakeable(state)
       THEN ipc' = [ipc EXCEPT ![d] = "ready"] /\ UNCHANGED file_lock
       ELSE ipc' = [ipc EXCEPT ![d] = "off"] /\ file_lock' = NoOne
    /\ UNCHANGED <<procvars, rpc, didio, devvars, consvars, filevars, cons_lock,
                   history>>

WakeReady_Forget(d) ==
    /\ ipc[d] = "ready"
    /\ file_lock' = NoOne
    /\ ipc' = [ipc EXCEPT ![d] = "off"]
    /\ UNCHANGED <<procvars, rpc, didio, devvars, consvars, filevars, cons_lock,
                   history>>
WakeReady(d) ==
    /\ ipc[d] = "ready"
    /\ state' = "READY" /\ queued' = queued + 1
    /\ file_lock' = NoOne
    /\ ipc' = [ipc EXCEPT ![d] = "off"]
    /\ UNCHANGED <<loaded, rpc, didio, devvars, consvars, filevars, cons_lock,
                   history>>

-----------------------------------------------------------------------------
RootStep ==
    \/ BootAlloc \/ BootLoad \/ BootReady \/ ProcRun
    \/ ConsIoLock \/ ConsIo \/ AfterIo \/ FileLock \/ FileSleep

UserChoice == UserWrite \/ UserExit \/ UserRet \/ WaitChild \/ ChildStops

IntrStep(d) ==
    \/ IntrLock(d) \/ ConsIntr(d) \/ IntrUnlock(d)
    \/ WakeLock(d) \/ WakeTest(d) \/ WakeReady(d)

Next ==
    \/ RootStep \/ UserChoice
    \/ \E d \in Devs : Type(d) \/ IntrStep(d)

Spec == Init /\ [][Next]_vars

(* The CPU of the root process and the CPUs that take the interrupts keep
   executing; nothing is assumed about who wins a lock, nor about when user
   code returns to the kernel. *)
FairSpec ==
    /\ Spec
    /\ WF_vars(RootStep)
    /\ \A d \in Devs : WF_vars(IntrStep(d))

-----------------------------------------------------------------------------
(* Correctness *)

(* Types.  The positions stay inside the console buffer (cons_intr wraps wpos,
   cons_io resets both), the input file respects FILE_MAXSIZE, and no more
   output is taken from the output file than the process has written. *)
TypeOK ==
    /\ state \in {"NULL", "STOP", "READY", "RUN", "WAIT"}
    /\ queued \in Nat
    /\ loaded \in BOOLEAN /\ didio \in BOOLEAN /\ exited \in BOOLEAN
    /\ rpc \in {"alloc", "load", "bootready", "user", "waiting", "cons_io", "transfer",
                "file_io", "lockfile", "stop", "asleep", "panic", "done"}
    /\ ipc \in [Devs -> {"off", "cons_intr", "wakeroot", "test", "ready"}]
    /\ rpos \in 0 .. CONSBUFSIZE - 1 /\ wpos \in 0 .. CONSBUFSIZE - 1
    /\ buf \in [0 .. CONSBUFSIZE - 1 -> 0 .. MaxTyped]
    /\ Len(infile) <= FILE_MAXSIZE
    /\ cons_outsize <= outsize
    /\ cons_lock \in Devs \cup {NoOne, RootProc}
    /\ file_lock \in Devs \cup {NoOne, RootProc}

Asleep == rpc = "asleep" /\ state = "STOP"
HasInput == rpos # wpos
Waking(d) == ipc[d] \in {"cons_intr", "wakeroot", "test", "ready"}

(* Once booted, the root process is in the ready queue exactly once while it
   is READY and not at all otherwise: the handlers of two devices and the
   process's own way to sleep never queue it twice, and a root process that
   waits for a child is not woken by a key. *)
QueuedOnce == queued = IF state = "READY" THEN 1 ELSE 0

(* Characters reach the console input file in the order in which the
   interrupt handlers stored them, none twice, and as long as the buffer has
   not been filled none is missing. *)
InputIntact ==
    /\ \A i, j \in 1 .. Len(stashed) : stashed[i] = stashed[j] => i = j
    /\ \E pos \in [1 .. Len(infile) -> 1 .. Len(stashed)] :
          /\ \A i, j \in 1 .. Len(infile) : i < j => pos[i] < pos[j]
          /\ \A i \in 1 .. Len(infile) : infile[i] = stashed[pos[i]]
    /\ ~wrapped =>
         /\ Len(stashed) = Len(infile) + wpos - rpos
         /\ \A i \in 1 .. Len(stashed) :
              stashed[i] = IF i <= Len(infile) THEN infile[i] ELSE buf[rpos + i - Len(infile) - 1]

(* file_wakeroot wakes the root process "if the root process is waiting":
   what it puts into the ready queue has been loaded. *)
ReadyIsLoaded == state = "READY" => loaded

(* "Check to see if any input is available for the root process and if the
   root process is waiting for it, and if so, wake the process": the process
   does not sleep on buffered input unless a handler is about to wake it. *)
NoSleepOnInput == Asleep /\ HasInput => \E d \in Devs : Waking(d)

(* A key that is hit while the root process sleeps brings it back. *)
KeyWakes == (Asleep /\ \E d \in Devs : input[d] # <<>>) ~> ~Asleep
=============================================================================
