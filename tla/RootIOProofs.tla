---------------------------- MODULE RootIOProofs ----------------------------
(***************************************************************************)
(* Proofs about the console input and output of the root process, for any  *)
(* set of devices, any sizes of the buffer and the file, and any number of *)
(* characters.                                                             *)
(***************************************************************************)
EXTENDS RootIO, SequenceTheorems, TLAPS

BootPcs == {"alloc", "load", "bootready"}
KernelPcs == {"cons_io", "transfer", "file_io", "lockfile", "stop", "panic", "done"}

(* Types of the variables that control depends on. *)
ControlType ==
    /\ state \in {"NULL", "STOP", "READY", "RUN", "WAIT"}
    /\ queued \in Nat
    /\ rpc \in BootPcs \cup KernelPcs \cup {"user", "waiting", "asleep"}
    /\ ipc \in [Devs -> {"off", "cons_intr", "wakeroot", "test", "ready"}]
    /\ input \in [Devs -> Seq(Nat)]
    /\ ntyped \in Nat
    /\ file_lock \in Devs \cup {NoOne, RootProc}

(* No handler runs before the root process. *)
Quiet == rpc \in BootPcs => \A d \in Devs : ipc[d] = "off" /\ input[d] = <<>>

(* The state of the root process follows its control point. *)
StateOfPc ==
    /\ rpc = "alloc" => state = "NULL"
    /\ rpc \in {"load", "bootready"} => state = "STOP"
    /\ rpc \in KernelPcs \cup {"user"} => state = "RUN"
    /\ rpc = "waiting" => state = "WAIT"
    /\ rpc = "asleep" => state \in {"STOP", "READY"}

(* The file lock is held where file_io and file_wakeroot hold it. *)
FileLocked ==
    /\ file_lock = RootProc <=> rpc = "stop"
    /\ \A d \in Devs : file_lock = d <=> ipc[d] \in {"test", "ready"}

(* A handler that is about to queue the root process found it asleep. *)
FoundAsleep == \A d \in Devs : ipc[d] = "ready" => state = "STOP" /\ rpc = "asleep"

ControlInv == ControlType /\ Quiet /\ StateOfPc /\ FileLocked /\ FoundAsleep /\ QueuedOnce

-----------------------------------------------------------------------------
(* The steps of the root process, up to the file lock, keep the control
   invariant. *)
LEMMA RootControl ==
    ASSUME ControlInv, RootStep \/ UserChoice
    PROVE  ControlInv'
  <1> USE DEF ControlInv, ControlType, Quiet, StateOfPc, FileLocked, FoundAsleep, QueuedOnce,
              BootPcs, KernelPcs, procvars, consvars, filevars, devvars, history
  <1> USE RootIOAssumption DEF NoOne, RootProc
  <1>1. CASE BootAlloc
    BY <1>1 DEF BootAlloc
  <1>2. CASE BootLoad
    BY <1>2 DEF BootLoad
  <1>3. CASE BootReady
    BY <1>3 DEF BootReady
  <1>4. CASE ProcRun
    BY <1>4 DEF ProcRun
  <1>5. CASE ConsIoLock \/ AfterIo
    BY <1>5 DEF ConsIoLock, AfterIo
  <1>6. CASE ConsIo
    BY <1>6 DEF ConsIo
  <1>7. CASE FileLock
    BY <1>7 DEF FileLock
  <1>8. CASE FileSleep
    BY <1>8 DEF FileSleep
  <1>9. CASE UserWrite \/ UserExit \/ UserRet
    BY <1>9 DEF UserWrite, UserExit, UserRet
  <1>10. CASE WaitChild \/ ChildStops
    BY <1>10 DEF WaitChild, ChildStops
  <1> QED BY <1>1, <1>2, <1>3, <1>4, <1>5, <1>6, <1>7, <1>8, <1>9, <1>10
          DEF RootStep, UserChoice

(* Keys and their handlers keep it, if no key is hit before the root process
   has been made ready. *)
LEMMA IntrControl ==
    ASSUME ControlInv, ~EarlyTyping, NEW d \in Devs, Type(d) \/ IntrStep(d)
    PROVE  ControlInv'
  <1> USE DEF ControlInv, ControlType, Quiet, StateOfPc, FileLocked, FoundAsleep, QueuedOnce,
              BootPcs, KernelPcs, procvars, consvars, filevars, devvars, history
  <1> USE RootIOAssumption DEF NoOne, RootProc
  <1>1. CASE Type(d)
    <2>1. PICK ch \in Nat : input' = [input EXCEPT ![d] = Append(@, ch)]
      BY <1>1 DEF Type
    <2>2. input' \in [Devs -> Seq(Nat)]
      BY <2>1, AppendProperties
    <2>3. rpc \notin BootPcs /\ ntyped' \in Nat
      BY <1>1 DEF Type
    <2>4. UNCHANGED <<state, queued, rpc, ipc, file_lock>>
      BY <1>1 DEF Type
    <2> QED BY <2>2, <2>3, <2>4
  <1>2. CASE IntrLock(d)
    BY <1>2 DEF IntrLock
  <1>3. CASE ConsIntr(d)
    BY <1>3 DEF ConsIntr
  <1>4. CASE IntrUnlock(d)
    BY <1>4 DEF IntrUnlock
  <1>5. CASE WakeLock(d)
    BY <1>5 DEF WakeLock
  <1>6. CASE WakeTest(d)
    BY <1>6 DEF WakeTest, Wakeable
  <1>7. CASE WakeReady(d)
    BY <1>7 DEF WakeReady
  <1> QED BY <1>1, <1>2, <1>3, <1>4, <1>5, <1>6, <1>7 DEF IntrStep

-----------------------------------------------------------------------------
(* The characters *)

datavars == <<input, ntyped, stashed, infile, wrapped, rpos, wpos, buf>>

DataType ==
    /\ input \in [Devs -> Seq(Nat)] /\ ntyped \in Nat
    /\ stashed \in Seq(Nat) /\ infile \in Seq(Nat) /\ wrapped \in BOOLEAN
    /\ rpos = 0 /\ wpos \in 0 .. CONSBUFSIZE - 1
    /\ buf \in [0 .. CONSBUFSIZE - 1 -> Nat]

(* Every character is in one place: waiting in a device, or stored once. *)
InputFresh ==
    /\ \A d \in Devs : \A i \in 1 .. Len(input[d]) : input[d][i] <= ntyped
    /\ \A d, e \in Devs : \A i \in 1 .. Len(input[d]), j \in 1 .. Len(input[e]) :
          input[d][i] # 0 /\ input[d][i] = input[e][j] => d = e /\ i = j
    /\ \A d \in Devs : \A i \in 1 .. Len(input[d]), k \in 1 .. Len(stashed) :
          input[d][i] # 0 => input[d][i] # stashed[k]
StashedFresh ==
    /\ \A k \in 1 .. Len(stashed) : stashed[k] <= ntyped
    /\ \A i, j \in 1 .. Len(stashed) : stashed[i] = stashed[j] => i = j

(* The buffer holds the characters stored last, in order, also after wpos has
   wrapped around: rpos never moves from 0. *)
Buffered ==
    /\ wpos <= Len(stashed)
    /\ \A i \in 1 .. wpos : buf[i - 1] = stashed[Len(stashed) - wpos + i]

(* The file holds, in order, characters that were stored before those. *)
Embeds(pos, n) ==
    /\ pos \in [1 .. Len(infile) -> 1 .. n]
    /\ \A i, j \in 1 .. Len(infile) : i < j => pos[i] < pos[j]
    /\ \A i \in 1 .. Len(infile) : infile[i] = stashed[pos[i]]
InOrder ==
    \E pos \in [1 .. Len(infile) -> 1 .. (Len(stashed) - wpos)] :
        Embeds(pos, Len(stashed) - wpos)

(* It holds all of them until the buffer has been filled once. *)
AllThere ==
    ~wrapped => /\ Len(stashed) = Len(infile) + wpos
                /\ \A i \in 1 .. Len(infile) : stashed[i] = infile[i]

DataInv == DataType /\ InputFresh /\ StashedFresh /\ Buffered /\ InOrder /\ AllThere

(* The data invariant implies that the input is intact. *)
LEMMA DataIntact == DataInv => InputIntact
  <1> SUFFICES ASSUME DataInv PROVE InputIntact
    OBVIOUS
  <1>1. /\ Len(stashed) \in Nat /\ Len(infile) \in Nat /\ wpos \in Nat /\ rpos = 0
        /\ wpos <= Len(stashed)
    BY RootIOAssumption, LenProperties DEF DataInv, DataType, Buffered
  <1>2. \A i, j \in 1 .. Len(stashed) : stashed[i] = stashed[j] => i = j
    BY DEF DataInv, StashedFresh
  <1>3. \E pos \in [1 .. Len(infile) -> 1 .. Len(stashed)] :
          /\ \A i, j \in 1 .. Len(infile) : i < j => pos[i] < pos[j]
          /\ \A i \in 1 .. Len(infile) : infile[i] = stashed[pos[i]]
    <2>1. PICK pos : Embeds(pos, Len(stashed) - wpos)
      BY DEF DataInv, InOrder
    <2>2. pos \in [1 .. Len(infile) -> 1 .. Len(stashed)]
      BY <1>1, <2>1 DEF Embeds
    <2> QED BY <2>1, <2>2 DEF Embeds
  <1>4. ASSUME ~wrapped
        PROVE  /\ Len(stashed) = Len(infile) + wpos - rpos
               /\ \A i \in 1 .. Len(stashed) :
                    stashed[i] = IF i <= Len(infile) THEN infile[i]
                                 ELSE buf[rpos + i - Len(infile) - 1]
    <2>1. /\ Len(stashed) = Len(infile) + wpos
          /\ \A i \in 1 .. Len(infile) : stashed[i] = infile[i]
      BY <1>4 DEF DataInv, AllThere
    <2>2. ASSUME NEW i \in 1 .. Len(stashed), ~(i <= Len(infile))
          PROVE  stashed[i] = buf[rpos + i - Len(infile) - 1]
      <3> DEFINE j == i - Len(infile)
      <3>1. /\ j \in 1 .. wpos /\ Len(stashed) - wpos + j = i
            /\ rpos + i - Len(infile) - 1 = j - 1
        BY <1>1, <2>1, <2>2
      <3>2. buf[j - 1] = stashed[Len(stashed) - wpos + j]
        BY <3>1 DEF DataInv, Buffered
      <3> QED BY <3>1, <3>2
    <2> QED BY <1>1, <2>1, <2>2
  <1> QED BY <1>2, <1>3, <1>4 DEF InputIntact

(* A key: the new character is larger than all before it. *)
LEMMA TypeData ==
    ASSUME DataInv, NEW d \in Devs, Type(d)
    PROVE  DataInv'
  <1>1. PICK ch \in Nat :
           /\ input' = [input EXCEPT ![d] = Append(@, ch)]
           /\ ntyped' \in Nat /\ ntyped' >= ntyped
           /\ ch = 0 \/ (ch = ntyped' /\ ch = ntyped + 1)
    <2>1. ntyped \in Nat
      BY DEF DataInv, DataType
    <2>2. CASE ntyped' = ntyped + 1 /\ input' = [input EXCEPT ![d] = Append(@, ntyped + 1)]
      <3>1. ntyped + 1 \in Nat /\ ntyped' \in Nat /\ ntyped' >= ntyped
        BY <2>1, <2>2
      <3> WITNESS ntyped + 1 \in Nat
      <3> QED BY <2>2, <3>1
    <2>3. CASE ntyped' = ntyped /\ input' = [input EXCEPT ![d] = Append(@, 0)]
      <3>1. ntyped' \in Nat /\ ntyped' >= ntyped
        BY <2>1, <2>3
      <3> WITNESS 0 \in Nat
      <3> QED BY <2>3, <3>1
    <2> QED BY <2>2, <2>3 DEF Type
  <1>2. UNCHANGED <<stashed, infile, wrapped, rpos, wpos, buf>>
    BY DEF Type, consvars, filevars, history
  <1>3. /\ input \in [Devs -> Seq(Nat)] /\ ntyped \in Nat /\ stashed \in Seq(Nat)
        /\ \A k \in 1 .. Len(stashed) : stashed[k] \in Nat
    BY ElementOfSeq DEF DataInv, DataType
  <1>4. /\ input' \in [Devs -> Seq(Nat)]
        /\ \A e \in Devs : e # d => input'[e] = input[e]
        /\ Len(input'[d]) = Len(input[d]) + 1 /\ Len(input[d]) \in Nat
        /\ \A i \in 1 .. Len(input[d]) : input'[d][i] = input[d][i]
        /\ input'[d][Len(input[d]) + 1] = ch
    BY <1>1, <1>3, AppendProperties, LenProperties
  <1>5. \A e \in Devs : \A i \in 1 .. Len(input'[e]) :
           \/ i \in 1 .. Len(input[e]) /\ input'[e][i] = input[e][i]
           \/ e = d /\ i = Len(input[d]) + 1 /\ input'[e][i] = ch
    BY <1>4
  <1>6. \A e \in Devs : \A i \in 1 .. Len(input[e]) : input[e][i] \in Nat /\ input[e][i] <= ntyped
    BY <1>3, ElementOfSeq DEF DataInv, InputFresh
  <1>7. InputFresh'
    <2>1. \A e \in Devs : \A i \in 1 .. Len(input'[e]) : input'[e][i] <= ntyped'
      BY <1>1, <1>3, <1>5, <1>6
    <2>2. \A e, f \in Devs : \A i \in 1 .. Len(input'[e]), j \in 1 .. Len(input'[f]) :
            input'[e][i] # 0 /\ input'[e][i] = input'[f][j] => e = f /\ i = j
      BY <1>1, <1>3, <1>5, <1>6 DEF DataInv, InputFresh
    <2>3. \A e \in Devs : \A i \in 1 .. Len(input'[e]), k \in 1 .. Len(stashed) :
            input'[e][i] # 0 => input'[e][i] # stashed[k]
      BY <1>1, <1>3, <1>5, <1>6 DEF DataInv, InputFresh, StashedFresh
    <2> QED BY <1>2, <2>1, <2>2, <2>3 DEF InputFresh
  <1>8. StashedFresh'
    BY <1>1, <1>2, <1>3 DEF DataInv, StashedFresh
  <1>9. DataType'
    BY <1>1, <1>2, <1>4 DEF DataInv, DataType
  <1>10. Buffered' /\ AllThere'
    BY <1>2 DEF DataInv, Buffered, AllThere
  <1>11. InOrder'
    BY <1>2 DEF DataInv, InOrder, Embeds
  <1> QED BY <1>7, <1>8, <1>9, <1>10, <1>11 DEF DataInv

(* A turn of cons_intr's loop that stores a character. *)
LEMMA StoreData ==
    ASSUME DataInv, NEW d \in Devs, ConsIntr(d), Head(input[d]) # 0
    PROVE  DataInv'
  <1> DEFINE ch == Head(input[d])
             n == Len(stashed)
  <1>1. /\ input[d] # <<>> /\ input' = [input EXCEPT ![d] = Tail(@)]
        /\ buf' = [buf EXCEPT ![wpos] = ch]
        /\ wpos' = IF wpos + 1 = CONSBUFSIZE THEN 0 ELSE wpos + 1
        /\ stashed' = Append(stashed, ch)
        /\ wrapped' = (wrapped \/ wpos + 1 = CONSBUFSIZE)
        /\ UNCHANGED <<rpos, ntyped, infile>>
    BY DEF ConsIntr, filevars
  <1>2. /\ input \in [Devs -> Seq(Nat)] /\ input[d] \in Seq(Nat) /\ ntyped \in Nat
        /\ stashed \in Seq(Nat) /\ infile \in Seq(Nat) /\ n \in Nat /\ Len(infile) \in Nat
        /\ rpos = 0 /\ wpos \in 0 .. CONSBUFSIZE - 1 /\ CONSBUFSIZE \in Nat \ {0}
        /\ buf \in [0 .. CONSBUFSIZE - 1 -> Nat] /\ wrapped \in BOOLEAN
    BY RootIOAssumption, LenProperties DEF DataInv, DataType
  <1>3. /\ Len(input[d]) \in Nat \ {0} /\ ch = input[d][1] /\ ch \in Nat
        /\ Tail(input[d]) \in Seq(Nat) /\ Len(Tail(input[d])) = Len(input[d]) - 1
        /\ \A i \in 1 .. Len(Tail(input[d])) : Tail(input[d])[i] = input[d][i + 1]
    BY <1>1, <1>2, HeadTailProperties, LenProperties, EmptySeq
  <1>4. /\ stashed' \in Seq(Nat) /\ Len(stashed') = n + 1
        /\ \A k \in 1 .. n : stashed'[k] = stashed[k]
        /\ stashed'[n + 1] = ch
    BY <1>1, <1>2, <1>3, AppendProperties
  <1>5. /\ input' \in [Devs -> Seq(Nat)]
        /\ \A e \in Devs : e # d => input'[e] = input[e]
        /\ Len(input'[d]) = Len(input[d]) - 1
        /\ \A i \in 1 .. Len(input'[d]) : input'[d][i] = input[d][i + 1]
    BY <1>1, <1>2, <1>3
  <1>6. /\ \A e \in Devs : \A i \in 1 .. Len(input'[e]) :
              \E j \in 1 .. Len(input[e]) :
                 input'[e][i] = input[e][j] /\ j = IF e = d THEN i + 1 ELSE i
        /\ \A e \in Devs : Len(input[e]) \in Nat
    <2>1. \A e \in Devs : Len(input[e]) \in Nat
      BY <1>2, LenProperties
    <2>2. ASSUME NEW i \in 1 .. Len(input'[d])
          PROVE  i + 1 \in 1 .. Len(input[d]) /\ input'[d][i] = input[d][i + 1]
      BY <1>3, <1>5
    <2> QED BY <1>5, <2>1, <2>2
  <1>7. \A k \in 1 .. Len(stashed') : k \in 1 .. n \/ k = n + 1
    BY <1>2, <1>4
  <1> HIDE DEF ch, n
  <1>8. InputFresh'
    <2>1. \A e \in Devs : \A i \in 1 .. Len(input'[e]) : input'[e][i] <= ntyped'
      BY <1>1, <1>6 DEF DataInv, InputFresh
    <2>2. \A e, f \in Devs : \A i \in 1 .. Len(input'[e]), j \in 1 .. Len(input'[f]) :
            input'[e][i] # 0 /\ input'[e][i] = input'[f][j] => e = f /\ i = j
      <3> SUFFICES ASSUME NEW e \in Devs, NEW f \in Devs, NEW i \in 1 .. Len(input'[e]),
                          NEW j \in 1 .. Len(input'[f]), input'[e][i] # 0,
                          input'[e][i] = input'[f][j]
                   PROVE  e = f /\ i = j
        OBVIOUS
      <3>1. PICK k \in 1 .. Len(input[e]) :
               input'[e][i] = input[e][k] /\ k = IF e = d THEN i + 1 ELSE i
        BY <1>6
      <3>2. PICK l \in 1 .. Len(input[f]) :
               input'[f][j] = input[f][l] /\ l = IF f = d THEN j + 1 ELSE j
        BY <1>6
      <3>3. e = f /\ k = l
        <4>1. input[e][k] # 0 /\ input[e][k] = input[f][l]
          BY <3>1, <3>2
        <4>2. \A a, b \in Devs : \A x \in 1 .. Len(input[a]), y \in 1 .. Len(input[b]) :
                 input[a][x] # 0 /\ input[a][x] = input[b][y] => a = b /\ x = y
          BY DEF DataInv, InputFresh
        <4> QED BY <3>1, <3>2, <4>1, <4>2
      <3>4. Len(input'[e]) \in Nat /\ Len(input'[f]) \in Nat
        BY <1>5, LenProperties
      <3> QED BY <3>1, <3>2, <3>3, <3>4
    <2>3. ASSUME NEW e \in Devs, NEW i \in 1 .. Len(input'[e]), NEW k \in 1 .. Len(stashed'),
                 input'[e][i] # 0
          PROVE  input'[e][i] # stashed'[k]
      <3>1. PICK j \in 1 .. Len(input[e]) :
               input'[e][i] = input[e][j] /\ j = IF e = d THEN i + 1 ELSE i
        BY <1>6
      <3>2. CASE k \in 1 .. n
        BY <2>3, <3>1, <3>2, <1>4 DEF DataInv, InputFresh, n
      <3>3. CASE k = n + 1
        <4>1. 1 \in 1 .. Len(input[d]) /\ (e = d => j # 1)
          BY <1>3, <3>1
        <4>2. input[e][j] # input[d][1]
          BY <2>3, <3>1, <4>1 DEF DataInv, InputFresh
        <4> QED BY <1>3, <1>4, <3>1, <3>3, <4>2
      <3> QED BY <1>7, <3>2, <3>3
    <2> QED BY <2>1, <2>2, <2>3 DEF InputFresh
  <1>9. StashedFresh'
    <2>1. 1 \in 1 .. Len(input[d])
      BY <1>3
    <2>2. ch <= ntyped /\ (\A k \in 1 .. n : stashed[k] # ch)
      BY <1>3, <2>1 DEF DataInv, InputFresh, ch, n
    <2>3. /\ \A k \in 1 .. n : stashed[k] <= ntyped
          /\ \A i, j \in 1 .. n : stashed[i] = stashed[j] => i = j
      BY DEF DataInv, StashedFresh, n
    <2> QED BY <1>1, <1>4, <1>7, <2>2, <2>3 DEF StashedFresh
  <1>10. DataType'
    <2>1. wpos' \in 0 .. CONSBUFSIZE - 1
      BY <1>1, <1>2
    <2>2. buf' \in [0 .. CONSBUFSIZE - 1 -> Nat]
      BY <1>1, <1>2, <1>3
    <2>3. wrapped' \in BOOLEAN
      BY <1>1
    <2> QED BY <1>1, <1>2, <1>4, <1>5, <2>1, <2>2, <2>3 DEF DataType
  <1>11. Buffered'
    <2>1. wpos <= n /\ \A i \in 1 .. wpos : buf[i - 1] = stashed[n - wpos + i]
      BY DEF DataInv, Buffered, n
    <2>2. wpos' <= Len(stashed')
      BY <1>1, <1>2, <1>4, <2>1
    <2>3. ASSUME NEW i \in 1 .. wpos'
          PROVE  buf'[i - 1] = stashed'[Len(stashed') - wpos' + i]
      <3>1. wpos' = wpos + 1
        BY <1>1, <1>2
      <3>2. CASE i = wpos + 1
        <4>1. i - 1 = wpos /\ Len(stashed') - wpos' + i = n + 1
          BY <1>2, <1>4, <3>1, <3>2
        <4>2. buf'[wpos] = ch
          BY <1>1, <1>2
        <4> QED BY <1>4, <4>1, <4>2
      <3>3. CASE i \in 1 .. wpos
        <4>1. n - wpos + i \in 1 .. n /\ Len(stashed') - wpos' + i = n - wpos + i
          BY <1>2, <1>4, <2>1, <3>1, <3>3
        <4>2. i - 1 # wpos /\ i - 1 \in 0 .. CONSBUFSIZE - 1
          BY <1>2, <3>3
        <4>3. buf'[i - 1] = buf[i - 1]
          BY <1>1, <1>2, <4>2
        <4> QED BY <1>4, <2>1, <3>3, <4>1, <4>3
      <3> QED BY <1>2, <3>1, <3>2, <3>3
    <2> QED BY <2>2, <2>3 DEF Buffered
  <1>12. InOrder'
    <2>1. PICK pos \in [1 .. Len(infile) -> 1 .. (n - wpos)] : Embeds(pos, n - wpos)
      BY DEF DataInv, InOrder, n
    <2>2. n - wpos <= Len(stashed') - wpos' /\ n - wpos \in Nat
          /\ Len(stashed') - wpos' \in Nat
      BY <1>1, <1>2, <1>4 DEF DataInv, Buffered, n
    <2>3. pos \in [1 .. Len(infile') -> 1 .. (Len(stashed') - wpos')]
      BY <1>1, <2>1, <2>2
    <2>4. \A i \in 1 .. Len(infile) : pos[i] \in 1 .. n
      <3> SUFFICES ASSUME NEW i \in 1 .. Len(infile) PROVE pos[i] \in 1 .. n
        OBVIOUS
      <3>1. pos[i] \in 1 .. (n - wpos)
        BY <2>1
      <3> QED BY <1>2, <2>2, <3>1
    <2>5. Embeds(pos, Len(stashed) - wpos)'
      BY <1>1, <1>4, <2>1, <2>3, <2>4 DEF Embeds
    <2> QED BY <2>3, <2>5 DEF InOrder
  <1>13. AllThere'
    <2>1. SUFFICES ASSUME ~wrapped'
                   PROVE  /\ Len(stashed') = Len(infile') + wpos'
                          /\ \A i \in 1 .. Len(infile') : stashed'[i] = infile'[i]
      BY DEF AllThere
    <2>2. ~wrapped /\ wpos' = wpos + 1
      BY <1>1, <2>1
    <2>3. n = Len(infile) + wpos /\ \A i \in 1 .. Len(infile) : stashed[i] = infile[i]
      BY <2>2 DEF DataInv, AllThere, n
    <2> QED BY <1>1, <1>2, <1>4, <2>2, <2>3
  <1> QED BY <1>8, <1>9, <1>10, <1>11, <1>12, <1>13 DEF DataInv

(* A turn of the loop whatever the event yields: one that yields no character
   only leaves the device. *)
LEMMA ConsIntrData ==
    ASSUME DataInv, NEW d \in Devs, ConsIntr(d)
    PROVE  DataInv'
  <1>1. CASE Head(input[d]) # 0
    BY <1>1, StoreData
  <1>2. CASE Head(input[d]) = 0
    <2>1. /\ input[d] # <<>> /\ input' = [input EXCEPT ![d] = Tail(@)]
          /\ UNCHANGED <<ntyped, stashed, infile, wrapped, rpos, wpos, buf>>
      BY <1>2 DEF ConsIntr, filevars, consvars, history
    <2>2. input \in [Devs -> Seq(Nat)] /\ input[d] \in Seq(Nat)
      BY DEF DataInv, DataType
    <2>3. /\ Len(input[d]) \in Nat \ {0}
          /\ Tail(input[d]) \in Seq(Nat) /\ Len(Tail(input[d])) = Len(input[d]) - 1
          /\ \A i \in 1 .. Len(Tail(input[d])) : Tail(input[d])[i] = input[d][i + 1]
      BY <2>1, <2>2, HeadTailProperties, LenProperties, EmptySeq
    <2>4. /\ input' \in [Devs -> Seq(Nat)]
          /\ \A e \in Devs : e # d => input'[e] = input[e]
          /\ Len(input'[d]) = Len(input[d]) - 1
          /\ \A i \in 1 .. Len(input'[d]) : input'[d][i] = input[d][i + 1]
      BY <2>1, <2>2, <2>3
    <2>5. \A e \in Devs : \A i \in 1 .. Len(input'[e]) :
             \E j \in 1 .. Len(input[e]) :
                input'[e][i] = input[e][j] /\ j = IF e = d THEN i + 1 ELSE i
      <3>1. ASSUME NEW i \in 1 .. Len(input'[d])
            PROVE  i + 1 \in 1 .. Len(input[d]) /\ input'[d][i] = input[d][i + 1]
        BY <2>3, <2>4
      <3> QED BY <2>4, <3>1
    <2>6. InputFresh'
      <3>1. \A e \in Devs : \A i \in 1 .. Len(input'[e]) : input'[e][i] <= ntyped'
        BY <2>1, <2>5 DEF DataInv, InputFresh
      <3>2. ASSUME NEW e \in Devs, NEW f \in Devs, NEW i \in 1 .. Len(input'[e]),
                   NEW j \in 1 .. Len(input'[f]), input'[e][i] # 0,
                   input'[e][i] = input'[f][j]
            PROVE  e = f /\ i = j
        <4>1. PICK k \in 1 .. Len(input[e]) :
                 input'[e][i] = input[e][k] /\ k = IF e = d THEN i + 1 ELSE i
          BY <2>5
        <4>2. PICK l \in 1 .. Len(input[f]) :
                 input'[f][j] = input[f][l] /\ l = IF f = d THEN j + 1 ELSE j
          BY <2>5
        <4>3. input[e][k] # 0 /\ input[e][k] = input[f][l]
          BY <3>2, <4>1, <4>2
        <4>4. e = f /\ k = l
          <5>1. \A a, b \in Devs : \A x \in 1 .. Len(input[a]), y \in 1 .. Len(input[b]) :
                   input[a][x] # 0 /\ input[a][x] = input[b][y] => a = b /\ x = y
            BY DEF DataInv, InputFresh
          <5> QED BY <4>1, <4>2, <4>3, <5>1
        <4>5. Len(input'[e]) \in Nat /\ Len(input'[f]) \in Nat
          BY <2>4, LenProperties
        <4> QED BY <4>1, <4>2, <4>4, <4>5
      <3>3. \A e \in Devs : \A i \in 1 .. Len(input'[e]), k \in 1 .. Len(stashed') :
              input'[e][i] # 0 => input'[e][i] # stashed'[k]
        BY <2>1, <2>5 DEF DataInv, InputFresh
      <3> QED BY <3>1, <3>2, <3>3 DEF InputFresh
    <2>7. DataType' /\ StashedFresh'
      BY <2>1, <2>4 DEF DataInv, DataType, StashedFresh
    <2>8. Buffered' /\ AllThere'
      BY <2>1 DEF DataInv, Buffered, AllThere
    <2>9. InOrder'
      BY <2>1 DEF DataInv, InOrder, Embeds
    <2> QED BY <2>6, <2>7, <2>8, <2>9 DEF DataInv
  <1> QED BY <1>1, <1>2

(* cons_io moves what is buffered to the end of the file. *)
LEMMA ConsIoData ==
    ASSUME DataInv, ConsIo
    PROVE  DataInv'
  <1> DEFINE n == Len(stashed)
             m == Len(infile)
             moved == Slice(buf, rpos, wpos)
  <1>1. /\ stashed \in Seq(Nat) /\ infile \in Seq(Nat) /\ n \in Nat /\ m \in Nat
        /\ rpos = 0 /\ wpos \in Nat /\ wpos \in 0 .. CONSBUFSIZE - 1
        /\ CONSBUFSIZE \in Nat \ {0} /\ buf \in [0 .. CONSBUFSIZE - 1 -> Nat]
    BY RootIOAssumption, LenProperties DEF DataInv, DataType
  <1>2. /\ wpos <= n /\ \A i \in 1 .. wpos : buf[i - 1] = stashed[n - wpos + i]
    BY DEF DataInv, Buffered
  <1>3. UNCHANGED <<input, ntyped, stashed, wrapped, buf>>
    BY DEF ConsIo, devvars, history
  <1>4. CASE UNCHANGED <<rpos, wpos, infile>>
    <2>1. DataType' /\ InputFresh' /\ StashedFresh'
      BY <1>3, <1>4 DEF DataInv, DataType, InputFresh, StashedFresh
    <2>2. Buffered' /\ AllThere'
      BY <1>3, <1>4 DEF DataInv, Buffered, AllThere
    <2>3. InOrder'
      BY <1>3, <1>4 DEF DataInv, InOrder, Embeds
    <2> QED BY <2>1, <2>2, <2>3 DEF DataInv
  <1>5. CASE infile' = infile \o moved /\ rpos' = 0 /\ wpos' = 0
    <2>1. /\ moved = [i \in 1 .. wpos |-> buf[i - 1]]
          /\ \A i \in 1 .. wpos : buf[i - 1] \in Nat
      BY <1>1 DEF Slice
    <2>2. /\ moved \in Seq(Nat) /\ Len(moved) = wpos
          /\ \A i \in 1 .. wpos : moved[i] = stashed[n - wpos + i]
      <3>1. moved \in [1 .. wpos -> Nat]
        BY <2>1
      <3>2. moved \in Seq(Nat) /\ Len(moved) = wpos
        <4>1. moved \in Seq(Nat)
          BY <1>1, <3>1, SeqDef
        <4>2. Len(moved) \in Nat /\ 1 .. Len(moved) = 1 .. wpos
          BY <3>1, <4>1, LenProperties
        <4> QED BY <1>1, <4>1, <4>2
      <3> QED BY <1>2, <2>1, <3>2
    <2> HIDE DEF moved
    <2>3. /\ infile' \in Seq(Nat) /\ Len(infile') = m + wpos
          /\ \A i \in 1 .. m + wpos :
               infile'[i] = IF i <= m THEN infile[i] ELSE moved[i - m]
      BY <1>1, <1>5, <2>2, ConcatProperties
    <2>4. DataType'
      BY <1>1, <1>3, <1>5, <2>3 DEF DataInv, DataType
    <2>5. InputFresh' /\ StashedFresh'
      BY <1>3 DEF DataInv, InputFresh, StashedFresh
    <2>6. Buffered'
      BY <1>1, <1>3, <1>5 DEF Buffered
    <2>7. \A i \in 1 .. m + wpos : ~(i <= m) =>
             /\ n - wpos + (i - m) \in 1 .. n
             /\ infile'[i] = stashed[n - wpos + (i - m)]
      <3> SUFFICES ASSUME NEW i \in 1 .. m + wpos, ~(i <= m)
                   PROVE  /\ n - wpos + (i - m) \in 1 .. n
                          /\ infile'[i] = stashed[n - wpos + (i - m)]
        OBVIOUS
      <3>1. i - m \in 1 .. wpos
        BY <1>1
      <3>2. moved[i - m] = stashed[n - wpos + (i - m)] /\ infile'[i] = moved[i - m]
        BY <2>2, <2>3, <3>1
      <3>3. n - wpos + (i - m) \in 1 .. n
        BY <1>1, <1>2, <3>1
      <3> QED BY <3>2, <3>3
    <2>8. InOrder'
      <3>1. PICK pos \in [1 .. m -> 1 .. (n - wpos)] : Embeds(pos, n - wpos)
        BY DEF DataInv, InOrder
      <3> DEFINE new == [i \in 1 .. m + wpos |-> IF i <= m THEN pos[i] ELSE n - wpos + (i - m)]
      <3>2. \A i \in 1 .. m + wpos :
               \/ i \in 1 .. m /\ new[i] = pos[i] /\ pos[i] \in 1 .. (n - wpos)
               \/ ~(i <= m) /\ new[i] = n - wpos + (i - m)
        <4>1. \A i \in 1 .. m : pos[i] \in 1 .. (n - wpos)
          BY <3>1
        <4> QED BY <1>1, <4>1
      <3> HIDE DEF n, m
      <3>3. new \in [1 .. m + wpos -> 1 .. n]
        <4>1. \A i \in 1 .. m + wpos : new[i] \in 1 .. n
          BY <1>1, <1>2, <2>7, <3>2
        <4> QED BY <4>1
      <3>4. ASSUME NEW i \in 1 .. m + wpos, NEW j \in 1 .. m + wpos, i < j
            PROVE  new[i] < new[j]
        <4>1. CASE i <= m /\ j <= m
          BY <1>1, <3>1, <3>2, <3>4, <4>1 DEF Embeds, m
        <4>2. CASE i <= m /\ ~(j <= m)
          BY <1>1, <1>2, <3>2, <3>4, <4>2
        <4>3. CASE ~(i <= m)
          BY <1>1, <3>2, <3>4, <4>3
        <4> QED BY <4>1, <4>2, <4>3
      <3>5. \A i \in 1 .. m + wpos : infile'[i] = stashed[new[i]]
        BY <1>1, <2>3, <2>7, <3>1, <3>2 DEF Embeds, m
      <3>6. 1 .. Len(infile') = 1 .. m + wpos /\ Len(stashed') - wpos' = n
        BY <1>1, <1>3, <1>5, <2>3 DEF n
      <3> HIDE DEF new
      <3>7. new \in [1 .. Len(infile') -> 1 .. (Len(stashed') - wpos')]
        BY <3>3, <3>6
      <3>8. \A i, j \in 1 .. Len(infile') : i < j => new[i] < new[j]
        BY <3>4, <3>6
      <3>9. \A i \in 1 .. Len(infile') : infile'[i] = stashed'[new[i]]
        BY <1>3, <3>5, <3>6
      <3>10. \E p \in [1 .. Len(infile') -> 1 .. (Len(stashed') - wpos')] :
               /\ \A i, j \in 1 .. Len(infile') : i < j => p[i] < p[j]
               /\ \A i \in 1 .. Len(infile') : infile'[i] = stashed'[p[i]]
        BY <3>7, <3>8, <3>9
      <3> QED BY <3>10 DEF InOrder, Embeds
    <2>9. AllThere'
      <3>1. SUFFICES ASSUME ~wrapped
                     PROVE  /\ n = Len(infile') + 0
                            /\ \A i \in 1 .. Len(infile') : stashed[i] = infile'[i]
        BY <1>3, <1>5 DEF AllThere
      <3>2. n = m + wpos /\ \A i \in 1 .. m : stashed[i] = infile[i]
        BY <3>1 DEF DataInv, AllThere
      <3> HIDE DEF n, m
      <3>3. \A i \in 1 .. m + wpos : ~(i <= m) => n - wpos + (i - m) = i
        BY <1>1, <3>2
      <3>4. \A i \in 1 .. m + wpos : stashed[i] = infile'[i]
        <4> SUFFICES ASSUME NEW i \in 1 .. m + wpos PROVE stashed[i] = infile'[i]
          OBVIOUS
        <4>1. CASE i <= m
          <5>1. i \in 1 .. m
            BY <1>1, <4>1
          <5>2. infile'[i] = infile[i]
            BY <2>3, <4>1
          <5> QED BY <3>2, <5>1, <5>2
        <4>2. CASE ~(i <= m)
          BY <2>7, <3>3, <4>2
        <4> QED BY <4>1, <4>2
      <3> QED BY <1>1, <2>3, <3>2, <3>4
    <2> QED BY <2>4, <2>5, <2>6, <2>8, <2>9 DEF DataInv
  <1>6. wpos - rpos > 0 \/ (rpos = 0 /\ wpos = 0)
    BY <1>1
  <1> QED BY <1>4, <1>5, <1>6, <1>1 DEF ConsIo

(* Every step keeps the data invariant. *)
LEMMA DataStep ==
    ASSUME DataInv, [Next]_vars
    PROVE  DataInv'
  <1>1. CASE UNCHANGED datavars
    <2>1. DataType' /\ InputFresh' /\ StashedFresh'
      BY <1>1 DEF datavars, DataInv, DataType, InputFresh, StashedFresh
    <2>2. Buffered' /\ AllThere'
      BY <1>1 DEF datavars, DataInv, Buffered, AllThere
    <2>3. InOrder'
      BY <1>1 DEF datavars, DataInv, InOrder, Embeds
    <2> QED BY <2>1, <2>2, <2>3 DEF DataInv
  <1>2. CASE UNCHANGED vars
    BY <1>1, <1>2 DEF vars, datavars
  <1>3. CASE RootStep
    BY <1>1, <1>3, ConsIoData
       DEF RootStep, BootAlloc, BootLoad, BootReady, ProcRun, ConsIoLock, AfterIo, FileLock,
           FileSleep, datavars, procvars, consvars, filevars, devvars, history
  <1>4. CASE UserChoice
    BY <1>1, <1>4 DEF UserChoice, UserWrite, UserExit, UserRet, WaitChild, ChildStops,
           datavars, procvars, consvars, filevars, devvars, history
  <1>5. ASSUME NEW d \in Devs, Type(d) \/ IntrStep(d)
        PROVE  DataInv'
    BY <1>1, <1>5, TypeData, ConsIntrData
       DEF IntrStep, IntrLock, IntrUnlock, WakeLock, WakeTest, WakeReady,
           datavars, procvars, consvars, filevars, devvars, history
  <1> QED BY <1>2, <1>3, <1>4, <1>5 DEF Next

(* Every step keeps the control invariant. *)
LEMMA ControlStep ==
    ASSUME ControlInv, ~EarlyTyping, [Next]_vars
    PROVE  ControlInv'
  <1>1. CASE UNCHANGED vars
    BY <1>1 DEF vars, ControlInv, ControlType, Quiet, StateOfPc, FileLocked, FoundAsleep,
                QueuedOnce
  <1> QED BY <1>1, RootControl, IntrControl DEF Next

-----------------------------------------------------------------------------
(* The root process is in the ready queue once while it is READY and never
   otherwise, however many devices call file_wakeroot while file_io puts the
   process to sleep.  That no key is hit before the process has been loaded is
   a hypothesis: init.c enables the interrupts earlier. *)
THEOREM RootQueuedOnce ==
    ASSUME ~EarlyTyping
    PROVE  Spec => []QueuedOnce
  <1>1. Init => ControlInv
    BY RootIOAssumption, EmptySeq
       DEF Init, ControlInv, ControlType, Quiet, StateOfPc, FileLocked, FoundAsleep, QueuedOnce,
           BootPcs, KernelPcs, NoOne, RootProc
  <1>2. ControlInv /\ [Next]_vars => ControlInv'
    BY ControlStep
  <1>3. ControlInv => QueuedOnce
    BY DEF ControlInv
  <1> QED BY <1>1, <1>2, <1>3, PTL DEF Spec

(* Characters reach the console input file in the order in which cons_intr
   stored them, each at most once, and all of them until the buffer has been
   filled: for every buffer, file and number of devices. *)
THEOREM InputArrives == Spec => []InputIntact
  <1>1. Init => DataInv
    <2> SUFFICES ASSUME Init PROVE DataInv
      OBVIOUS
    <2>1. /\ Len(stashed) = 0 /\ Len(infile) = 0 /\ \A d \in Devs : Len(input[d]) = 0
          /\ wpos = 0
      BY EmptySeq DEF Init
    <2>2. DataType
      <3>1. <<>> \in Seq(Nat)
        BY EmptySeq
      <3>2. 0 \in 0 .. CONSBUFSIZE - 1
        BY RootIOAssumption
      <3>3. [i \in 0 .. CONSBUFSIZE - 1 |-> 0] \in [0 .. CONSBUFSIZE - 1 -> Nat]
        OBVIOUS
      <3> QED BY <3>1, <3>2, <3>3 DEF Init, DataType
    <2>3. InputFresh /\ StashedFresh /\ Buffered /\ AllThere
      BY <2>1 DEF InputFresh, StashedFresh, Buffered, AllThere
    <2>4. InOrder
      <3> DEFINE none == [i \in 1 .. Len(infile) |-> 1]
      <3>1. none \in [1 .. Len(infile) -> 1 .. (Len(stashed) - wpos)]
        BY <2>1
      <3>2. Embeds(none, Len(stashed) - wpos)
        BY <2>1 DEF Embeds
      <3> QED BY <3>1, <3>2 DEF InOrder
    <2> QED BY <2>2, <2>3, <2>4 DEF DataInv
  <1>2. DataInv /\ [Next]_vars => DataInv'
    BY DataStep
  <1> QED BY <1>1, <1>2, DataIntact, PTL DEF Spec
=============================================================================
