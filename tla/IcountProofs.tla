---------------------------- MODULE IcountProofs ----------------------------
(***************************************************************************)
(* Proof that the instruction counts of Icount are exact, for any number   *)
(* of CPUs and processes, any limits, any width of int and of the counter, *)
(* and any lateness of the counter's interrupt up to pmc_safety.           *)
(***************************************************************************)
EXTENDS Icount, TLAPS

ProcRec == [st : {"STOP", "READY", "WAIT", "RUN"}, trapno : {"none", "ICNT", "other"},
            icnt : Nat, imax : Limits \cup {0}, pmcmax : Nat, tf : BOOLEAN, iff : BOOLEAN]
Counter == [val : 0 .. CtrSize - 1, en : BOOLEAN, ovf : BOOLEAN, late : 0 .. MaxLate]

(* Types of the variables. *)
TypeOK ==
    /\ avail \in BOOLEAN
    /\ proc \in [Procs -> ProcRec]
    /\ cur \in [Cpus -> Procs \cup {NoProc}]
    /\ ctr \in [Cpus -> Counter]
    /\ nstart \in Nat
    /\ done \in [Procs -> Nat]
    /\ missed \in [Procs -> Nat]
    /\ panicked \in BOOLEAN

(* A process is on at most one CPU, and RUN while it is. *)
OnCpu ==
    /\ \A c \in Cpus : cur[c] \in Procs => proc[cur[c]].st = "RUN"
    /\ \A c, d \in Cpus : cur[c] \in Procs /\ cur[c] = cur[d] => c = d

(* A process that does not run has been saved: no trap flag, no counter. *)
Saved(r) == ~r.tf /\ r.iff /\ r.pmcmax = 0
OffCpu == \A p \in Procs : proc[p].st # "RUN" => Saved(proc[p])

(* A count n of the counter k that was set to m: it has not overflowed, or it
   has and the interrupt is late by at most k.late instructions. *)
InMargin(k, m, n) == IF k.ovf THEN n <= m + k.late ELSE n < m

(* What the count of a running process lacks is what the counter holds, and
   the counter was set so that even a late interrupt comes before the limit. *)
Counting(r, k, n) ==
    \/ /\ r.tf /\ r.pmcmax = 0
       /\ n = r.icnt /\ r.icnt < r.imax
    \/ /\ ~r.tf /\ r.iff /\ r.pmcmax > 0 /\ k.en
       /\ r.icnt + r.pmcmax + pmc_safety <= r.imax
       /\ n = r.icnt + PmcGet(k, r.pmcmax)
       /\ InMargin(k, r.pmcmax, PmcGet(k, r.pmcmax))

Running ==
    \A c \in Cpus : cur[c] \in Procs =>
        Counting(proc[cur[c]], ctr[c], done[cur[c]] - missed[cur[c]])

(* The inductive invariant.  After a failed assertion nothing happens any more. *)
IInv == TypeOK /\ CountExact /\ (panicked \/ (OnCpu /\ OffCpu /\ Running))

-----------------------------------------------------------------------------
(* The counter *)

(* The remainders that the counter takes. *)
LEMMA Remainders ==
    ASSUME NEW C \in Nat \ {0}
    PROVE  /\ \A n \in 0 .. C - 1 : n % C = n /\ (n + 1) % C = IF n + 1 = C THEN 0 ELSE n + 1
           /\ \A n \in 1 .. C - 1 : (-n) % C = C - n
  OBVIOUS

(* Setting the counter (pmc_amdset) makes its count zero and keeps a pending
   overflow. *)
LEMMA PmcSetCount ==
    ASSUME NEW k \in Counter, NEW m \in 1 .. CtrSize - 1
    PROVE  /\ PmcSet(k, m) \in Counter
           /\ PmcSet(k, m).en
           /\ PmcGet(PmcSet(k, m), m) = 0
           /\ InMargin(PmcSet(k, m), m, 0)
  <1>1. CtrSize \in Nat \ {0} /\ MaxLate \in Nat
    BY IcountAssumption
  <1>2. (-m) % CtrSize = CtrSize - m
    BY <1>1, Remainders
  <1>3. CtrSize - m \in 0 .. CtrSize - 1
    BY <1>1
  <1>4. /\ PmcSet(k, m) \in Counter /\ PmcSet(k, m).en
        /\ PmcSet(k, m).val = CtrSize - m
        /\ PmcSet(k, m).ovf <=> k.ovf
        /\ PmcSet(k, m).late = k.late
    BY <1>2, <1>3 DEF PmcSet, Counter
  <1>5. k.late \in 0 .. MaxLate
    BY DEF Counter
  <1>6. PmcGet(PmcSet(k, m), m) = 0
    BY <1>1, <1>2, <1>4 DEF PmcGet
  <1>7. InMargin(PmcSet(k, m), m, 0)
    BY <1>1, <1>4, <1>5 DEF InMargin
  <1> QED BY <1>4, <1>6, <1>7

(* An instruction (Retire) that is not too late for a pending interrupt adds one
   to the count and leaves it in the margin. *)
LEMMA RetireCount ==
    ASSUME NEW k \in Counter, NEW m \in 1 .. CtrSize - 1,
           k.en, ~(k.ovf /\ k.late >= MaxLate),
           InMargin(k, m, PmcGet(k, m)), PmcGet(k, m) + 1 < CtrSize
    PROVE  /\ Retire(k).en
           /\ PmcGet(Retire(k), m) = PmcGet(k, m) + 1
           /\ InMargin(Retire(k), m, PmcGet(k, m) + 1)
  <1> DEFINE next == (k.val + 1) % CtrSize
  <1>1. CtrSize \in Nat \ {0} /\ MaxLate \in Nat
    BY IcountAssumption
  <1>2. k.val \in 0 .. CtrSize - 1 /\ k.ovf \in BOOLEAN /\ k.late \in 0 .. MaxLate
    BY DEF Counter
  <1>3. (-m) % CtrSize = CtrSize - m
    BY <1>1, Remainders
  <1>4. next = IF k.val + 1 = CtrSize THEN 0 ELSE k.val + 1
    BY <1>1, <1>2, Remainders
  <1>5. /\ Retire(k).val = next /\ Retire(k).en
        /\ Retire(k).ovf <=> (k.ovf \/ next = 0)
        /\ Retire(k).late = IF k.ovf /\ k.late < MaxLate THEN k.late + 1 ELSE k.late
    BY DEF Retire, Counter
  <1> HIDE DEF next
  <1>6. PmcGet(k, m) = IF k.val < CtrSize - m THEN k.val + m ELSE k.val + m - CtrSize
    BY <1>1, <1>2, <1>3 DEF PmcGet
  <1>7. PmcGet(Retire(k), m) = IF next < CtrSize - m THEN next + m ELSE next + m - CtrSize
    BY <1>1, <1>2, <1>3, <1>4, <1>5 DEF PmcGet
  <1>8. PmcGet(Retire(k), m) = PmcGet(k, m) + 1
    BY <1>1, <1>2, <1>4, <1>6, <1>7
  <1>9. InMargin(Retire(k), m, PmcGet(k, m) + 1)
    <2>1. CASE k.ovf
      BY <1>1, <1>2, <1>5, <1>6, <2>1 DEF InMargin
    <2>2. CASE ~k.ovf
      BY <1>1, <1>2, <1>4, <1>5, <1>6, <2>2 DEF InMargin
    <2> QED BY <2>1, <2>2
  <1> QED BY <1>5, <1>8, <1>9

(* The values of a counter remain values of a counter. *)
LEMMA CounterTypes ==
    ASSUME NEW k \in Counter
    PROVE  /\ Retire(k) \in Counter /\ PmcStop(k) \in Counter
           /\ \A m \in 1 .. CtrSize - 1 : PmcGet(k, m) \in 0 .. CtrSize - 1
  <1>1. CtrSize \in Nat \ {0} /\ MaxLate \in Nat
    BY IcountAssumption
  <1>2. \A m \in 1 .. CtrSize - 1 : (-m) % CtrSize = CtrSize - m
    BY <1>1, Remainders
  <1>3. (k.val + 1) % CtrSize \in 0 .. CtrSize - 1
    BY <1>1 DEF Counter
  <1>4. Retire(k) \in Counter
    <2>1. /\ k.val \in 0 .. CtrSize - 1 /\ k.en \in BOOLEAN
          /\ k.ovf \in BOOLEAN /\ k.late \in 0 .. MaxLate
      BY DEF Counter
    <2> DEFINE v == IF k.en THEN (k.val + 1) % CtrSize ELSE k.val
               o == k.ovf \/ (k.en /\ (k.val + 1) % CtrSize = 0)
               l == IF k.ovf /\ k.late < MaxLate THEN k.late + 1 ELSE k.late
    <2>2. v \in 0 .. CtrSize - 1 /\ l \in 0 .. MaxLate
      BY <1>1, <1>3, <2>1
    <2>3. o \in BOOLEAN
      OBVIOUS
    <2>4. Retire(k) = [k EXCEPT !.val = v, !.ovf = o, !.late = l]
      BY DEF Retire
    <2> HIDE DEF v, o, l
    <2> QED BY <2>2, <2>3, <2>4 DEF Counter
  <1>5. PmcStop(k) \in Counter
    BY DEF PmcStop, Counter
  <1>6. \A m \in 1 .. CtrSize - 1 : PmcGet(k, m) \in 0 .. CtrSize - 1
    BY <1>1, <1>2 DEF PmcGet, Counter
  <1> QED BY <1>4, <1>5, <1>6

(* What proc_run leaves to the counter, if it is positive, is the rest less the
   margin: the subtraction of unsigned numbers that is assigned to an int32_t may
   give a negative number for a large rest but never a positive one for a small. *)
LEMMA PmaxExact ==
    ASSUME NEW r \in ProcRec, r.icnt < r.imax, Pmax(r) > 0
    PROVE  Pmax(r) \in Nat /\ Pmax(r) = r.imax - r.icnt - pmc_safety
  <1> DEFINE M == 2 * IntHalf
             n == r.imax - r.icnt - pmc_safety
  <1>1. IntHalf \in Nat \ {0} /\ M \in Nat \ {0} /\ pmc_safety \in 0 .. IntHalf
    BY IcountAssumption
  <1>2. r.icnt \in Nat /\ r.imax \in 0 .. M - 1
    <2>1. r.icnt \in Nat /\ r.imax \in Limits \cup {0}
      BY DEF ProcRec
    <2>2. Limits \subseteq 0 .. 2 * IntHalf - 1
      BY IcountAssumption
    <2>3. CASE r.imax \in Limits
      BY <2>1, <2>2, <2>3
    <2>4. CASE r.imax = 0
      BY <1>1, <2>1, <2>4
    <2> QED BY <2>1, <2>3, <2>4
  <1>3. n \in Int /\ n < M /\ n > -IntHalf
    BY <1>1, <1>2
  <1>4. CASE n >= 0
    <2>1. n % M = n
      BY <1>1, <1>3, <1>4, Remainders
    <2> QED BY <1>1, <1>3, <1>4, <2>1 DEF Pmax, AsInt
  <1>5. CASE n < 0
    <2>1. -n \in 1 .. M /\ n = -(-n)
      BY <1>1, <1>3, <1>5
    <2>2. n % M = M + n
      BY <1>1, <1>3, <1>5, <2>1, Remainders
    <2>3. Pmax(r) = n
      BY <1>1, <1>3, <1>5, <2>2 DEF Pmax, AsInt
    <2> QED BY <1>3, <1>5, <2>3
  <1> QED BY <1>3, <1>4, <1>5

-----------------------------------------------------------------------------
(* The steps *)

(* The limit a process has fits the counter. *)
LEMMA ImaxSmall == ASSUME NEW r \in ProcRec PROVE r.imax \in Nat /\ r.imax < CtrSize
  <1>1. r.imax \in Limits \cup {0}
    BY DEF ProcRec
  <1>2. CASE r.imax \in Limits
    <2>1. /\ IntHalf \in Nat /\ Limits \subseteq 0 .. 2 * IntHalf - 1
          /\ \A n \in Limits : n < CtrSize
      BY IcountAssumption
    <2>2. r.imax \in 0 .. 2 * IntHalf - 1
      BY <1>2, <2>1
    <2> QED BY <1>2, <2>1, <2>2
  <1>3. CASE r.imax = 0
    BY <1>3, IcountAssumption
  <1> QED BY <1>1, <1>2, <1>3

(* The counter of a running process was set to less than it can hold. *)
LEMMA CounterBound ==
    ASSUME NEW r \in ProcRec, NEW k \in Counter, NEW n \in Int, Counting(r, k, n), ~r.tf
    PROVE  /\ r.pmcmax \in 1 .. CtrSize - 1
           /\ PmcGet(k, r.pmcmax) \in Nat
           /\ n <= r.imax
  <1>1. /\ r.imax \in Nat /\ r.imax < CtrSize
        /\ r.icnt \in Nat /\ r.pmcmax \in Nat
    BY ImaxSmall DEF ProcRec
  <1>2. /\ CtrSize \in Nat /\ pmc_safety \in Nat /\ MaxLate \in 0 .. pmc_safety
        /\ k.late \in 0 .. MaxLate
    BY IcountAssumption DEF Counter
  <1>3. /\ r.pmcmax > 0
        /\ r.icnt + r.pmcmax + pmc_safety <= r.imax
        /\ n = r.icnt + PmcGet(k, r.pmcmax)
        /\ InMargin(k, r.pmcmax, PmcGet(k, r.pmcmax))
    BY DEF Counting
  <1>4. r.pmcmax \in 1 .. CtrSize - 1
    BY <1>1, <1>2, <1>3
  <1>5. PmcGet(k, r.pmcmax) \in Nat
    <2>1. PmcGet(k, r.pmcmax) \in 0 .. CtrSize - 1
      BY <1>4, CounterTypes, Zenon
    <2> QED BY <1>2, <2>1
  <1>6. PmcGet(k, r.pmcmax) <= r.pmcmax + k.late
    BY <1>1, <1>2, <1>3, <1>5 DEF InMargin
  <1> QED BY <1>1, <1>2, <1>3, <1>4, <1>5, <1>6

(* A running process has not passed its limit. *)
LEMMA CountingBound ==
    ASSUME NEW r \in ProcRec, NEW k \in Counter, NEW n \in Int, Counting(r, k, n)
    PROVE  n \in Nat /\ n <= r.imax
  <1>1. r.icnt \in Nat /\ r.imax \in Nat
    BY ImaxSmall DEF ProcRec
  <1>2. CASE r.tf
    BY <1>1, <1>2 DEF Counting
  <1>3. CASE ~r.tf
    <2>1. n <= r.imax /\ PmcGet(k, r.pmcmax) \in Nat
      BY <1>3, CounterBound
    <2> QED BY <1>1, <1>3, <2>1 DEF Counting
  <1> QED BY <1>2, <1>3

(* Even an interrupt that is MaxLate instructions late does not let a process
   past its limit (proc_run's use of pmc_safety). *)
LEMMA MarginBound ==
    ASSUME NEW r \in ProcRec, NEW k \in Counter, NEW n \in Int, Counting(r, k, n), ~r.tf,
           ~(k.ovf /\ k.late >= MaxLate)
    PROVE  n + 1 <= r.imax /\ PmcGet(k, r.pmcmax) + 1 < CtrSize
  <1>1. /\ r.imax \in Nat /\ r.imax < CtrSize
        /\ r.icnt \in Nat /\ r.pmcmax \in Nat /\ PmcGet(k, r.pmcmax) \in Nat
    BY ImaxSmall, CounterBound DEF ProcRec
  <1>2. /\ CtrSize \in Nat /\ pmc_safety \in Nat /\ MaxLate \in 0 .. pmc_safety
        /\ k.late \in 0 .. MaxLate
    BY IcountAssumption DEF Counter
  <1>3. /\ r.pmcmax > 0
        /\ r.icnt + r.pmcmax + pmc_safety <= r.imax
        /\ n = r.icnt + PmcGet(k, r.pmcmax)
        /\ InMargin(k, r.pmcmax, PmcGet(k, r.pmcmax))
    BY DEF Counting
  <1>4. PmcGet(k, r.pmcmax) + 1 <= r.pmcmax + MaxLate
    BY <1>1, <1>2, <1>3 DEF InMargin
  <1> QED BY <1>1, <1>2, <1>3, <1>4

Working == TypeOK /\ CountExact /\ OnCpu /\ OffCpu /\ Running /\ ~panicked

(* Process p is on CPU c, or c is about to run it. *)
Has(c, p) == cur[c] = p \/ (cur[c] = NoProc /\ proc[p].st = "READY")

(* A process that leaves its CPU saved, with an exact count, leaves the
   invariant intact. *)
LEMMA LeaveStep ==
    ASSUME Working, NEW c \in Cpus, NEW p \in Procs, Has(c, p),
           NEW r \in ProcRec, NEW k \in Counter, NEW st \in {"STOP", "WAIT"},
           NEW trapno \in {"ICNT", "other"}, NEW n \in Nat,
           Saved(r), r.imax = proc[p].imax,
           r.icnt = n - missed[p], r.icnt <= r.imax,
           trapno = "ICNT" => r.icnt = r.imax,
           Leave(c, p, r, k, st, trapno),
           done' = [done EXCEPT ![p] = n], UNCHANGED <<avail, nstart, missed>>
    PROVE  IInv'
  <1> DEFINE r1 == [r EXCEPT !.st = st, !.trapno = trapno]
             k1 == IF proc[p].pmcmax > 0 /\ ~proc[p].tf THEN PmcStop(k) ELSE k
  <1>1. /\ proc \in [Procs -> ProcRec] /\ cur \in [Cpus -> Procs \cup {NoProc}]
        /\ ctr \in [Cpus -> Counter] /\ done \in [Procs -> Nat] /\ missed \in [Procs -> Nat]
        /\ NoProc \notin Procs
    BY IcountAssumption DEF Working, TypeOK
  <1>2. /\ r1 \in ProcRec /\ r1.st = st /\ r1.trapno = trapno /\ Saved(r1)
        /\ r1.imax = r.imax /\ r1.icnt = r.icnt
    BY DEF ProcRec, Saved
  <1>3. k1 \in Counter
    BY CounterTypes
  <1>4. /\ proc' = [proc EXCEPT ![p] = r1] /\ cur' = [cur EXCEPT ![c] = NoProc]
        /\ ctr' = [ctr EXCEPT ![c] = k1] /\ panicked' = (r.icnt > r.imax)
    BY DEF Leave
  <1> HIDE DEF r1, k1
  <1>5. \A d \in Cpus : cur'[d] \in Procs =>
           d # c /\ cur'[d] = cur[d] /\ cur[d] # p /\ ctr'[d] = ctr[d]
           /\ proc'[cur[d]] = proc[cur[d]] /\ done'[cur[d]] = done[cur[d]]
    BY <1>1, <1>4 DEF Working, OnCpu, Has
  <1>6. TypeOK'
    BY <1>1, <1>2, <1>3, <1>4 DEF TypeOK, Working
  <1>7. CountExact'
    <2> SUFFICES ASSUME NEW q \in Procs
                 PROVE  /\ proc'[q].st # "RUN" => proc'[q].icnt = done'[q] - missed'[q]
                        /\ proc'[q].st = "STOP" /\ proc'[q].trapno = "ICNT" =>
                              proc'[q].icnt = proc'[q].imax
                        /\ done'[q] - missed'[q] <= proc'[q].imax
      BY DEF CountExact
    <2>1. CASE q = p
      BY <1>1, <1>2, <1>4, <2>1
    <2>2. CASE q # p
      BY <1>1, <1>4, <2>2 DEF CountExact, Working
    <2> QED BY <2>1, <2>2
  <1>8. OnCpu'
    BY <1>1, <1>5 DEF OnCpu, Working
  <1>9. OffCpu'
    BY <1>1, <1>2, <1>4 DEF OffCpu, Working
  <1>10. Running'
    BY <1>5 DEF Running, Working
  <1> QED BY <1>6, <1>7, <1>8, <1>9, <1>10 DEF IInv

(* A process that goes on, or is run, with its count in its registers and the
   counter leaves the invariant intact. *)
LEMMA GoOnStep ==
    ASSUME Working, NEW c \in Cpus, NEW p \in Procs, Has(c, p),
           NEW r \in ProcRec, NEW k \in Counter, NEW n \in Nat, NEW m \in Nat,
           r.st = "RUN", r.imax = proc[p].imax, Counting(r, k, n - m),
           proc' = [proc EXCEPT ![p] = r], ctr' = [ctr EXCEPT ![c] = k],
           cur' = [cur EXCEPT ![c] = p],
           done' = [done EXCEPT ![p] = n], missed' = [missed EXCEPT ![p] = m],
           UNCHANGED <<avail, nstart, panicked>>
    PROVE  IInv'
  <1>1. /\ proc \in [Procs -> ProcRec] /\ cur \in [Cpus -> Procs \cup {NoProc}]
        /\ ctr \in [Cpus -> Counter] /\ done \in [Procs -> Nat] /\ missed \in [Procs -> Nat]
        /\ NoProc \notin Procs
    BY IcountAssumption DEF Working, TypeOK
  <1>2. \A d \in Cpus : d # c /\ cur[d] \in Procs =>
           cur'[d] = cur[d] /\ cur[d] # p /\ ctr'[d] = ctr[d]
           /\ proc'[cur[d]] = proc[cur[d]]
           /\ done'[cur[d]] = done[cur[d]] /\ missed'[cur[d]] = missed[cur[d]]
    BY <1>1 DEF Working, OnCpu, Has
  <1>3. TypeOK'
    BY <1>1 DEF TypeOK, Working
  <1>4. CountExact'
    <2> SUFFICES ASSUME NEW q \in Procs
                 PROVE  /\ proc'[q].st # "RUN" => proc'[q].icnt = done'[q] - missed'[q]
                        /\ proc'[q].st = "STOP" /\ proc'[q].trapno = "ICNT" =>
                              proc'[q].icnt = proc'[q].imax
                        /\ done'[q] - missed'[q] <= proc'[q].imax
      BY DEF CountExact
    <2>1. CASE q = p
      <3>1. n - m <= r.imax
        BY CountingBound
      <3> QED BY <1>1, <2>1, <3>1
    <2>2. CASE q # p
      BY <1>1, <2>2 DEF CountExact, Working
    <2> QED BY <2>1, <2>2
  <1>5. OnCpu'
    BY <1>1, <1>2 DEF OnCpu, Working
  <1>6. OffCpu'
    BY <1>1 DEF OffCpu, Working
  <1>7. Running'
    <2> SUFFICES ASSUME NEW d \in Cpus, cur'[d] \in Procs
                 PROVE  Counting(proc'[cur'[d]], ctr'[d], done'[cur'[d]] - missed'[cur'[d]])
      BY DEF Running
    <2>1. CASE d = c
      <3>1. cur'[d] = p /\ proc'[p] = r /\ ctr'[d] = k /\ done'[p] = n /\ missed'[p] = m
        BY <1>1, <2>1
      <3> QED BY <3>1
    <2>2. CASE d # c
      BY <1>1, <1>2, <2>2 DEF Running, Working
    <2> QED BY <2>1, <2>2
  <1> QED BY <1>3, <1>4, <1>5, <1>6, <1>7 DEF IInv

(* An instruction that the counter sees (Retire) moves the exact count on. *)
LEMMA RetireCounting ==
    ASSUME NEW r \in ProcRec, NEW k \in Counter, NEW n \in Int, Counting(r, k, n),
           ~r.tf, ~(k.ovf /\ r.iff /\ k.late >= MaxLate)
    PROVE  /\ Counting(r, Retire(k), n + 1)
           /\ PmcGet(Retire(k), r.pmcmax) = PmcGet(k, r.pmcmax) + 1
           /\ n + 1 <= r.imax
  <1>1. /\ r.iff /\ r.pmcmax > 0 /\ k.en
        /\ r.icnt + r.pmcmax + pmc_safety <= r.imax
        /\ n = r.icnt + PmcGet(k, r.pmcmax)
        /\ InMargin(k, r.pmcmax, PmcGet(k, r.pmcmax))
    BY DEF Counting
  <1>2. ~(k.ovf /\ k.late >= MaxLate)
    BY <1>1
  <1>3. /\ r.pmcmax \in 1 .. CtrSize - 1 /\ PmcGet(k, r.pmcmax) \in Nat
        /\ n + 1 <= r.imax /\ PmcGet(k, r.pmcmax) + 1 < CtrSize
    BY <1>2, CounterBound, MarginBound
  <1>4. /\ Retire(k).en
        /\ PmcGet(Retire(k), r.pmcmax) = PmcGet(k, r.pmcmax) + 1
        /\ InMargin(Retire(k), r.pmcmax, PmcGet(k, r.pmcmax) + 1)
    BY <1>1, <1>2, <1>3, RetireCount
  <1>5. r.icnt \in Nat
    BY DEF ProcRec
  <1>6. n + 1 = r.icnt + PmcGet(Retire(k), r.pmcmax)
    BY <1>1, <1>3, <1>4, <1>5
  <1> QED BY <1>1, <1>3, <1>4, <1>6 DEF Counting

(* Counts may be changed without leaving the type of a process. *)
LEMMA RecordUpdates ==
    ASSUME NEW r \in ProcRec, NEW i \in Nat, NEW m \in Nat
    PROVE  [r EXCEPT !.icnt = i, !.pmcmax = m] \in ProcRec
  BY DEF ProcRec

(* proc_save moves the counter's part of the count to icnt, less the INT of an
   aborted call, and leaves the process saved. *)
LEMMA SaveResult ==
    ASSUME NEW r \in ProcRec, NEW k \in Counter, NEW entry \in {-1, 0, 1},
           NEW n \in Int, Counting(r, k, n),
           ~r.tf /\ entry = 0 => PmcGet(k, r.pmcmax) >= 1
    PROVE  /\ ProcSave(r, k, entry) \in ProcRec
           /\ Saved(ProcSave(r, k, entry))
           /\ ProcSave(r, k, entry).imax = r.imax
           /\ ProcSave(r, k, entry).icnt =
                 IF r.tf THEN (IF entry = 1 THEN n + 1 ELSE n)
                 ELSE IF entry = 0 THEN n - 1 ELSE n
  <1>1. r.icnt \in Nat /\ r.pmcmax \in Nat /\ r.tf \in BOOLEAN
    BY DEF ProcRec
  <1>2. CASE r.tf
    <2>1. n = r.icnt /\ r.pmcmax = 0
      BY <1>2 DEF Counting
    <2> DEFINE i == IF entry > 0 THEN r.icnt + 1 ELSE r.icnt
    <2>2. i \in Nat /\ i = IF entry = 1 THEN n + 1 ELSE n
      BY <1>1, <2>1
    <2>3. ProcSave(r, k, entry) = [r EXCEPT !.icnt = i, !.tf = FALSE, !.iff = TRUE]
      BY <1>2 DEF ProcSave
    <2> HIDE DEF i
    <2>4. ProcSave(r, k, entry) \in ProcRec
      BY <2>2, <2>3 DEF ProcRec
    <2>5. /\ ProcSave(r, k, entry).icnt = i /\ ProcSave(r, k, entry).imax = r.imax
          /\ Saved(ProcSave(r, k, entry))
      BY <2>1, <2>3 DEF Saved, ProcRec
    <2> QED BY <1>2, <2>2, <2>4, <2>5
  <1>3. CASE ~r.tf
    <2>1. r.iff /\ r.pmcmax > 0 /\ n = r.icnt + PmcGet(k, r.pmcmax)
      BY <1>3 DEF Counting
    <2>2. PmcGet(k, r.pmcmax) \in Nat
      BY <1>3, CounterBound
    <2> DEFINE i == r.icnt + PmcGet(k, r.pmcmax) - (IF entry = 0 THEN 1 ELSE 0)
    <2>3. i = IF entry = 0 THEN n - 1 ELSE n
      BY <1>1, <1>3, <2>1, <2>2
    <2>9. i \in Nat
      BY <1>1, <1>3, <2>1, <2>2
    <2>4. ProcSave(r, k, entry) = [r EXCEPT !.icnt = i, !.pmcmax = 0]
      BY <1>1, <1>3, <2>1 DEF ProcSave
    <2> HIDE DEF i
    <2>5. ProcSave(r, k, entry) \in ProcRec
      <3>1. [r EXCEPT !.icnt = i, !.pmcmax = 0] \in ProcRec
        BY <2>9, RecordUpdates
      <3> QED BY <2>4, <3>1
    <2>6. /\ ProcSave(r, k, entry).icnt = i /\ ProcSave(r, k, entry).imax = r.imax
          /\ Saved(ProcSave(r, k, entry))
      BY <1>3, <2>1, <2>4 DEF Saved, ProcRec
    <2> QED BY <1>3, <2>3, <2>5, <2>6
  <1> QED BY <1>1, <1>2, <1>3

(* What is known of the process p that CPU c executes. *)
LEMMA OnCpuFacts ==
    ASSUME Working, NEW c \in Cpus, NEW p \in Procs, cur[c] = p
    PROVE  /\ proc[p] \in ProcRec /\ ctr[c] \in Counter /\ proc[p].st = "RUN"
           /\ done[p] \in Nat /\ missed[p] \in Nat
           /\ Counting(proc[p], ctr[c], done[p] - missed[p])
           /\ done[p] - missed[p] \in Nat /\ done[p] - missed[p] <= proc[p].imax
           /\ Has(c, p)
  <1>1. /\ proc[p] \in ProcRec /\ ctr[c] \in Counter /\ done[p] \in Nat /\ missed[p] \in Nat
        /\ proc[p].st = "RUN" /\ Has(c, p)
    BY DEF Working, TypeOK, OnCpu, Has
  <1>2. Counting(proc[p], ctr[c], done[p] - missed[p])
    BY DEF Working, Running
  <1> QED BY <1>1, <1>2, CountingBound

(* SYS_RET and the traps that complete their instruction count it. *)
LEMMA RetStep ==
    ASSUME Working, NEW c \in Cpus, NEW p \in Procs, Ret(c, p)
    PROVE  IInv'
  <1> DEFINE k == Retire(ctr[c])
             n == done[p] - missed[p]
  <1>1. Executes(c, p) /\ cur[c] = p
    BY DEF Ret, Executes
  <1>2. /\ proc[p] \in ProcRec /\ ctr[c] \in Counter
        /\ done[p] \in Nat /\ missed[p] \in Nat /\ n \in Nat
        /\ Counting(proc[p], ctr[c], n) /\ Has(c, p)
    BY <1>1, OnCpuFacts
  <1>3. k \in Counter
    BY <1>2, CounterTypes
  <1>4. /\ ProcSave(proc[p], k, 1) \in ProcRec /\ Saved(ProcSave(proc[p], k, 1))
        /\ ProcSave(proc[p], k, 1).imax = proc[p].imax
        /\ ProcSave(proc[p], k, 1).icnt = n + 1
        /\ n + 1 <= proc[p].imax
    <2>1. CASE proc[p].tf
      <3>1. Counting(proc[p], k, n) /\ n + 1 <= proc[p].imax
        BY <1>2, <2>1, ImaxSmall DEF Counting, ProcRec
      <3> QED BY <1>2, <1>3, <2>1, <3>1, SaveResult
    <2>2. CASE ~proc[p].tf
      <3>1. Counting(proc[p], k, n + 1) /\ n + 1 <= proc[p].imax
        BY <1>1, <1>2, <2>2, RetireCounting DEF Executes
      <3> QED BY <1>2, <1>3, <2>2, <3>1, SaveResult
    <2> QED BY <2>1, <2>2
  <1>5. n + 1 = (done[p] + 1) - missed[p] /\ done[p] + 1 \in Nat
    BY <1>2
  <1>6. /\ Leave(c, p, ProcSave(proc[p], k, 1), k, "STOP", "other")
        /\ done' = [done EXCEPT ![p] = done[p] + 1] /\ UNCHANGED <<avail, nstart, missed>>
    BY DEF Ret
  <1> HIDE DEF k, n
  <1> QED BY <1>2, <1>3, <1>4, <1>5, <1>6, LeaveStep

(* A call that will be made again is not counted (proc_save with entry 0). *)
LEMMA AbortedCallStep ==
    ASSUME Working, NEW c \in Cpus, NEW p \in Procs, AbortedCall(c, p)
    PROVE  IInv'
  <1> DEFINE k == Retire(ctr[c])
             n == done[p] - missed[p]
  <1>1. Executes(c, p) /\ cur[c] = p
    BY DEF AbortedCall, Executes
  <1>2. /\ proc[p] \in ProcRec /\ ctr[c] \in Counter
        /\ done[p] \in Nat /\ missed[p] \in Nat /\ n \in Nat /\ n <= proc[p].imax
        /\ Counting(proc[p], ctr[c], n) /\ Has(c, p)
    BY <1>1, OnCpuFacts
  <1>3. k \in Counter
    BY <1>2, CounterTypes
  <1>4. /\ ProcSave(proc[p], k, 0) \in ProcRec /\ Saved(ProcSave(proc[p], k, 0))
        /\ ProcSave(proc[p], k, 0).imax = proc[p].imax
        /\ ProcSave(proc[p], k, 0).icnt = n
    <2>1. CASE proc[p].tf
      <3>1. Counting(proc[p], k, n)
        BY <1>2, <2>1 DEF Counting
      <3> QED BY <1>2, <1>3, <2>1, <3>1, SaveResult
    <2>2. CASE ~proc[p].tf
      <3>1. /\ Counting(proc[p], k, n + 1)
            /\ PmcGet(k, proc[p].pmcmax) = PmcGet(ctr[c], proc[p].pmcmax) + 1
        BY <1>1, <1>2, <2>2, RetireCounting DEF Executes
      <3>2. PmcGet(ctr[c], proc[p].pmcmax) \in Nat
        BY <1>2, <2>2, CounterBound
      <3>3. PmcGet(k, proc[p].pmcmax) >= 1
        BY <3>1, <3>2
      <3>4. ProcSave(proc[p], k, 0).icnt = n + 1 - 1
        BY <1>2, <1>3, <2>2, <3>1, <3>3, SaveResult
      <3> QED BY <1>2, <1>3, <2>2, <3>1, <3>3, <3>4, SaveResult
    <2> QED BY <2>1, <2>2
  <1>5. PICK st \in {"WAIT", "STOP"} : Leave(c, p, ProcSave(proc[p], k, 0), k, st, "other")
    BY DEF AbortedCall
  <1>6. done' = [done EXCEPT ![p] = done[p]] /\ UNCHANGED <<avail, nstart, missed>>
    BY DEF AbortedCall, Working, TypeOK
  <1>7. ProcSave(proc[p], k, 0).icnt = done[p] - missed[p]
    BY <1>4
  <1> HIDE DEF k
  <1> QED BY <1>2, <1>3, <1>4, <1>5, <1>6, <1>7, LeaveStep

(* A trap before an instruction leaves the count as it is. *)
LEMMA TrapStep ==
    ASSUME Working, NEW c \in Cpus, NEW p \in Procs, Trap(c, p)
    PROVE  IInv'
  <1>1. cur[c] = p
    BY DEF Trap, Executes
  <1>2. /\ proc[p] \in ProcRec /\ ctr[c] \in Counter
        /\ done[p] \in Nat /\ missed[p] \in Nat
        /\ done[p] - missed[p] \in Nat /\ done[p] - missed[p] <= proc[p].imax
        /\ Counting(proc[p], ctr[c], done[p] - missed[p]) /\ Has(c, p)
    BY <1>1, OnCpuFacts
  <1>3. /\ ProcSave(proc[p], ctr[c], -1) \in ProcRec /\ Saved(ProcSave(proc[p], ctr[c], -1))
        /\ ProcSave(proc[p], ctr[c], -1).imax = proc[p].imax
        /\ ProcSave(proc[p], ctr[c], -1).icnt = done[p] - missed[p]
    BY <1>2, SaveResult
  <1>4. /\ Leave(c, p, ProcSave(proc[p], ctr[c], -1), ctr[c], "STOP", "other")
        /\ done' = [done EXCEPT ![p] = done[p]] /\ UNCHANGED <<avail, nstart, missed>>
    BY DEF Trap, Working, TypeOK
  <1> QED BY <1>2, <1>3, <1>4, LeaveStep

(* A system call that returns at once is seen by the counter; single-stepping
   misses it. *)
LEMMA CallStep ==
    ASSUME Working, NEW c \in Cpus, NEW p \in Procs, Call(c, p)
    PROVE  IInv'
  <1> DEFINE k == Retire(ctr[c])
             m == IF proc[p].tf THEN missed[p] + 1 ELSE missed[p]
  <1>1. Executes(c, p) /\ cur[c] = p
    BY DEF Call, Executes
  <1>2. /\ proc[p] \in ProcRec /\ ctr[c] \in Counter /\ proc[p].st = "RUN"
        /\ done[p] \in Nat /\ missed[p] \in Nat /\ done[p] - missed[p] \in Nat
        /\ Counting(proc[p], ctr[c], done[p] - missed[p]) /\ Has(c, p)
    BY <1>1, OnCpuFacts
  <1>3. k \in Counter /\ m \in Nat /\ done[p] + 1 \in Nat
    BY <1>2, CounterTypes
  <1>4. Counting(proc[p], k, (done[p] + 1) - m)
    <2>1. CASE proc[p].tf
      <3>1. (done[p] + 1) - m = done[p] - missed[p]
        BY <1>2, <2>1
      <3> QED BY <1>2, <2>1, <3>1 DEF Counting
    <2>2. CASE ~proc[p].tf
      <3>1. (done[p] + 1) - m = (done[p] - missed[p]) + 1
        BY <1>2, <2>2
      <3>2. Counting(proc[p], k, (done[p] - missed[p]) + 1)
        BY <1>1, <1>2, <2>2, RetireCounting DEF Executes
      <3> QED BY <3>1, <3>2
    <2> QED BY <2>1, <2>2
  <1>5. /\ proc' = [proc EXCEPT ![p] = proc[p]] /\ cur' = [cur EXCEPT ![c] = p]
        /\ ctr' = [ctr EXCEPT ![c] = k] /\ done' = [done EXCEPT ![p] = done[p] + 1]
        /\ UNCHANGED <<avail, nstart, panicked>>
    BY <1>1 DEF Call, Working, TypeOK
  <1>6. missed' = [missed EXCEPT ![p] = m]
    BY DEF Call, Working, TypeOK
  <1> HIDE DEF k, m
  <1> QED BY <1>2, <1>3, <1>4, <1>5, <1>6, GoOnStep

(* An instruction counted by the counter, or single-stepped: T_DEBUG counts it
   and stops the process at its limit.  A step that should have been left to the
   counter fails an assertion. *)
LEMMA InstructionStep ==
    ASSUME Working, NEW c \in Cpus, NEW p \in Procs, Instruction(c, p)
    PROVE  IInv'
  <1> DEFINE r == proc[p]
             k == Retire(ctr[c])
             r1 == [r EXCEPT !.icnt = @ + 1]
  <1>1. Executes(c, p) /\ cur[c] = p /\ done' = [done EXCEPT ![p] = @ + 1]
        /\ UNCHANGED <<avail, nstart, missed>>
    BY DEF Instruction, Executes
  <1>2. /\ r \in ProcRec /\ ctr[c] \in Counter /\ r.st = "RUN"
        /\ done[p] \in Nat /\ missed[p] \in Nat /\ done[p] - missed[p] \in Nat
        /\ Counting(r, ctr[c], done[p] - missed[p]) /\ Has(c, p)
    BY <1>1, OnCpuFacts
  <1>3. k \in Counter /\ done[p] + 1 \in Nat
        /\ (done[p] + 1) - missed[p] = (done[p] - missed[p]) + 1
    BY <1>2, CounterTypes
  <1>4. done' = [done EXCEPT ![p] = done[p] + 1] /\ missed' = [missed EXCEPT ![p] = missed[p]]
    BY <1>1 DEF Working, TypeOK
  <1>5. CASE ~r.tf /\ ctr' = [ctr EXCEPT ![c] = k] /\ UNCHANGED <<proc, cur, panicked>>
    <2>1. Counting(r, k, (done[p] + 1) - missed[p])
      BY <1>1, <1>2, <1>3, <1>5, RetireCounting DEF Executes
    <2>2. proc' = [proc EXCEPT ![p] = r] /\ cur' = [cur EXCEPT ![c] = p]
      BY <1>1, <1>5 DEF Working, TypeOK
    <2>3. ctr' = [ctr EXCEPT ![c] = k] /\ UNCHANGED <<avail, nstart, panicked>>
      BY <1>1, <1>5
    <2> HIDE DEF k
    <2> QED BY <1>2, <1>3, <1>4, <2>1, <2>2, <2>3, GoOnStep
  <1>6. CASE r.tf /\ panicked' = TRUE /\ UNCHANGED <<proc, cur, ctr>>
    <2>1. r.icnt = done[p] - missed[p] /\ r.icnt < r.imax /\ r.icnt \in Nat /\ r.imax \in Nat
      BY <1>2, <1>6, ImaxSmall DEF Counting, ProcRec
    <2>2. TypeOK'
      BY <1>1, <1>3, <1>4, <1>6 DEF TypeOK, Working
    <2>3. CountExact'
      <3> SUFFICES ASSUME NEW q \in Procs
                   PROVE  /\ proc'[q].st # "RUN" => proc'[q].icnt = done'[q] - missed'[q]
                          /\ proc'[q].st = "STOP" /\ proc'[q].trapno = "ICNT" =>
                                proc'[q].icnt = proc'[q].imax
                          /\ done'[q] - missed'[q] <= proc'[q].imax
        BY DEF CountExact
      <3>1. CASE q = p
        BY <1>1, <1>2, <1>3, <1>6, <2>1, <3>1 DEF Working, TypeOK
      <3>2. CASE q # p
        BY <1>1, <1>6, <3>2 DEF CountExact, Working, TypeOK
      <3> QED BY <3>1, <3>2
    <2> QED BY <1>6, <2>2, <2>3 DEF IInv
  <1>7. ASSUME r.tf
        PROVE  /\ r.icnt = done[p] - missed[p] /\ r.icnt < r.imax /\ r.pmcmax = 0
               /\ r.icnt \in Nat /\ r.imax \in Nat
               /\ r1 \in ProcRec /\ r1.st = "RUN" /\ r1.tf /\ r1.pmcmax = 0
               /\ r1.imax = r.imax /\ r1.icnt = r.icnt + 1
    <2>1. /\ r.icnt = done[p] - missed[p] /\ r.icnt < r.imax /\ r.pmcmax = 0
          /\ r.icnt \in Nat /\ r.imax \in Nat
      BY <1>2, <1>7, ImaxSmall DEF Counting, ProcRec
    <2>2. r1 \in ProcRec
      BY <1>2, <2>1 DEF ProcRec
    <2>3. r1.st = "RUN" /\ r1.tf /\ r1.pmcmax = 0 /\ r1.imax = r.imax /\ r1.icnt = r.icnt + 1
      BY <1>2, <1>7, <2>1 DEF ProcRec
    <2> QED BY <2>1, <2>2, <2>3
  <1>8. CASE /\ r.tf /\ r1.icnt < r.imax
             /\ proc' = [proc EXCEPT ![p] = r1] /\ ctr' = [ctr EXCEPT ![c] = k]
             /\ UNCHANGED <<cur, panicked>>
    <2>1. Counting(r1, k, (done[p] + 1) - missed[p])
      BY <1>2, <1>3, <1>7, <1>8 DEF Counting
    <2>2. cur' = [cur EXCEPT ![c] = p]
      BY <1>1, <1>8 DEF Working, TypeOK
    <2>3. r1 \in ProcRec /\ r1.st = "RUN" /\ r1.imax = proc[p].imax
      BY <1>7, <1>8
    <2>4. /\ proc' = [proc EXCEPT ![p] = r1] /\ ctr' = [ctr EXCEPT ![c] = k]
          /\ UNCHANGED <<avail, nstart, panicked>>
      BY <1>1, <1>8
    <2> HIDE DEF r1, k
    <2> QED BY <1>2, <1>3, <1>4, <2>1, <2>2, <2>3, <2>4, GoOnStep
  <1>9. CASE /\ r.tf /\ r1.icnt >= r.imax
             /\ Leave(c, p, ProcSave(r1, k, -1), k, "STOP", "ICNT")
    <2> DEFINE s == ProcSave(r1, k, -1)
    <2>1. r1.icnt = r.imax /\ r1.icnt = (done[p] + 1) - missed[p]
      <3> HIDE DEF r1, r
      <3>1. /\ r.icnt = done[p] - missed[p] /\ r.icnt < r.imax
            /\ r.icnt \in Nat /\ r.imax \in Nat /\ r1.icnt = r.icnt + 1 /\ r1.icnt >= r.imax
        BY <1>7, <1>9
      <3> QED BY <1>3, <3>1
    <2>2. s = [r1 EXCEPT !.icnt = r1.icnt, !.tf = FALSE, !.iff = TRUE]
      BY <1>7, <1>9 DEF ProcSave
    <2> HIDE DEF r1, k
    <2>3. s \in ProcRec
      BY <1>7, <1>9, <2>2 DEF ProcRec
    <2>4. Saved(s) /\ s.icnt = r1.icnt /\ s.imax = r1.imax
      BY <1>7, <1>9, <2>2 DEF ProcRec, Saved
    <2>5. /\ s.imax = r.imax /\ s.icnt = (done[p] + 1) - missed[p]
          /\ s.icnt = s.imax /\ s.icnt <= s.imax
      BY <1>7, <1>9, <2>1, <2>4
    <2> HIDE DEF s
    <2>6. Leave(c, p, s, k, "STOP", "ICNT")
      BY <1>9 DEF s
    <2> QED BY <1>1, <1>2, <1>3, <1>4, <2>3, <2>4, <2>5, <2>6, LeaveStep
  <1>10. \/ ~r.tf /\ ctr' = [ctr EXCEPT ![c] = k] /\ UNCHANGED <<proc, cur, panicked>>
         \/ r.tf /\ panicked' = TRUE /\ UNCHANGED <<proc, cur, ctr>>
         \/ /\ r.tf /\ r1.icnt < r.imax
            /\ proc' = [proc EXCEPT ![p] = r1] /\ ctr' = [ctr EXCEPT ![c] = k]
            /\ UNCHANGED <<cur, panicked>>
         \/ /\ r.tf /\ r1.icnt >= r.imax
            /\ Leave(c, p, ProcSave(r1, k, -1), k, "STOP", "ICNT")
    BY DEF Instruction
  <1> QED BY <1>5, <1>6, <1>8, <1>9, <1>10

(* T_PERFCTR: the counter's part of the count goes to icnt, and the rest is
   single-stepped. *)
LEMMA PerfCtrStep ==
    ASSUME Working, NEW c \in Cpus, NEW p \in Procs, PerfCtr(c, p)
    PROVE  IInv'
  <1> DEFINE r == proc[p]
             g == PmcGet(ctr[c], r.pmcmax)
             r1 == [r EXCEPT !.icnt = @ + g, !.pmcmax = 0]
             k == [PmcStop(ctr[c]) EXCEPT !.ovf = FALSE, !.late = 0]
  <1>1. cur[c] = p /\ r.pmcmax > 0 /\ UNCHANGED <<avail, nstart, done, missed>>
        /\ ctr' = [ctr EXCEPT ![c] = k]
    BY DEF PerfCtr
  <1>2. /\ r \in ProcRec /\ ctr[c] \in Counter /\ r.st = "RUN"
        /\ done[p] \in Nat /\ missed[p] \in Nat
        /\ done[p] - missed[p] \in Nat /\ done[p] - missed[p] <= r.imax
        /\ Counting(r, ctr[c], done[p] - missed[p]) /\ Has(c, p)
    BY <1>1, OnCpuFacts
  <1>3. ~r.tf /\ r.iff /\ done[p] - missed[p] = r.icnt + g
    BY <1>1, <1>2 DEF Counting
  <1>4. g \in Nat /\ r.icnt \in Nat /\ r.imax \in Nat
    BY <1>2, <1>3, CounterBound, ImaxSmall DEF ProcRec
  <1>5. k \in Counter
    <2>1. PmcStop(ctr[c]) \in Counter /\ 0 \in 0 .. MaxLate
      BY <1>2, CounterTypes, IcountAssumption
    <2> QED BY <2>1 DEF Counter
  <1>6. done' = [done EXCEPT ![p] = done[p]] /\ missed' = [missed EXCEPT ![p] = missed[p]]
    BY <1>1 DEF Working, TypeOK
  <1> HIDE DEF g
  <1>7. r1 \in ProcRec
    <2>1. r.icnt + g \in Nat
      BY <1>4
    <2>2. [r EXCEPT !.icnt = r.icnt + g, !.pmcmax = 0] \in ProcRec
      BY <1>2, <2>1, RecordUpdates
    <2> QED BY <2>2
  <1>8. /\ r1.st = "RUN" /\ ~r1.tf /\ r1.iff /\ r1.imax = r.imax /\ r1.pmcmax = 0
        /\ r1.icnt = done[p] - missed[p]
    BY <1>2, <1>3 DEF ProcRec
  <1> HIDE DEF r1, k
  <1>9. CASE /\ r1.icnt < r.imax
             /\ proc' = [proc EXCEPT ![p] = [r1 EXCEPT !.tf = TRUE]]
             /\ UNCHANGED <<cur, panicked>>
    <2> DEFINE r2 == [r1 EXCEPT !.tf = TRUE]
    <2>1. r2 \in ProcRec
      BY <1>7 DEF ProcRec
    <2>2. /\ r2.st = "RUN" /\ r2.tf /\ r2.imax = r.imax /\ r2.pmcmax = 0
          /\ r2.icnt = done[p] - missed[p]
      BY <1>7, <1>8 DEF ProcRec
    <2>3. proc' = [proc EXCEPT ![p] = r2] /\ UNCHANGED <<avail, nstart, panicked>>
      BY <1>1, <1>9
    <2>4. cur' = [cur EXCEPT ![c] = p]
      BY <1>1, <1>9 DEF Working, TypeOK
    <2> HIDE DEF r2
    <2>5. Counting(r2, k, done[p] - missed[p])
      BY <1>8, <1>9, <2>2 DEF Counting
    <2>6. ctr' = [ctr EXCEPT ![c] = k] /\ r2.imax = proc[p].imax /\ r2.st = "RUN"
      BY <1>1, <2>2
    <2>7. Has(c, p) /\ done[p] \in Nat /\ missed[p] \in Nat
      BY <1>2
    <2> QED BY <1>5, <1>6, <2>1, <2>3, <2>4, <2>5, <2>6, <2>7, GoOnStep
  <1>10. CASE /\ r1.icnt >= r.imax
              /\ proc' = [proc EXCEPT ![p] = [r1 EXCEPT !.st = "STOP", !.trapno = "ICNT"]]
              /\ cur' = [cur EXCEPT ![c] = NoProc]
              /\ panicked' = (r1.icnt > r.imax)
    <2>1. r1.icnt = r1.imax /\ r1.icnt <= r1.imax
      <3>1. r1.icnt >= r1.imax /\ r1.icnt <= r1.imax /\ r1.icnt \in Nat /\ r1.imax \in Nat
        BY <1>2, <1>4, <1>8, <1>10
      <3> QED BY <3>1
    <2> DEFINE kk == IF proc[p].pmcmax > 0 /\ ~proc[p].tf THEN PmcStop(k) ELSE k
    <2>2. kk = k
      <3>1. PmcStop(k) = k
        <4>1. k.en = FALSE
          BY <1>2 DEF k, PmcStop, Counter
        <4> QED BY <1>5, <4>1 DEF PmcStop, Counter
      <3> QED BY <3>1
    <2>3. Leave(c, p, r1, k, "STOP", "ICNT")
      BY <1>1, <1>8, <1>10, <2>2 DEF Leave
    <2>4. Saved(r1)
      BY <1>8 DEF Saved
    <2>5. r1.imax = proc[p].imax
      BY <1>8
    <2>6. r1.icnt = done[p] - missed[p] /\ UNCHANGED <<avail, nstart, missed>>
      BY <1>1, <1>8
    <2>7. Has(c, p) /\ done[p] \in Nat /\ done' = [done EXCEPT ![p] = done[p]]
      BY <1>2, <1>6
    <2> QED BY <1>5, <1>7, <2>1, <2>3, <2>4, <2>5, <2>6, <2>7, LeaveStep
  <1>11. \/ /\ r1.icnt < r.imax
            /\ proc' = [proc EXCEPT ![p] = [r1 EXCEPT !.tf = TRUE]]
            /\ UNCHANGED <<cur, panicked>>
         \/ /\ r1.icnt >= r.imax
            /\ proc' = [proc EXCEPT ![p] = [r1 EXCEPT !.st = "STOP", !.trapno = "ICNT"]]
            /\ cur' = [cur EXCEPT ![c] = NoProc]
            /\ panicked' = (r1.icnt > r.imax)
    BY DEF PerfCtr, r1, g
  <1> QED BY <1>9, <1>10, <1>11

(* proc_run: a process at its limit stops, another is run with the counter set
   to the rest less the margin, or single-stepped. *)
LEMMA ProcRunStep ==
    ASSUME Working, NEW c \in Cpus, NEW p \in Procs, ProcRun(c, p)
    PROVE  IInv'
  <1> DEFINE r == proc[p]
             m == Pmax(r)
             n == done[p] - missed[p]
  <1>1. cur[c] = NoProc /\ r.st = "READY" /\ UNCHANGED <<avail, nstart, done, missed>>
    BY DEF ProcRun
  <1>2. /\ r \in ProcRec /\ ctr[c] \in Counter /\ done[p] \in Nat /\ missed[p] \in Nat
        /\ Has(c, p)
    BY <1>1 DEF Working, TypeOK, Has
  <1>3. r.icnt = n /\ n <= r.imax /\ Saved(r)
    BY <1>1 DEF Working, CountExact, OffCpu
  <1>4. r.icnt \in Nat /\ r.imax \in Nat /\ r.imax < CtrSize /\ CtrSize \in Nat
    BY <1>2, ImaxSmall, IcountAssumption DEF ProcRec
  <1>5. done' = [done EXCEPT ![p] = done[p]] /\ missed' = [missed EXCEPT ![p] = missed[p]]
    BY <1>1 DEF Working, TypeOK
  <1>6. CASE r.icnt >= r.imax /\ Leave(c, p, ProcSave(r, ctr[c], -1), ctr[c], "STOP", "ICNT")
    <2>1. ProcSave(r, ctr[c], -1) = r
      BY <1>3 DEF ProcSave, Saved
    <2>2. r.icnt = r.imax
      BY <1>3, <1>4, <1>6
    <2>3. Leave(c, p, r, ctr[c], "STOP", "ICNT")
      BY <1>6, <2>1
    <2> QED BY <1>1, <1>2, <1>3, <1>4, <1>5, <2>2, <2>3, LeaveStep
  <1>7. CASE /\ r.icnt < r.imax /\ m > 0
             /\ cur' = [cur EXCEPT ![c] = p]
             /\ proc' = [proc EXCEPT ![p].st = "RUN", ![p].pmcmax = m]
             /\ ctr' = [ctr EXCEPT ![c] = PmcSet(@, m)]
             /\ UNCHANGED panicked
    <2>1. m \in Nat /\ m = r.imax - r.icnt - pmc_safety
      BY <1>2, <1>7, PmaxExact
    <2>2. m \in 1 .. CtrSize - 1 /\ r.icnt + m + pmc_safety <= r.imax
      BY <1>4, <1>7, <2>1, IcountAssumption
    <2> DEFINE r1 == [r EXCEPT !.st = "RUN", !.pmcmax = m]
               k == PmcSet(ctr[c], m)
    <2>3. k \in Counter /\ k.en /\ PmcGet(k, m) = 0 /\ InMargin(k, m, 0)
      BY <1>2, <2>2, PmcSetCount
    <2>4. proc' = [proc EXCEPT ![p] = r1] /\ ctr' = [ctr EXCEPT ![c] = k]
          /\ UNCHANGED <<avail, nstart, panicked>>
      BY <1>1, <1>7 DEF Working, TypeOK
    <2> HIDE DEF m, k
    <2>5. r1 \in ProcRec
      BY <1>2, <2>1 DEF ProcRec
    <2>6. /\ r1.st = "RUN" /\ r1.pmcmax = m /\ r1.imax = r.imax /\ r1.icnt = r.icnt
          /\ ~r1.tf /\ r1.iff
      BY <1>2, <1>3 DEF ProcRec, Saved
    <2> HIDE DEF r1
    <2>7. Counting(r1, k, done[p] - missed[p])
      <3>1. done[p] - missed[p] = r1.icnt + PmcGet(k, r1.pmcmax)
        BY <1>2, <1>3, <1>4, <2>3, <2>6
      <3> QED BY <2>2, <2>3, <2>6, <3>1 DEF Counting
    <2> QED BY <1>2, <1>5, <1>7, <2>3, <2>4, <2>5, <2>6, <2>7, GoOnStep
  <1>8. CASE /\ r.icnt < r.imax
             /\ cur' = [cur EXCEPT ![c] = p]
             /\ proc' = [proc EXCEPT ![p].st = "RUN", ![p].tf = TRUE, ![p].iff = FALSE]
             /\ UNCHANGED <<ctr, panicked>>
    <2> DEFINE r1 == [r EXCEPT !.st = "RUN", !.tf = TRUE, !.iff = FALSE]
    <2>1. /\ proc' = [proc EXCEPT ![p] = r1] /\ ctr' = [ctr EXCEPT ![c] = ctr[c]]
          /\ UNCHANGED <<avail, nstart, panicked>>
      BY <1>1, <1>8 DEF Working, TypeOK
    <2>2. r1 \in ProcRec
      BY <1>2 DEF ProcRec
    <2>3. /\ r1.st = "RUN" /\ r1.tf /\ r1.pmcmax = 0 /\ r1.imax = r.imax /\ r1.icnt = r.icnt
      BY <1>2, <1>3 DEF ProcRec, Saved
    <2> HIDE DEF r1
    <2>4. Counting(r1, ctr[c], done[p] - missed[p])
      BY <1>3, <1>8, <2>3 DEF Counting
    <2> QED BY <1>2, <1>5, <1>8, <2>1, <2>2, <2>3, <2>4, GoOnStep
  <1>9. \/ r.icnt >= r.imax /\ Leave(c, p, ProcSave(r, ctr[c], -1), ctr[c], "STOP", "ICNT")
        \/ /\ r.icnt < r.imax /\ m > 0
           /\ cur' = [cur EXCEPT ![c] = p]
           /\ proc' = [proc EXCEPT ![p].st = "RUN", ![p].pmcmax = m]
           /\ ctr' = [ctr EXCEPT ![c] = PmcSet(@, m)]
           /\ UNCHANGED panicked
        \/ /\ r.icnt < r.imax
           /\ cur' = [cur EXCEPT ![c] = p]
           /\ proc' = [proc EXCEPT ![p].st = "RUN", ![p].tf = TRUE, ![p].iff = FALSE]
           /\ UNCHANGED <<ctr, panicked>>
    BY DEF ProcRun
  <1> QED BY <1>6, <1>7, <1>8, <1>9

(* A process that is off the CPUs is made ready, with its counts or new ones. *)
LEMMA ReadyStep ==
    ASSUME Working, NEW p \in Procs, proc[p].st \in {"STOP", "WAIT"},
           NEW r \in ProcRec, r.st = "READY", Saved(r),
           NEW n \in Nat, NEW m \in Nat, r.icnt = n - m, r.icnt <= r.imax,
           proc' = [proc EXCEPT ![p] = r], done' = [done EXCEPT ![p] = n],
           missed' = [missed EXCEPT ![p] = m], nstart' \in Nat,
           UNCHANGED <<avail, cur, ctr, panicked>>
    PROVE  IInv'
  <1>1. /\ proc \in [Procs -> ProcRec] /\ cur \in [Cpus -> Procs \cup {NoProc}]
        /\ ctr \in [Cpus -> Counter] /\ done \in [Procs -> Nat] /\ missed \in [Procs -> Nat]
    BY DEF Working, TypeOK
  <1>2. \A d \in Cpus : cur[d] \in Procs =>
           cur[d] # p /\ proc'[cur[d]] = proc[cur[d]]
           /\ done'[cur[d]] = done[cur[d]] /\ missed'[cur[d]] = missed[cur[d]]
    BY <1>1 DEF Working, OnCpu
  <1>3. TypeOK'
    BY <1>1 DEF TypeOK, Working
  <1>4. CountExact'
    <2> SUFFICES ASSUME NEW q \in Procs
                 PROVE  /\ proc'[q].st # "RUN" => proc'[q].icnt = done'[q] - missed'[q]
                        /\ proc'[q].st = "STOP" /\ proc'[q].trapno = "ICNT" =>
                              proc'[q].icnt = proc'[q].imax
                        /\ done'[q] - missed'[q] <= proc'[q].imax
      BY DEF CountExact
    <2>1. CASE q = p
      BY <1>1, <2>1
    <2>2. CASE q # p
      BY <1>1, <2>2 DEF CountExact, Working
    <2> QED BY <2>1, <2>2
  <1>5. OnCpu'
    BY <1>1, <1>2 DEF OnCpu, Working
  <1>6. OffCpu'
    BY <1>1 DEF OffCpu, Working
  <1>7. Running'
    BY <1>2 DEF Running, Working
  <1> QED BY <1>3, <1>4, <1>5, <1>6, <1>7 DEF IInv

(* PUT with SYS_START, which may set new limits, and the wakeup of a process that
   waits. *)
LEMMA PutWakeStep ==
    ASSUME Working, NEW p \in Procs, Put(p) \/ Wake(p)
    PROVE  IInv'
  <1>1. proc[p] \in ProcRec /\ done[p] \in Nat /\ missed[p] \in Nat /\ nstart \in Nat
    BY DEF Working, TypeOK
  <1>2. /\ proc[p].st \in {"STOP", "WAIT"} /\ nstart' \in Nat
        /\ UNCHANGED <<avail, cur, ctr, panicked>>
    BY <1>1 DEF Put, Wake
  <1>3. /\ Saved(proc[p]) /\ proc[p].icnt = done[p] - missed[p]
        /\ done[p] - missed[p] <= proc[p].imax
    BY <1>2 DEF Working, OffCpu, CountExact
  <1>4. ASSUME NEW n \in Limits,
               proc' = [proc EXCEPT ![p].st = "READY", ![p].icnt = 0, ![p].imax = n],
               done' = [done EXCEPT ![p] = 0], missed' = [missed EXCEPT ![p] = 0]
        PROVE  IInv'
    <2> DEFINE r == [proc[p] EXCEPT !.st = "READY", !.icnt = 0, !.imax = n]
    <2>1. proc' = [proc EXCEPT ![p] = r]
      BY <1>4 DEF Working, TypeOK
    <2>2. r \in ProcRec
      BY <1>1 DEF ProcRec
    <2>3. r.st = "READY" /\ r.icnt = 0 /\ r.imax = n /\ Saved(r)
      BY <1>1, <1>3 DEF ProcRec, Saved
    <2> HIDE DEF r
    <2>4. 0 <= r.imax
      BY <2>2, ImaxSmall
    <2> DEFINE z == 0
    <2>5. /\ z \in Nat /\ r.icnt = z - z /\ r.icnt <= r.imax
          /\ done' = [done EXCEPT ![p] = z] /\ missed' = [missed EXCEPT ![p] = z]
      BY <1>4, <2>3, <2>4
    <2> HIDE DEF z
    <2> QED BY <1>2, <2>1, <2>2, <2>3, <2>5, ReadyStep
  <1>5. ASSUME proc' = [proc EXCEPT ![p].st = "READY"], UNCHANGED <<done, missed>>
        PROVE  IInv'
    <2> DEFINE r == [proc[p] EXCEPT !.st = "READY"]
    <2>1. /\ proc' = [proc EXCEPT ![p] = r] /\ done' = [done EXCEPT ![p] = done[p]]
          /\ missed' = [missed EXCEPT ![p] = missed[p]]
      BY <1>5 DEF Working, TypeOK
    <2>2. r \in ProcRec
      BY <1>1 DEF ProcRec
    <2>3. /\ r.st = "READY" /\ r.icnt = proc[p].icnt /\ r.imax = proc[p].imax
          /\ Saved(r)
      BY <1>1, <1>3 DEF ProcRec, Saved
    <2> HIDE DEF r
    <2> QED BY <1>1, <1>2, <1>3, <2>1, <2>2, <2>3, ReadyStep
  <1>6. \/ \E n \in Limits :
              /\ proc' = [proc EXCEPT ![p].st = "READY", ![p].icnt = 0, ![p].imax = n]
              /\ done' = [done EXCEPT ![p] = 0] /\ missed' = [missed EXCEPT ![p] = 0]
        \/ proc' = [proc EXCEPT ![p].st = "READY"] /\ UNCHANGED <<done, missed>>
    BY DEF Put, Wake
  <1> QED BY <1>4, <1>5, <1>6

(* An interrupt of the counter that nobody waits for changes no count. *)
LEMMA SpuriousStep ==
    ASSUME Working, NEW c \in Cpus, SpuriousPerfCtr(c)
    PROVE  IInv'
  <1>1. /\ ctr' = [ctr EXCEPT ![c].ovf = FALSE, ![c].late = 0]
        /\ cur[c] \in Procs => proc[cur[c]].pmcmax = 0
        /\ UNCHANGED <<avail, proc, cur, nstart, done, missed, panicked>>
    BY DEF SpuriousPerfCtr
  <1>2. ctr \in [Cpus -> Counter] /\ cur \in [Cpus -> Procs \cup {NoProc}]
    BY DEF Working, TypeOK
  <1>3. ctr' \in [Cpus -> Counter]
    <2>1. 0 \in 0 .. MaxLate
      BY IcountAssumption
    <2>2. [ctr[c] EXCEPT !.ovf = FALSE, !.late = 0] \in Counter
      BY <1>2, <2>1 DEF Counter
    <2> QED BY <1>1, <1>2, <2>2
  <1>4. TypeOK' /\ CountExact' /\ OnCpu' /\ OffCpu'
    BY <1>1, <1>3 DEF Working, TypeOK, CountExact, OnCpu, OffCpu, Saved
  <1>5. Running'
    <2> SUFFICES ASSUME NEW d \in Cpus, cur[d] \in Procs
                 PROVE  Counting(proc[cur[d]], ctr'[d], done[cur[d]] - missed[cur[d]])
      BY <1>1 DEF Running
    <2>1. Counting(proc[cur[d]], ctr[d], done[cur[d]] - missed[cur[d]])
      BY DEF Working, Running
    <2>2. CASE d = c
      BY <1>1, <2>1, <2>2 DEF Counting
    <2>3. CASE d # c
      BY <1>1, <1>2, <2>1, <2>3
    <2> QED BY <2>2, <2>3
  <1> QED BY <1>4, <1>5 DEF IInv

-----------------------------------------------------------------------------
(* The theorem *)

(* The inductive invariant holds at the start and is kept by every step of the
   processes, the counter and the kernel. *)
THEOREM Invariance == Spec => []IInv
  <1>1. Init => IInv
    <2> SUFFICES ASSUME Init PROVE IInv
      OBVIOUS
    <2>1. NewProc \in ProcRec /\ Saved(NewProc)
          /\ NewProc.st = "STOP" /\ NewProc.trapno = "none" /\ NewProc.icnt = 0 /\ NewProc.imax = 0
      BY DEF NewProc, ProcRec, Saved
    <2>2. NoCount \in Counter
      BY IcountAssumption DEF NoCount, Counter
    <2>3. TypeOK
      BY <2>1, <2>2 DEF Init, TypeOK
    <2>4. CountExact
      BY <2>1 DEF Init, CountExact
    <2>5. OnCpu /\ OffCpu /\ Running
      BY <2>1, IcountAssumption DEF Init, OnCpu, OffCpu, Running
    <2> QED BY <2>3, <2>4, <2>5 DEF IInv
  <1>2. IInv /\ [Next]_vars => IInv'
    <2> SUFFICES ASSUME IInv, [Next]_vars PROVE IInv'
      OBVIOUS
    <2>1. CASE UNCHANGED vars
      BY <2>1 DEF vars, IInv, TypeOK, CountExact, OnCpu, OffCpu, Saved, Running
    <2>2. CASE Next
      <3>1. ~panicked
        <4>1. ASSUME NEW p \in Procs, Put(p) \/ Wake(p) PROVE ~panicked
          BY <4>1 DEF Put, Wake
        <4>2. ASSUME NEW c \in Cpus, NEW p \in Procs,
                     \/ Instruction(c, p) \/ Call(c, p) \/ AbortedCall(c, p) \/ Ret(c, p)
                     \/ Trap(c, p)
              PROVE  ~panicked
          BY <4>2 DEF Instruction, Call, AbortedCall, Ret, Trap, Executes
        <4>3. ASSUME NEW c \in Cpus, NEW p \in Procs,
                     ProcRun(c, p) \/ PerfCtr(c, p)
              PROVE  ~panicked
          BY <4>3 DEF ProcRun, PerfCtr
        <4>4. ASSUME NEW c \in Cpus, SpuriousPerfCtr(c) PROVE ~panicked
          BY <4>4 DEF SpuriousPerfCtr
        <4> QED BY <2>2, <4>1, <4>2, <4>3, <4>4 DEF Next
      <3>2. Working
        BY <3>1 DEF Working, IInv
      <3>3. ASSUME NEW p \in Procs, Put(p) \/ Wake(p) PROVE IInv'
        BY <3>2, <3>3, PutWakeStep
      <3>4. ASSUME NEW c \in Cpus, NEW p \in Procs, ProcRun(c, p) PROVE IInv'
        BY <3>2, <3>4, ProcRunStep
      <3>5. ASSUME NEW c \in Cpus, NEW p \in Procs, Instruction(c, p) PROVE IInv'
        BY <3>2, <3>5, InstructionStep
      <3>6. ASSUME NEW c \in Cpus, NEW p \in Procs, Call(c, p) PROVE IInv'
        BY <3>2, <3>6, CallStep
      <3>7. ASSUME NEW c \in Cpus, NEW p \in Procs, AbortedCall(c, p) PROVE IInv'
        BY <3>2, <3>7, AbortedCallStep
      <3>8. ASSUME NEW c \in Cpus, NEW p \in Procs, Ret(c, p) PROVE IInv'
        BY <3>2, <3>8, RetStep
      <3>9. ASSUME NEW c \in Cpus, NEW p \in Procs, Trap(c, p) PROVE IInv'
        BY <3>2, <3>9, TrapStep
      <3>10. ASSUME NEW c \in Cpus, NEW p \in Procs, PerfCtr(c, p) PROVE IInv'
        BY <3>2, <3>10, PerfCtrStep
      <3>11. ASSUME NEW c \in Cpus, SpuriousPerfCtr(c) PROVE IInv'
        BY <3>2, <3>11, SpuriousStep
      <3> QED BY <2>2, <3>3, <3>4, <3>5, <3>6, <3>7, <3>8, <3>9, <3>10, <3>11 DEF Next
    <2> QED BY <2>1, <2>2
  <1> QED BY <1>1, <1>2, PTL DEF Spec

(* Instruction counts are exact (proc_save, proc_run, T_DEBUG and T_PERFCTR):
   wherever the counter's interrupts fall, icnt of a process that does not run is
   the number of instructions it has executed, apart from calls made while it is
   single-stepped, and T_ICNT stops it exactly at imax. *)
THEOREM CountsExactly == Spec => []CountExact
  <1>1. IInv => CountExact
    BY DEF IInv
  <1> QED BY <1>1, Invariance, PTL
=============================================================================
