---------------------------- MODULE DeviceProofs ----------------------------
(***************************************************************************)
(* What reads and writes the hardware, for any devices, ranges and         *)
(* timings. GpuMonitor: no wake-up is lost. CpuMeters: no reading is out   *)
(* of range. Command: its output is whole up to the cap. NvidiaSource:     *)
(* nvidia-smi is not asked too often. Tuning: limits, offsets and          *)
(* frequencies are written within their ranges, all of them or as before.  *)
(***************************************************************************)
EXTENDS GpuMonitor, CpuMeters, Command, NvidiaSource, Tuning, WellFoundedInduction,
        TLAPS

(* The less of two numbers.                                                *)
LEMMA MinOfTwo ==
  ASSUME NEW a \in Int, NEW b \in Int
  PROVE  Min({a, b}) = IF a <= b THEN a ELSE b
<1>1. a <= b \/ b <= a
  OBVIOUS
<1> DEFINE m == IF a <= b THEN a ELSE b
<1>2. m \in {a, b} /\ \A y \in {a, b} : m <= y
  OBVIOUS
<1>3. \A x \in {a, b} : (\A y \in {a, b} : x <= y) => x = m
  OBVIOUS
<1> QED
  BY <1>2, <1>3 DEF Min

(* A set of numbers has its least element, which Min chooses.              *)
LEMMA MinOfNumbers ==
  ASSUME NEW S \in SUBSET Nat, S # {}
  PROVE  Min(S) \in S /\ \A y \in S : Min(S) <= y
<1>1. \E x \in S : \A y \in S : ~(<<y, x>> \in OpToRel(<, Nat))
  BY WFMin, NatLessThanWellFounded
<1>2. \A x \in S, y \in S : ~(<<y, x>> \in OpToRel(<, Nat)) => x <= y
  BY DEF OpToRel
<1>3. \E x \in S : \A y \in S : x <= y
  BY <1>1, <1>2
<1> QED
  BY <1>3 DEF Min

-----------------------------------------------------------------------------
(* GpuMonitor.                                                             *)

(* From the look that found nothing wanted to the wait, something is       *)
(* wanted only when the revision has moved.                                *)
WantedMoves ==
  worker \in {"releasing", "deciding"} => moved \/ Wanted = {}

(* After the release nothing is held until the worker looks again.         *)
Released == worker \in {"deciding", "parked"} => ~session /\ ~sample.taken

Parked == worker = "parked" => ~stopped /\ Wanted = {}

IInv == TypeOK /\ WantedMoves /\ Released /\ Parked

-----------------------------------------------------------------------------
LEMMA InitIInv == Init => IInv
<1> SUFFICES ASSUME Init PROVE IInv
  OBVIOUS
<1>1. NoSample \in Samples
  BY MonitorAssumption DEF NoSample, Samples
<1>2. /\ polling \in BOOLEAN /\ moved \in BOOLEAN /\ stopped \in BOOLEAN
      /\ session \in BOOLEAN
  BY DEF Init
<1>3. TypeOK
  BY <1>1, <1>2, MonitorAssumption DEF Init, TypeOK, Policies
<1> QED
  BY <1>3 DEF Init, IInv, WantedMoves, Released, Parked

(* A call of policy keeps the types, and a policy that changes what is     *)
(* wanted wakes the worker or moves the revision.                          *)
LEMMA PolicyKeeps ==
  ASSUME IInv, NEW p \in Policies, Policy(p)
  PROVE  /\ policy' \in Policies /\ moved' \in BOOLEAN
         /\ worker' \in {"looking", "releasing", "deciding", "querying",
                         "resting", "parked", "waiting", "ended"}
         /\ UNCHANGED <<display, left, stopped, asked, session, sample>>
         /\ WantedMoves' /\ Released' /\ Parked'
<1> USE DEF IInv, Policy, Notify, demand, gpu
<1>1. /\ policy' \in Policies /\ moved' \in BOOLEAN
      /\ worker' \in {"looking", "releasing", "deciding", "querying",
                      "resting", "parked", "waiting", "ended"}
  <2>1. moved' = TRUE \/ moved' = moved
    OBVIOUS
  <2>2. moved' \in BOOLEAN
    BY <2>1 DEF TypeOK
  <2> QED
    BY <2>2 DEF TypeOK
<1>2. UNCHANGED <<display, left, stopped, asked, session, sample>>
  OBVIOUS
<1>0. WantedMoves /\ Released /\ Parked
  OBVIOUS
<1>3. CASE p = policy
  <2>1. UNCHANGED <<policy, moved, worker>>
    BY <1>3
  <2>2. Wanted' = Wanted
    BY <1>2, <2>1 DEF Wanted
  <2>3. WantedMoves'
    BY <1>0, <2>1, <2>2 DEF WantedMoves
  <2>4. Released'
    BY <1>0, <1>2, <2>1 DEF Released
  <2>5. Parked'
    BY <1>0, <1>2, <2>1, <2>2 DEF Parked
  <2> QED
    BY <1>1, <1>2, <2>3, <2>4, <2>5
<1>4. CASE p # policy
  <2>1. moved'
    BY <1>4
  <2>2. worker' # "parked" /\ (worker' = "deciding" => worker = "deciding")
    BY <1>4
  <2>3. WantedMoves'
    BY <2>1 DEF WantedMoves
  <2>4. Released'
    BY <1>0, <1>2, <2>2 DEF Released
  <2>5. Parked'
    BY <2>2 DEF Parked
  <2> QED
    BY <1>1, <1>2, <2>3, <2>4, <2>5
<1> QED
  BY <1>1, <1>2, <1>3, <1>4

LEMMA NextIInv == IInv /\ [Next]_vars => IInv'
<1> SUFFICES ASSUME IInv, [Next]_vars
             PROVE  IInv'
  OBVIOUS
<1> USE MonitorAssumption DEF fanLoop, demand, gpu
<1>0. TypeOK /\ WantedMoves /\ Released /\ Parked
  BY DEF IInv
<1>1. ASSUME NEW p \in Policies, RuntimeSyncs(p)
      PROVE  IInv'
  <2>1. Policy(p) /\ runtime' = p /\ UNCHANGED <<copy, polling>>
    BY <1>1 DEF RuntimeSyncs
  <2> QED
    BY <1>0, <2>1, PolicyKeeps DEF IInv, TypeOK
<1>2. CASE PollReads
  BY <1>0, <1>2 DEF PollReads, IInv, TypeOK, WantedMoves, Released, Parked, Wanted
<1>3. CASE PollPasses
  <2>1. /\ Policy(copy) /\ copy \in Policies /\ polling' = FALSE
        /\ UNCHANGED <<runtime, copy>>
    BY <1>0, <1>3 DEF PollPasses, TypeOK
  <2>2. polling' \in BOOLEAN
    BY <2>1
  <2> QED
    BY <1>0, <2>1, <2>2, PolicyKeeps DEF IInv, TypeOK
<1>4. ASSUME NEW fields \in SUBSET Fields, Display(fields)
      PROVE  IInv'
  <2>1. moved' = TRUE \/ moved' = moved
    BY <1>4 DEF Display, Notify
  <2>2. moved' \in BOOLEAN
    BY <1>0, <2>1 DEF TypeOK
  <2>3. TypeOK'
    BY <1>0, <1>4, <2>2 DEF Display, Expiry, Notify, TypeOK
  <2>4. CASE fields # display \/ (fields # {} /\ left = 0)
    BY <1>0, <1>4, <2>3, <2>4
    DEF Display, Notify, IInv, WantedMoves, Released, Parked
  <2>5. CASE ~(fields # display \/ (fields # {} /\ left = 0))
    <3>1. Wanted' = Wanted
      BY <1>0, <1>4, <2>5 DEF Display, Expiry, Wanted, TypeOK
    <3> QED
      BY <1>0, <1>4, <2>3, <2>5, <3>1
      DEF Display, IInv, WantedMoves, Released, Parked
  <2> QED
    BY <2>4, <2>5
<1>5. CASE Stop
  <2>1. stopped' = TRUE
    BY <1>5 DEF Stop
  <2>2. stopped' \in BOOLEAN
    BY <2>1
  <2> QED
    BY <1>0, <1>5, <2>2
    DEF Stop, IInv, TypeOK, WantedMoves, Released, Parked, Wanted
<1>6. CASE Looks
  <2>1. CASE stopped
    BY <1>0, <1>6, <2>1
    DEF Looks, IInv, TypeOK, WantedMoves, Released, Parked
  <2>2. CASE ~stopped
    <3>1. Wanted' = Wanted /\ Wanted \in SUBSET Fields
      BY <1>0, <1>6, <2>2 DEF Looks, Wanted, TypeOK
    <3>2. moved' = FALSE \/ moved' = moved
      BY <1>6, <2>2 DEF Looks
    <3>3. moved' \in BOOLEAN
      BY <1>0, <3>2 DEF TypeOK
    <3>4. TypeOK'
      BY <1>0, <1>6, <2>2, <3>1, <3>3 DEF Looks, TypeOK
    <3> QED
      BY <1>6, <2>2, <3>1, <3>4
      DEF Looks, IInv, WantedMoves, Released, Parked
  <2> QED
    BY <2>1, <2>2
<1>7. CASE Releases
  <2>1. session' = FALSE /\ sample' = NoSample
    BY <1>7 DEF Releases
  <2>4. session' \in BOOLEAN
    BY <2>1
  <2>2. session' \in BOOLEAN /\ sample' \in Samples
    BY <2>1, <2>4 DEF NoSample, Samples
  <2>3. ~sample'.taken
    BY <2>1 DEF NoSample
  <2> QED
    BY <1>0, <1>7, <2>1, <2>2, <2>3
    DEF Releases, IInv, TypeOK, WantedMoves, Released, Parked, Wanted
<1>8. CASE Decides
  BY <1>0, <1>8
  DEF Decides, Parks, IInv, TypeOK, WantedMoves, Released, Parked, Wanted
<1>9. CASE Queries
  <2>1. sample' \in Samples
    BY <1>0, <1>9 DEF Queries, Samples, TypeOK
  <2> QED
    BY <1>0, <1>9, <2>1
    DEF Queries, IInv, TypeOK, WantedMoves, Released, Parked
<1>10. CASE Rests
  BY <1>0, <1>10 DEF Rests, IInv, TypeOK, WantedMoves, Released, Parked
<1>11. CASE WaitEnds
  BY <1>0, <1>11 DEF WaitEnds, IInv, TypeOK, WantedMoves, Released, Parked
<1>12. CASE WakesSpuriously
  BY <1>0, <1>12 DEF WakesSpuriously, IInv, TypeOK, WantedMoves, Released, Parked
<1>13. CASE Tick
  <2>1. sample' \in Samples /\ sample'.taken = sample.taken
    BY <1>0, <1>13 DEF Tick, TypeOK, Samples
  <2>2. left' \in 0..Lifetime /\ (left = 0 => left' = 0)
    BY <1>0, <1>13 DEF Tick, TypeOK
  <2>3. Wanted = {} => Wanted' = {}
    BY <1>13, <2>2 DEF Tick, Wanted
  <2> QED
    BY <1>0, <1>13, <2>1, <2>2, <2>3
    DEF Tick, IInv, TypeOK, WantedMoves, Released, Parked
<1>14. CASE UNCHANGED vars
  BY <1>0, <1>14 DEF vars, IInv, TypeOK, WantedMoves, Released, Parked, Wanted
<1> QED
  BY <1>1, <1>2, <1>3, <1>4, <1>5, <1>6, <1>7, <1>8, <1>9, <1>10, <1>11,
     <1>12, <1>13, <1>14 DEF Next, FanLoop, Worker

-----------------------------------------------------------------------------
(* IInv holds of every behaviour of the monitor.                           *)
THEOREM MonitorInvariant == Spec => []IInv
BY InitIInv, NextIInv, PTL DEF Spec

(* The demand, the worker and the sample hold values of their types.       *)
THEOREM MonitorTypes == Spec => []TypeOK
<1>1. IInv => TypeOK
  BY DEF IInv
<1> QED
  BY MonitorInvariant, <1>1, PTL

(* The worker never waits without a timeout while something is wanted of   *)
(* it, and holds no session while it waits.                                *)
THEOREM NoLostWakeup == Spec => []ParkedIdle
<1>1. IInv => ParkedIdle
  BY DEF IInv, Parked, Released, ParkedIdle
<1> QED
  BY MonitorInvariant, <1>1, PTL

-----------------------------------------------------------------------------
(* CpuMeters.                                                              *)

(* A counter wraps once at most when it moves by its range at most.        *)
LEMMA WrapsOnce ==
  ASSUME NEW n \in Nat \ {0}, NEW c \in 0..n - 1, NEW a \in 1..n
  PROVE  (c + a) % n = IF c + a < n THEN c + a ELSE c + a - n
  OBVIOUS

-----------------------------------------------------------------------------
(* What the energy counters and the sample hold.                           *)
RaplTypes ==
  /\ present \in SUBSET Packages
  /\ counter \in [Packages -> 0..EnergyRange - 1]
  /\ used \in [Packages -> 0..EnergyRange]
  /\ passed \in Nat
  /\ previous.energy \in 0..EnergyRange - 1
  /\ previous.package \in Packages \cup {None} /\ previous.range \in {None, EnergyRange}

(* The counter has gone on from the sample before by what was used since,  *)
(* round its range once or not, while less than the range was used.        *)
Counts ==
  \A p \in Packages : previous.package = p /\ used[p] < EnergyRange =>
    \/ counter[p] = previous.energy + used[p]
    \/ counter[p] = previous.energy + used[p] - EnergyRange

(* The times only have idle and busy counted up; iowait may go back.       *)
TickTypes == ticks \in [idle : Nat, iowait : Int, busy : Nat]

(* The inductive invariant of both meters.                                 *)
MetersInv == RaplTypes /\ Counts /\ PowerTrue /\ TickTypes /\ UsageTrue

(* No sample is taken yet.                                                 *)
LEMMA MetersStart == MetersInit => MetersInv
<1> SUFFICES ASSUME MetersInit PROVE MetersInv
  OBVIOUS
<1>1. RaplTypes
  BY MetersAssumption DEF MetersInit, RaplTypes
<1>2. Counts
  BY MetersAssumption DEF MetersInit, Counts, None
<1>3. PowerTrue
  BY DEF MetersInit, PowerTrue, Unavailable
<1>4. TickTypes /\ UsageTrue
  BY DEF MetersInit, TickTypes, UsageTrue
<1> QED
  BY <1>1, <1>2, <1>3, <1>4 DEF MetersInv

(* A reading: the counter's advance since the sample is what was used.     *)
LEMMA ReadKeeps ==
  ASSUME RaplTypes, Counts, present # {}, NEW range \in {None, EnergyRange}, ReadPower(range)
  PROVE  RaplTypes' /\ Counts' /\ PowerTrue'
<1> DEFINE p == Package
<1>1. p \in Packages
  BY MinOfNumbers, MetersAssumption DEF RaplTypes, Package
<1> HIDE DEF p
<1>2. /\ power' = [sample |-> PowerSample(p, counter[p], range), used |-> used[p], time |-> passed]
      /\ previous' = [package |-> p, energy |-> counter[p], range |-> range]
      /\ used' = [q \in Packages |-> 0] /\ passed' = 0 /\ UNCHANGED <<present, counter>>
  BY DEF ReadPower, p
<1>3. EnergyRange \in Nat \ {0} /\ Packages \subseteq Nat /\ None = -1
  BY MetersAssumption DEF None
<1>4. RaplTypes'
  BY <1>1, <1>2, <1>3 DEF RaplTypes
<1>5. Counts'
  BY <1>1, <1>2, <1>3 DEF RaplTypes, Counts
<1>6. PowerTrue'
  <2> DEFINE delta == Delta(counter[p], range)
  <2>1. /\ counter[p] \in 0..EnergyRange - 1 /\ used[p] \in 0..EnergyRange /\ passed \in Nat
        /\ previous.energy \in 0..EnergyRange - 1 /\ previous.range \in {None, EnergyRange}
    BY <1>1 DEF RaplTypes
  <2>2. CASE /\ Comparable(p) /\ passed # 0 /\ ~(delta < 0)
    <3>1. power' = [sample |-> [kind |-> "watts", energy |-> delta, time |-> passed],
                    used |-> used[p], time |-> passed]
      BY <1>2, <2>2 DEF PowerSample
    <3>2. Wrap(range, previous.range) \in {None, EnergyRange}
      BY <2>1 DEF Wrap
    <3>3. delta \in Int
      BY <1>3, <2>1, <3>2 DEF Delta
    <3>4. used[p] < EnergyRange => delta = used[p]
      <4> SUFFICES ASSUME used[p] < EnergyRange PROVE delta = used[p]
        OBVIOUS
      <4>1. \/ counter[p] = previous.energy + used[p]
            \/ counter[p] = previous.energy + used[p] - EnergyRange
        BY <1>1, <2>2 DEF Counts, Comparable
      <4> QED
        BY <1>3, <2>1, <2>2, <3>2, <4>1 DEF Delta
    <3> HIDE DEF delta
    <3> QED
      BY <2>1, <2>2, <3>1, <3>3, <3>4 DEF PowerTrue
  <2>3. CASE ~(Comparable(p) /\ passed # 0 /\ ~(delta < 0))
    <3>1. PowerSample(p, counter[p], range) \in {Sampling, Unavailable}
      BY <2>3 DEF PowerSample
    <3>2. power'.sample.kind \in {"sampling", "unavailable"}
      BY <1>2, <3>1 DEF Sampling, Unavailable
    <3> QED
      BY <3>2 DEF PowerTrue
  <2> QED
    BY <2>2, <2>3
<1> QED
  BY <1>4, <1>5, <1>6

(* A package uses energy, and its counter may wrap.                        *)
LEMMA UsesKeeps ==
  ASSUME RaplTypes, Counts, PowerTrue, NEW p \in Packages, NEW amount \in 1..EnergyRange,
         Uses(p, amount)
  PROVE  RaplTypes' /\ Counts' /\ PowerTrue'
<1>0. EnergyRange \in Nat \ {0}
  BY MetersAssumption
<1>1. counter[p] \in 0..EnergyRange - 1 /\ used[p] \in 0..EnergyRange
  BY DEF RaplTypes
<1>2. /\ used' = [used EXCEPT ![p] = IF used[p] + amount <= EnergyRange THEN used[p] + amount
                                                                      ELSE EnergyRange]
      /\ counter' = [counter EXCEPT ![p] = IF counter[p] + amount < EnergyRange
                                           THEN counter[p] + amount
                                           ELSE counter[p] + amount - EnergyRange]
      /\ UNCHANGED <<present, passed, previous, power>>
  <2>1. Min({used[p] + amount, EnergyRange}) =
          IF used[p] + amount <= EnergyRange THEN used[p] + amount ELSE EnergyRange
    BY <1>0, <1>1, MinOfTwo
  <2>2. (counter[p] + amount) % EnergyRange =
          IF counter[p] + amount < EnergyRange THEN counter[p] + amount
          ELSE counter[p] + amount - EnergyRange
    BY <1>0, <1>1, WrapsOnce
  <2>3. /\ used' = [used EXCEPT ![p] = Min({used[p] + amount, EnergyRange})]
        /\ counter' = [counter EXCEPT ![p] = (counter[p] + amount) % EnergyRange]
        /\ UNCHANGED <<present, passed, previous, power>>
    BY DEF Uses
  <2> QED
    BY <2>1, <2>2, <2>3
<1>3. RaplTypes'
  BY <1>0, <1>1, <1>2 DEF RaplTypes
<1>4. Counts'
  <2> SUFFICES ASSUME NEW q \in Packages, previous'.package = q, used'[q] < EnergyRange
               PROVE  \/ counter'[q] = previous'.energy + used'[q]
                      \/ counter'[q] = previous'.energy + used'[q] - EnergyRange
    BY DEF Counts
  <2>1. CASE q # p
    BY <1>2, <2>1 DEF RaplTypes, Counts
  <2>2. CASE q = p
    <3>1. /\ used[p] + amount <= EnergyRange => used'[p] = used[p] + amount
          /\ used[p] + amount > EnergyRange => used'[p] = EnergyRange
      BY <1>0, <1>1, <1>2 DEF RaplTypes
    <3>2. used'[p] = used[p] + amount /\ used[p] < EnergyRange
      BY <1>0, <1>1, <2>2, <3>1
    <3>3. \/ counter[p] = previous.energy + used[p]
          \/ counter[p] = previous.energy + used[p] - EnergyRange
      BY <1>2, <2>2, <3>2 DEF Counts
    <3>4. counter'[p] = IF counter[p] + amount < EnergyRange THEN counter[p] + amount
                        ELSE counter[p] + amount - EnergyRange
      BY <1>2 DEF RaplTypes
    <3>5. previous.energy \in 0..EnergyRange - 1 /\ previous' = previous
      BY <1>2 DEF RaplTypes
    <3> QED
      BY <1>0, <1>1, <2>2, <3>2, <3>3, <3>4, <3>5
  <2> QED
    BY <2>1, <2>2
<1> QED
  BY <1>2, <1>3, <1>4 DEF PowerTrue

(* The usage is between none and all of the time.                          *)
LEMMA UsageKeeps ==
  ASSUME TickTypes, UsageTrue, [StatNext]_metersVars
  PROVE  TickTypes' /\ UsageTrue'
<1>0. ticks.idle \in Nat /\ ticks.iowait \in Int /\ ticks.busy \in Nat
  BY DEF TickTypes
<1>1. CASE ReadUsage
  <2>1. TickTypes'
    BY <1>1 DEF ReadUsage, TickTypes
  <2>2. /\ usage'.busy = TotalDelta - IdleDelta /\ usage'.total = TotalDelta
        /\ usage'.true = ticks
    BY <1>1 DEF ReadUsage
  <2>3. UsageTrue'
    BY <1>0, <2>2 DEF UsageTrue, TotalDelta, IdleDelta, IdleTicks, Saturating
  <2> QED
    BY <2>1, <2>3
<1>2. CASE ReadUsageFails
  <2>1. ~usage'.known \/ usage' = usage
    BY <1>2 DEF ReadUsageFails
  <2> QED
    BY <1>2, <2>1 DEF ReadUsageFails, TickTypes, UsageTrue
<1>3. ASSUME NEW idle \in 0..1, NEW busy \in 0..1, NEW iowait \in -1..1, Ticks(idle, iowait, busy)
      PROVE  TickTypes' /\ UsageTrue'
  BY <1>0, <1>3 DEF Ticks, TickTypes, UsageTrue
<1>4. CASE UNCHANGED metersVars
  BY <1>4 DEF metersVars, stat, TickTypes, UsageTrue
<1> QED
  BY <1>1, <1>2, <1>3, <1>4 DEF StatNext

(* Every step of either meter.                                             *)
LEMMA MetersKeep == MetersInv /\ [RaplNext \/ StatNext]_metersVars => MetersInv'
<1> SUFFICES ASSUME MetersInv, [RaplNext \/ StatNext]_metersVars PROVE MetersInv'
  OBVIOUS
<1>0. RaplTypes /\ Counts /\ PowerTrue /\ TickTypes /\ UsageTrue
  BY DEF MetersInv
<1>1. CASE RaplNext
  <2>1. UNCHANGED stat
    BY <1>1 DEF RaplNext, ReadPower, ReadPowerFails, Uses, Appears, Passes
  <2>2. TickTypes' /\ UsageTrue'
    BY <1>0, <2>1 DEF stat, TickTypes, UsageTrue
  <2>3. ASSUME present # {}, NEW range \in {None, EnergyRange}, ReadPower(range)
        PROVE  RaplTypes' /\ Counts' /\ PowerTrue'
    BY <1>0, <2>3, ReadKeeps
  <2>4. CASE ReadPowerFails
    <3>1. /\ UNCHANGED <<present, counter, used, passed, previous>>
          /\ power'.sample.kind = "unavailable"
      BY <2>4 DEF ReadPowerFails, Unavailable
    <3>2. RaplTypes'
      BY <1>0, <3>1 DEF RaplTypes
    <3>3. Counts'
      BY <1>0, <3>1 DEF Counts
    <3> QED
      BY <2>2, <3>1, <3>2, <3>3 DEF PowerTrue, MetersInv
  <2>5. ASSUME NEW p \in Packages, NEW amount \in 1..EnergyRange, Uses(p, amount)
        PROVE  RaplTypes' /\ Counts' /\ PowerTrue'
    BY <1>0, <2>5, UsesKeeps
  <2>6. ASSUME NEW packages \in SUBSET Packages, Appears(packages)
        PROVE  RaplTypes' /\ Counts' /\ PowerTrue'
    BY <1>0, <2>6 DEF Appears, RaplTypes, Counts, PowerTrue
  <2>7. CASE Passes
    <3>1. UNCHANGED <<present, counter, used, previous, power>> /\ passed' = passed + 1
      BY <2>7 DEF Passes
    <3>2. RaplTypes'
      BY <1>0, <3>1 DEF RaplTypes
    <3>3. Counts'
      BY <1>0, <3>1 DEF Counts
    <3>4. PowerTrue'
      BY <1>0, <3>1 DEF PowerTrue
    <3> QED
      BY <2>2, <3>2, <3>3, <3>4 DEF MetersInv
  <2> QED
    BY <1>1, <2>2, <2>3, <2>4, <2>5, <2>6, <2>7 DEF RaplNext, MetersInv
<1>2. CASE StatNext \/ UNCHANGED metersVars
  <2>1. UNCHANGED rapl
    BY <1>2 DEF StatNext, ReadUsage, ReadUsageFails, Ticks, metersVars
  <2>2. RaplTypes' /\ Counts' /\ PowerTrue'
    BY <1>0, <2>1 DEF rapl, RaplTypes, Counts, PowerTrue
  <2> QED
    BY <1>0, <1>2, <2>2, UsageKeeps DEF MetersInv
<1> QED
  BY <1>1, <1>2

(* What the meters show is what happened between their samples.            *)
THEOREM MetersAreTrue == MetersSpec => []MetersTrue
<1>1. MetersInv => MetersTrue
  BY DEF MetersInv, MetersTrue
<1> QED
  BY <1>1, MetersStart, MetersKeep, PTL DEF MetersSpec

-----------------------------------------------------------------------------
(* Command.                                                                *)

(* What the variables hold; no more is taken from a pipe than was written. *)
CommandTypes ==
  /\ child \in {"running", "exited", "reaped"} /\ heirs \in SUBSET Heirs
  /\ written \in [Streams -> Nat] /\ taken \in [Streams -> Nat] /\ kept \in [Streams -> Nat]
  /\ \A s \in Streams : taken[s] <= written[s]
  /\ ended \subseteq Streams /\ remaining \in Nat
  /\ loop \in {"check", "out", "err", "judge", "poll", "ok", "failed"}

(* What is kept is what was taken, up to the cap.                          *)
KeptIsTaken == \A s \in Streams : kept[s] = IF taken[s] <= Cap THEN taken[s] ELSE Cap

(* A pipe at its end is empty, and nobody is left to write to it.          *)
EndedEmpty == \A s \in ended : Held(s) = 0 /\ ~Writer(s)

(* How the caller leaves the command.                                      *)
LeftBehind ==
  /\ loop = "ok" => ended = Streams
  /\ Done => child = "reaped"
  /\ loop = "failed" => \A heir \in heirs : ~heir.group

(* The inductive invariant: a pipe's end is what tells the caller that it  *)
(* has all.                                                                *)
CommandInv == CommandTypes /\ KeptIsTaken /\ EndedEmpty /\ LeftBehind

(* One drain of a pipe takes what it holds, a chunk at most, and keeps of  *)
(* it what the cap leaves room for.                                        *)
LEMMA DrainTakes ==
  ASSUME CommandTypes, KeptIsTaken, NEW s \in Streams
  PROVE  LET count == Min({Held(s), Chunk})
         IN  /\ Held(s) \in Nat /\ count \in Nat /\ count <= Held(s)
             /\ Held(s) < Chunk => count = Held(s)
             /\ Min({Cap, kept[s] + count}) = IF taken[s] + count <= Cap THEN taken[s] + count
                                              ELSE Cap
<1>1. Held(s) \in Nat /\ Chunk \in Nat /\ Cap \in Nat /\ taken[s] \in Nat
  BY CommandAssumption DEF CommandTypes, Held
<1> DEFINE count == Min({Held(s), Chunk})
<1>2. count \in Nat /\ count <= Held(s) /\ (Held(s) < Chunk => count = Held(s))
  BY <1>1, MinOfTwo
<1> HIDE DEF count
<1>3. kept[s] = IF taken[s] <= Cap THEN taken[s] ELSE Cap
  BY DEF KeptIsTaken
<1>4. Min({Cap, kept[s] + count}) = IF Cap <= kept[s] + count THEN Cap ELSE kept[s] + count
  BY <1>1, <1>2, <1>3, MinOfTwo
<1>5. Min({Cap, kept[s] + count}) = IF taken[s] + count <= Cap THEN taken[s] + count ELSE Cap
  BY <1>1, <1>2, <1>3, <1>4
<1> QED
  BY <1>1, <1>2, <1>5 DEF count

(* The command starts with empty pipes.                                    *)
LEMMA CommandStarts == CommandInit => CommandInv
  BY CommandAssumption
  DEF CommandInit, CommandInv, CommandTypes, KeptIsTaken, EndedEmpty, LeftBehind, Done, Streams

(* A step that reads nothing and brings no pipe a writer keeps what is     *)
(* known of the pipes.                                                     *)
LEMMA PipesKeep ==
  ASSUME CommandTypes, KeptIsTaken, EndedEmpty, UNCHANGED <<written, buffers>>,
         \A s \in Streams : Writer(s)' => Writer(s)
  PROVE  KeptIsTaken' /\ EndedEmpty'
<1>1. UNCHANGED <<written, taken, kept, ended>> /\ ended \subseteq Streams
  BY DEF buffers, CommandTypes
<1>2. KeptIsTaken'
  BY <1>1 DEF KeptIsTaken
<1>3. ASSUME NEW s \in ended
      PROVE  Held(s)' = 0 /\ ~Writer(s)'
  BY <1>1, <1>3 DEF EndedEmpty, Held
<1> QED
  BY <1>1, <1>2, <1>3 DEF EndedEmpty

(* The processes may write, fork, close pipes and exit: a pipe without a   *)
(* writer gets none.                                                       *)
LEMMA ProcessesKeep ==
  ASSUME CommandInv,
         \/ \E s \in Streams : Writes(s) \/ Closes(s)
         \/ \E heir \in Heirs : Forks(heir)
         \/ Exits
  PROVE  CommandInv'
<1>0. CommandTypes /\ KeptIsTaken /\ EndedEmpty /\ LeftBehind
  BY DEF CommandInv
<1>1. ASSUME NEW s \in Streams, Writes(s)
      PROVE  CommandInv'
  <2>1. /\ written' = [written EXCEPT ![s] = @ + 1] /\ Writer(s)
        /\ UNCHANGED <<child, open, heirs, taken, kept, ended, remaining, loop>>
    BY <1>1 DEF Writes, buffers
  <2>2. CommandTypes'
    BY <1>0, <2>1 DEF CommandTypes
  <2>3. KeptIsTaken'
    BY <1>0, <2>1 DEF KeptIsTaken
  <2>4. s \notin ended
    BY <1>0, <2>1 DEF EndedEmpty
  <2>5. EndedEmpty'
    BY <1>0, <2>1, <2>4 DEF CommandTypes, EndedEmpty, Held, Writer
  <2>6. LeftBehind'
    BY <1>0, <2>1 DEF LeftBehind, Done
  <2> QED
    BY <2>2, <2>3, <2>5, <2>6 DEF CommandInv
<1>2. ASSUME NEW s \in Streams, Closes(s)
      PROVE  CommandInv'
  <2>1. UNCHANGED <<child, written, buffers, remaining, loop>>
    BY <1>2 DEF Closes
  <2>2. CASE child = "running" /\ open' = open \ {s} /\ UNCHANGED heirs
    <3>1. \A r \in Streams : Writer(r)' => Writer(r)
      BY <2>1, <2>2 DEF Writer
    <3>2. KeptIsTaken' /\ EndedEmpty'
      BY <1>0, <2>1, <3>1, PipesKeep
    <3> QED
      BY <1>0, <2>1, <2>2, <3>2 DEF CommandInv, CommandTypes, LeftBehind, Done, buffers
  <2>3. ASSUME NEW heir \in heirs, UNCHANGED open,
               heirs' = (heirs \ {heir}) \cup {[heir EXCEPT !.pipes = @ \ {s}]}
        PROVE  CommandInv'
    <3> DEFINE now == [heir EXCEPT !.pipes = @ \ {s}]
    <3>1. heir \in Heirs
      BY <1>0 DEF CommandTypes
    <3>2. now \in Heirs /\ now.group = heir.group /\ now.pipes \subseteq heir.pipes
      BY <3>1 DEF Heirs
    <3>3. heirs' = (heirs \ {heir}) \cup {now}
      BY <2>3
    <3> HIDE DEF now
    <3>4. heirs' \in SUBSET Heirs
      BY <1>0, <3>2, <3>3 DEF CommandTypes
    <3>5. \A r \in Streams : Writer(r)' => Writer(r)
      BY <2>1, <2>3, <3>2, <3>3 DEF Writer
    <3>6. KeptIsTaken' /\ EndedEmpty'
      BY <1>0, <2>1, <3>5, PipesKeep
    <3>7. (\A h \in heirs : ~h.group) => \A h \in heirs' : ~h.group
      BY <3>2, <3>3
    <3>8. CommandTypes'
      BY <1>0, <2>1, <3>4 DEF CommandTypes, buffers
    <3>9. LeftBehind'
      BY <1>0, <2>1, <3>7 DEF LeftBehind, Done, buffers
    <3> QED
      BY <3>6, <3>8, <3>9 DEF CommandInv
  <2> QED
    BY <1>2, <2>2, <2>3 DEF Closes
<1>3. ASSUME NEW heir \in Heirs, Forks(heir)
      PROVE  CommandInv'
  <2>1. /\ heirs' = heirs \cup {heir}
        /\ UNCHANGED <<child, open, written, buffers, remaining, loop>>
    BY <1>3 DEF Forks
  <2>2. CommandTypes'
    BY <1>0, <2>1 DEF CommandTypes, buffers
  <2>3. \A r \in Streams : r \in heir.pipes => Writer(r)
    BY <1>3 DEF Forks, Writer
  <2>4. \A r \in Streams : Writer(r)' => Writer(r)
    BY <2>1, <2>3 DEF Writer
  <2>5. KeptIsTaken' /\ EndedEmpty'
    BY <1>0, <2>1, <2>4, PipesKeep
  <2>6. LeftBehind'
    <3>1. child = "running" \/ \E parent \in heirs : heir.group => parent.group
      BY <1>3 DEF Forks
    <3> QED
      BY <1>0, <2>1, <3>1 DEF LeftBehind, Done, buffers
  <2> QED
    BY <2>2, <2>5, <2>6 DEF CommandInv
<1>4. CASE Exits
  <2>1. UNCHANGED <<open, written, buffers, remaining, loop>>
    BY <1>4 DEF Exits
  <2>2. \/ child = "running" /\ child' = "exited" /\ heirs' = heirs
        \/ heirs' \subseteq heirs /\ child' = child
    BY <1>4 DEF Exits
  <2>3. \A r \in Streams : Writer(r)' => Writer(r)
    BY <2>1, <2>2 DEF Writer
  <2>4. KeptIsTaken' /\ EndedEmpty'
    BY <1>0, <2>1, <2>3, PipesKeep
  <2>5. CommandTypes' /\ LeftBehind'
    BY <1>0, <2>1, <2>2 DEF CommandTypes, LeftBehind, Done, buffers
  <2> QED
    BY <2>4, <2>5 DEF CommandInv
<1> QED
  BY <1>1, <1>2, <1>3, <1>4

(* One drain.                                                              *)
LEMMA DrainKeeps ==
  ASSUME CommandInv, NEW s \in Streams, Drain(s)
  PROVE  CommandInv'
<1>0. CommandTypes /\ KeptIsTaken /\ EndedEmpty /\ LeftBehind
  BY DEF CommandInv
<1>1. /\ loop' \in {"err", "judge"} /\ UNCHANGED <<child, open, heirs, written, remaining>>
  BY DEF Drain, processes
<1>2. LeftBehind'
  BY <1>1 DEF LeftBehind, Done
<1>3. CASE s \in ended
  <2>1. UNCHANGED buffers
    BY <1>3 DEF Drain
  <2>2. KeptIsTaken' /\ EndedEmpty'
    BY <1>0, <1>1, <2>1, PipesKeep DEF Writer
  <2> QED
    BY <1>0, <1>1, <1>2, <2>1, <2>2 DEF CommandInv, CommandTypes, buffers
<1>4. CASE s \notin ended
  <2> DEFINE count == Min({Held(s), Chunk})
             room == Min({Cap, kept[s] + count})
  <2>1. /\ Held(s) \in Nat /\ count \in Nat /\ count <= Held(s)
        /\ Held(s) < Chunk => count = Held(s)
        /\ room = IF taken[s] + count <= Cap THEN taken[s] + count ELSE Cap
    BY <1>0, DrainTakes
  <2>2. /\ taken' = [taken EXCEPT ![s] = taken[s] + count]
        /\ kept' = [kept EXCEPT ![s] = room]
        /\ ended' = IF Held(s) < Chunk /\ ~Writer(s) THEN ended \cup {s} ELSE ended
    BY <1>4 DEF Drain
  <2> HIDE DEF count, room
  <2>3. taken[s] \in Nat /\ Cap \in Nat
    BY <1>0, CommandAssumption DEF CommandTypes
  <2>4. room \in Nat /\ taken[s] + count \in Nat
    BY <2>1, <2>3
  <2>5. /\ taken' \in [Streams -> Nat] /\ kept' \in [Streams -> Nat]
        /\ taken'[s] = taken[s] + count /\ kept'[s] = room
        /\ \A r \in Streams : r # s => taken'[r] = taken[r] /\ kept'[r] = kept[r]
    BY <1>0, <2>2, <2>4 DEF CommandTypes
  <2>6. CommandTypes'
    <3>1. \A r \in Streams : taken'[r] <= written'[r]
      BY <1>0, <1>1, <2>1, <2>5 DEF CommandTypes, Held
    <3> QED
      BY <1>0, <1>1, <2>2, <2>5, <3>1 DEF CommandTypes
  <2>7. KeptIsTaken'
    BY <1>0, <2>1, <2>5 DEF KeptIsTaken
  <2>8. EndedEmpty'
    <3>1. \A r \in Streams : Writer(r)' <=> Writer(r)
      BY <1>1 DEF Writer
    <3>2. ASSUME NEW r \in ended'
          PROVE  Held(r)' = 0 /\ ~Writer(r)'
      <4>1. CASE r = s
        <5>1. Held(s) < Chunk /\ ~Writer(s)
          BY <1>4, <2>2, <4>1
        <5>2. taken'[s] = taken[s] + Held(s) /\ written[s] \in Nat
          BY <1>0, <2>1, <2>5, <5>1 DEF CommandTypes
        <5>3. Held(s)' = 0
          BY <1>1, <2>3, <5>2 DEF Held
        <5> QED
          BY <3>1, <4>1, <5>1, <5>3
      <4>2. CASE r # s
        <5>1. r \in ended /\ r \in Streams
          BY <1>0, <2>2, <4>2 DEF CommandTypes
        <5>2. Held(r)' = Held(r)
          BY <1>1, <2>5, <4>2, <5>1 DEF Held
        <5> QED
          BY <1>0, <3>1, <5>1, <5>2 DEF EndedEmpty
      <4> QED
        BY <4>1, <4>2
    <3> QED
      BY <3>2 DEF EndedEmpty
  <2> QED
    BY <1>2, <2>6, <2>7, <2>8 DEF CommandInv
<1> QED
  BY <1>3, <1>4

(* The rest of the caller, and time: nothing is read.                      *)
LEMMA CallerKeeps ==
  ASSUME CommandInv, Check \/ Judge \/ PollReturns \/ CallFails \/ TimePasses
  PROVE  CommandInv'
<1>0. CommandTypes /\ KeptIsTaken /\ EndedEmpty /\ LeftBehind
  BY DEF CommandInv
<1>1. UNCHANGED <<open, written, buffers>>
  BY DEF Check, Judge, PollReturns, CallFails, TimePasses, processes
<1>2. /\ child' = child \/ child' = "reaped"
      /\ heirs' = heirs \/ heirs' = HeirsKilled
  BY DEF Check, Judge, PollReturns, CallFails, TimePasses, processes, Waited
<1>3. HeirsKilled \subseteq heirs
  BY DEF HeirsKilled
<1>4. \A s \in Streams : Writer(s)' => Writer(s)
  BY <1>1, <1>2, <1>3 DEF Writer
<1>5. KeptIsTaken' /\ EndedEmpty'
  BY <1>0, <1>1, <1>4, PipesKeep
<1>6. CommandTypes'
  <2>1. remaining' \in Nat
    BY <1>0 DEF CommandTypes, Check, Judge, PollReturns, CallFails, TimePasses
  <2>2. loop' \in {"check", "out", "err", "judge", "poll", "ok", "failed"}
    BY <1>0 DEF CommandTypes, Check, Judge, PollReturns, CallFails, TimePasses
  <2>3. heirs' \in SUBSET Heirs /\ child' \in {"running", "exited", "reaped"}
    BY <1>0, <1>2, <1>3 DEF CommandTypes
  <2> QED
    BY <1>0, <1>1, <2>1, <2>2, <2>3 DEF CommandTypes, buffers
<1>7. LeftBehind'
  <2>1. CASE TimePasses
    BY <1>0, <2>1 DEF LeftBehind, Done, TimePasses, processes, buffers
  <2>2. CASE PollReturns
    BY <2>2 DEF LeftBehind, Done, PollReturns
  <2>3. CASE Judge
    BY <1>1, <2>3 DEF LeftBehind, Done, Judge, Complete, buffers
  <2>4. CASE Check \/ CallFails
    BY <2>4 DEF LeftBehind, Done, Check, CallFails, HeirsKilled
  <2> QED
    BY <2>1, <2>2, <2>3, <2>4
<1> QED
  BY <1>5, <1>6, <1>7 DEF CommandInv

(* Step by step of the caller, the child and its heirs.                    *)
LEMMA CommandKeeps == CommandInv /\ [CommandNext]_commandVars => CommandInv'
<1> SUFFICES ASSUME CommandInv, [CommandNext]_commandVars PROVE CommandInv'
  OBVIOUS
<1>1. CASE UNCHANGED commandVars
  BY <1>1 DEF CommandInv, CommandTypes, KeptIsTaken, EndedEmpty, LeftBehind, Held, Writer,
              Done, commandVars, processes, buffers
<1>2. CASE CommandNext
  BY <1>2, ProcessesKeep, DrainKeeps, CallerKeeps DEF CommandNext, Caller
<1> QED
  BY <1>1, <1>2

(* What a command leaves: if it succeeds, all that was written to its      *)
(* pipes is kept, up to the cap, and nobody can write more; if it fails,   *)
(* no process of its group; and in both cases no child that nobody waited  *)
(* for (lib.rs run_prepared_command, drain_available).                     *)
THEOREM CommandLeaves == CommandSpec => []OutputWhole
<1>1. CommandInv => OutputWhole
  <2> SUFFICES ASSUME CommandInv PROVE OutputWhole
    OBVIOUS
  <2>0. CommandTypes /\ KeptIsTaken /\ EndedEmpty /\ LeftBehind
    BY DEF CommandInv
  <2>1. ASSUME loop = "ok", NEW s \in Streams
        PROVE  kept[s] = Min({Cap, written[s]}) /\ ~Writer(s)
    <3>1. Held(s) = 0 /\ ~Writer(s)
      BY <2>0, <2>1 DEF EndedEmpty, LeftBehind
    <3>2. written[s] \in Nat /\ taken[s] \in Nat /\ Cap \in Nat
      BY <2>0, CommandAssumption DEF CommandTypes
    <3>3. taken[s] = written[s]
      BY <3>1, <3>2 DEF Held
    <3>4. kept[s] = IF written[s] <= Cap THEN written[s] ELSE Cap
      BY <2>0, <3>3 DEF KeptIsTaken
    <3>5. Min({Cap, written[s]}) = IF Cap <= written[s] THEN Cap ELSE written[s]
      BY <3>2, MinOfTwo
    <3> QED
      BY <3>1, <3>2, <3>4, <3>5
  <2> QED
    BY <2>0, <2>1 DEF LeftBehind, OutputWhole
<1> QED
  BY <1>1, CommandStarts, CommandKeeps, PTL DEF CommandSpec

-----------------------------------------------------------------------------
(* NvidiaSource.                                                           *)

(* What the waits and the times since a failure hold.                      *)
SourceTypes ==
  /\ wait \in [SmiFields -> 0..Backoff] /\ since \in [SmiFields -> 0..Backoff]
  /\ missing \in BOOLEAN

(* A field waits for what is left of its back-off at least.                *)
WaitsEnough == \A f \in SmiFields : wait[f] + since[f] >= Backoff

(* A field that waits does so for a failure, and no longer than for what   *)
(* is left of that failure's back-off.                                     *)
WaitsForFailure ==
  \A f \in SmiFields : wait[f] > 0 =>
    \E g \in SmiFields : since[g] < Backoff /\ wait[f] + since[g] <= Backoff

(* The inductive invariant: a wait is what is left of the back-off of a    *)
(* failure, neither less nor more.                                         *)
SourceInv == SourceTypes /\ WaitsEnough /\ WaitsForFailure

(* Nothing has failed, long enough ago.                                    *)
LEMMA SourceStarts == SourceInit => SourceInv
<1> SUFFICES ASSUME SourceInit PROVE SourceInv
  OBVIOUS
<1>0. missing \in BOOLEAN
  BY DEF SourceInit
<1>1. /\ Backoff \in Nat \ {0}
      /\ wait = [f \in SmiFields |-> 0] /\ since = [f \in SmiFields |-> Backoff]
  BY SourceAssumption DEF SourceInit
<1>2. SourceTypes
  BY <1>0, <1>1 DEF SourceTypes
<1>3. \A f \in SmiFields : wait[f] = 0 /\ since[f] = Backoff
  BY <1>1
<1>4. WaitsEnough
  <2> SUFFICES ASSUME NEW f \in SmiFields PROVE wait[f] + since[f] >= Backoff
    BY DEF WaitsEnough
  <2>1. 0 + Backoff >= Backoff
    BY SourceAssumption
  <2> QED
    BY <1>3, <2>1
<1>5. WaitsForFailure
  BY <1>3 DEF WaitsForFailure
<1> QED
  BY <1>2, <1>4, <1>5 DEF SourceInv

(* A query fills in fields; those it did not get begin to wait.            *)
LEMMA FillKeeps ==
  ASSUME SourceInv, NEW wanted \in SUBSET SmiFields, NEW given \in SUBSET SmiFields,
         NEW got \in SUBSET wanted, NEW installed \in BOOLEAN, NEW answered \in BOOLEAN,
         FillFromSmi(wanted, given, installed, answered, got)
  PROVE  SourceInv'
<1>0. SourceTypes /\ WaitsEnough /\ WaitsForFailure /\ Backoff \in Nat \ {0}
  BY SourceAssumption DEF SourceInv
<1> DEFINE due == Due(wanted \ given)
           failed == Failed(due, answered, got)
<1>1. CASE UNCHANGED <<wait, since>> /\ missing' \in BOOLEAN
  BY <1>0, <1>1 DEF SourceInv, SourceTypes, WaitsEnough, WaitsForFailure
<1>2. CASE ~(missing \/ due = {}) /\ installed
  <2>1. /\ wait' = [f \in SmiFields |-> IF f \in failed THEN Backoff ELSE wait[f]]
        /\ since' = [f \in SmiFields |->
                       IF f \in due /\ ~(answered /\ f \in got) THEN 0 ELSE since[f]]
        /\ missing' = missing
    BY <1>2 DEF FillFromSmi, NoteFailures
  <2>2. due \subseteq SmiFields /\ due # {}
    BY <1>2 DEF Due
  <2>3. \A f \in SmiFields : f \in due /\ ~(answered /\ f \in got) => f \in failed
    BY DEF Failed
  <2>4. failed # {} => \E g \in due : ~(answered /\ g \in got)
    BY <2>2 DEF Failed
  <2>5. \A f \in failed : \E g \in SmiFields : g \in due /\ ~(answered /\ g \in got)
    BY <2>2, <2>4
  <2> HIDE DEF due, failed
  <2>6. SourceTypes'
    BY <1>0, <2>1 DEF SourceTypes
  <2>7. WaitsEnough'
    BY <1>0, <2>1, <2>3 DEF SourceTypes, WaitsEnough
  <2>8. WaitsForFailure'
    <3> SUFFICES ASSUME NEW f \in SmiFields, wait'[f] > 0
                 PROVE  \E g \in SmiFields : since'[g] < Backoff /\ wait'[f] + since'[g] <= Backoff
      BY DEF WaitsForFailure
    <3>1. CASE f \in failed
      <4>1. PICK g \in SmiFields : g \in due /\ ~(answered /\ g \in got)
        BY <2>5, <3>1
      <4>2. since'[g] = 0 /\ wait'[f] = Backoff
        BY <2>1, <3>1, <4>1
      <4> QED
        BY <1>0, <4>2
    <3>2. CASE f \notin failed
      <4>1. wait'[f] = wait[f]
        BY <2>1, <3>2
      <4>2. PICK g \in SmiFields : since[g] < Backoff /\ wait[f] + since[g] <= Backoff
        BY <1>0, <4>1 DEF WaitsForFailure
      <4>3. since'[g] = 0 \/ since'[g] = since[g]
        BY <2>1
      <4>4. wait[f] \in 0..Backoff /\ since[g] \in 0..Backoff
        BY <1>0 DEF SourceTypes
      <4> QED
        BY <1>0, <4>1, <4>2, <4>3, <4>4
    <3> QED
      BY <3>1, <3>2
  <2> QED
    BY <2>6, <2>7, <2>8 DEF SourceInv
<1>3. (UNCHANGED <<wait, since>> /\ missing' \in BOOLEAN) \/ (~(missing \/ due = {}) /\ installed)
  BY <1>0 DEF FillFromSmi, SourceTypes
<1> QED
  BY <1>1, <1>2, <1>3

(* Time passes for the waits and for the failures alike.                   *)
LEMMA PassesKeeps ==
  ASSUME SourceInv, BackoffPasses
  PROVE  SourceInv'
<1>0. SourceTypes /\ WaitsEnough /\ WaitsForFailure /\ Backoff \in Nat \ {0}
  BY SourceAssumption DEF SourceInv
<1>1. \A f \in SmiFields : /\ wait[f] \in 0..Backoff /\ since[f] \in 0..Backoff
                           /\ wait'[f] = IF wait[f] = 0 THEN 0 ELSE wait[f] - 1
                           /\ since'[f] = IF since[f] = Backoff THEN Backoff ELSE since[f] + 1
  BY <1>0 DEF SourceTypes, BackoffPasses
<1>2. SourceTypes'
  BY <1>0 DEF SourceTypes, BackoffPasses
<1>3. WaitsEnough'
  BY <1>0, <1>1 DEF WaitsEnough
<1>4. WaitsForFailure'
  <2> SUFFICES ASSUME NEW f \in SmiFields, wait'[f] > 0
               PROVE  \E g \in SmiFields : since'[g] < Backoff /\ wait'[f] + since'[g] <= Backoff
    BY DEF WaitsForFailure
  <2>1. wait[f] > 0 /\ wait'[f] = wait[f] - 1 /\ wait[f] \in Nat
    BY <1>1
  <2>2. PICK g \in SmiFields : since[g] < Backoff /\ wait[f] + since[g] <= Backoff
    BY <1>0, <2>1 DEF WaitsForFailure
  <2>3. since'[g] = since[g] + 1 /\ since[g] \in Nat
    BY <1>1, <2>2
  <2> QED
    BY <1>0, <2>1, <2>2, <2>3
<1> QED
  BY <1>2, <1>3, <1>4 DEF SourceInv

(* What the worker asked, and what gave it.                                *)
LEMMA SourceSteps ==
  ASSUME SourceNext
  PROVE  \/ QueryDark \/ QueryTemperature \/ BackoffPasses
         \/ \E wanted, given \in SUBSET SmiFields : \E got \in SUBSET wanted :
              \E installed, answered \in BOOLEAN :
                FillFromSmi(wanted, given, installed, answered, got)
<1>1. CASE \E wanted \in SUBSET SmiFields \ {{}} : \E hwmon \in {{}, {"temp"}} :
             \E gives, got \in SUBSET wanted :
               \E opens, installed, answered \in BOOLEAN :
                 Query(wanted, hwmon, opens, gives, installed, answered, got)
  <2>1. PICK wanted \in SUBSET SmiFields, hwmon \in {{}, {"temp"}} :
          \E gives, got \in SUBSET wanted :
            \E opens, installed, answered \in BOOLEAN :
              Query(wanted, hwmon, opens, gives, installed, answered, got)
    BY <1>1
  <2>2. PICK gives \in SUBSET wanted, got \in SUBSET wanted :
          \E opens, installed, answered \in BOOLEAN :
            Query(wanted, hwmon, opens, gives, installed, answered, got)
    BY <2>1
  <2>3. PICK opens \in BOOLEAN, installed \in BOOLEAN, answered \in BOOLEAN :
          Query(wanted, hwmon, opens, gives, installed, answered, got)
    BY <2>2, Zenon
  <2> DEFINE given == (wanted \cap hwmon) \cup (IF nvml' THEN wanted \cap gives ELSE {})
  <2>4. given \in SUBSET SmiFields /\ FillFromSmi(wanted, given, installed, answered, got)
    BY <2>1, <2>3 DEF Query
  <2> HIDE DEF given
  <2> QED
    BY <2>1, <2>2, <2>3, <2>4, Zenon
<1> QED
  BY <1>1 DEF SourceNext

(* Every step of the source.                                               *)
LEMMA SourceKeeps == SourceInv /\ [SourceNext]_sourceVars => SourceInv'
<1> SUFFICES ASSUME SourceInv, [SourceNext]_sourceVars PROVE SourceInv'
  OBVIOUS
<1>1. CASE UNCHANGED <<wait, since, missing>>
  BY <1>1 DEF SourceInv, SourceTypes, WaitsEnough, WaitsForFailure
<1>2. CASE QueryDark \/ QueryTemperature \/ UNCHANGED sourceVars
  <2>1. UNCHANGED <<wait, since, missing>>
    BY <1>2 DEF QueryDark, QueryTemperature, sourceVars
  <2> QED
    BY <1>1, <2>1
<1>3. CASE BackoffPasses
  BY <1>3, PassesKeeps
<1>4. ASSUME NEW wanted \in SUBSET SmiFields, NEW given \in SUBSET SmiFields,
             NEW got \in SUBSET wanted, NEW installed \in BOOLEAN, NEW answered \in BOOLEAN,
             FillFromSmi(wanted, given, installed, answered, got)
      PROVE  SourceInv'
  BY <1>4, FillKeeps
<1> QED
  BY <1>2, <1>3, <1>4, SourceSteps

(* What a query asked nvidia-smi for had not failed within the back-off,   *)
(* and what it did not ask for was held back for a failure within it.      *)
Paced ==
  query'.turn # query.turn =>
    /\ \A f \in query'.asked : since[f] = Backoff
    /\ \A f \in query'.wanted \ (query'.given \cup query'.asked) :
         missing' \/ \E g \in SmiFields : since[g] < Backoff

(* What a step may not do follows from the waits before it.                *)
LEMMA StepIsPaced == SourceInv /\ [SourceNext]_sourceVars => Paced
<1> SUFFICES ASSUME SourceInv, [SourceNext]_sourceVars PROVE Paced
  OBVIOUS
<1>0. /\ SourceTypes /\ WaitsEnough /\ WaitsForFailure /\ Backoff \in Nat \ {0}
  BY SourceAssumption DEF SourceInv
<1>1. CASE UNCHANGED query
  BY <1>1 DEF Paced
<1>2. CASE QueryDark
  BY <1>2 DEF QueryDark, Queried, Paced
<1>3. CASE QueryTemperature
  BY <1>3 DEF QueryTemperature, Queried, Paced
<1>4. ASSUME NEW wanted \in SUBSET SmiFields, NEW given \in SUBSET SmiFields,
             NEW got \in SUBSET wanted, NEW installed \in BOOLEAN, NEW answered \in BOOLEAN,
             FillFromSmi(wanted, given, installed, answered, got)
      PROVE  Paced
  <2> DEFINE due == Due(wanted \ given)
  <2>1. /\ query'.wanted = wanted /\ query'.given = given
        /\ query'.asked = due \/ (query'.asked = {} /\ (missing' \/ due = {}))
    BY <1>4 DEF FillFromSmi, Queried
  <2>2. \A f \in due : since[f] = Backoff
    BY <1>0 DEF Due, WaitsEnough, SourceTypes
  <2>3. \A f \in wanted \ given : f \notin due => \E g \in SmiFields : since[g] < Backoff
    BY <1>0 DEF Due, WaitsForFailure, SourceTypes
  <2> HIDE DEF due
  <2> QED
    BY <2>1, <2>2, <2>3 DEF Paced
<1> QED
  BY <1>1, <1>2, <1>3, <1>4, SourceSteps DEF BackoffPasses, sourceVars

(* nvidia-smi is not asked again for a field before its back-off has       *)
(* passed, and an absent one no more (nvidia.rs fill_from_smi).            *)
THEOREM SmiIsPaced == SourceSpec => SmiPaced
<1>1. SourceInv /\ [SourceNext]_sourceVars => [Paced]_sourceVars
  BY StepIsPaced
<1> QED
  BY <1>1, SourceStarts, SourceKeeps, PTL DEF SourceSpec, SmiPaced, Paced

-----------------------------------------------------------------------------
(* Tuning.                                                                 *)

(* The greater of two numbers.                                             *)
LEMMA MaxOfTwo ==
  ASSUME NEW a \in Int, NEW b \in Int
  PROVE  Max({a, b}) = IF a >= b THEN a ELSE b
<1>1. a <= b \/ b <= a
  OBVIOUS
<1> DEFINE m == IF a >= b THEN a ELSE b
<1>2. m \in {a, b} /\ \A y \in {a, b} : m >= y
  OBVIOUS
<1>3. \A x \in {a, b} : (\A y \in {a, b} : x >= y) => x = m
  OBVIOUS
<1> QED
  BY <1>2, <1>3 DEF Max

(* The least and the greatest of one number.                               *)
LEMMA OnlyOne ==
  ASSUME NEW a \in Int
  PROVE  Min({a}) = a /\ Max({a}) = a
<1>1. {a} = {a, a}
  OBVIOUS
<1> QED
  BY <1>1, MinOfTwo, MaxOfTwo

-----------------------------------------------------------------------------
(* Limits in order, and the jobs that write them.                          *)
Ordered == {l \in Limits : l.min <= l.max}
Jobs == [stage : {"writing", "done", "failed"}, limits : Ordered, policy : CpuPolicies,
         first : [CpuPolicies -> {"min", "max"}], second : BOOLEAN, alone : BOOLEAN]

(* What the cpufreq files and the jobs hold.                               *)
FrequencyTypes ==
  /\ requests \in [CpuPolicies -> Limits]
  /\ jobs \in [Appliers -> Jobs \cup {Idle}]
  /\ crossed \in BOOLEAN

(* Nobody writes beside a job that is alone.                               *)
AloneWrites ==
  \A a, b \in Appliers :
    a # b /\ jobs[a] # Idle /\ jobs[a].alone => jobs[b].stage # "writing"

(* A job that is not alone has crossed another.                            *)
CrossedKnown ==
  ~crossed => \A a \in Appliers : jobs[a].stage = "writing" => jobs[a].alone

(* What a job that is alone has done: the policies before its own have     *)
(* its limits, its own has the limit that went first, and the order of the *)
(* writes to come was chosen from what the policy still has.               *)
Underway(files, job) ==
  /\ \A p \in CpuPolicies : p < job.policy => files[p] = job.limits
  /\ job.second => files[job.policy][job.first[job.policy]] = job.limits[job.first[job.policy]]
  /\ \A p \in CpuPolicies : p > job.policy \/ (p = job.policy /\ ~job.second) =>
       job.first[p] = FirstWrite(job.limits.min, files[p].max)

(* So it is with every such job that writes.                               *)
AloneUnderway ==
  \A a \in Appliers : jobs[a].stage = "writing" /\ jobs[a].alone => Underway(requests, jobs[a])

(* A job that was alone to its end leaves its limits everywhere.           *)
AloneDone ==
  \A a \in Appliers : jobs[a].stage = "done" /\ jobs[a].alone =>
    \A p \in CpuPolicies : requests[p] = jobs[a].limits

(* Until two jobs crossed, the files of every policy are in order.         *)
RequestsOrdered == ~crossed => \A p \in CpuPolicies : requests[p].min <= requests[p].max

(* The inductive invariant of the frequencies: the order of two writes is  *)
(* right because it was chosen from what the file still has.               *)
FrequencyInv ==
  /\ FrequencyTypes /\ AloneWrites /\ CrossedKnown /\ AloneUnderway /\ AloneDone
  /\ RequestsOrdered

(* A job is not idle; what it is about.                                    *)
LEMMA JobIs ==
  ASSUME FrequencyTypes, NEW a \in Appliers
  PROVE  /\ jobs[a].stage \in {"writing", "done", "failed"} => jobs[a] \in Jobs /\ jobs[a] # Idle
         /\ jobs[a] # Idle => jobs[a] \in Jobs
         /\ Idle.stage = "idle"
<1>1. jobs[a] \in Jobs \cup {Idle} /\ Idle.stage = "idle"
  BY DEF FrequencyTypes, Idle
<1> QED
  BY <1>1 DEF Jobs

(* The fields of a job.                                                    *)
LEMMA FieldsOfJob ==
  ASSUME NEW job \in Jobs
  PROVE  /\ job.stage \in {"writing", "done", "failed"} /\ job.policy \in CpuPolicies
         /\ job.limits \in Limits /\ job.limits.min \in Speeds /\ job.limits.max \in Speeds
         /\ job.limits.min <= job.limits.max
         /\ job.first \in [CpuPolicies -> {"min", "max"}] /\ job.second \in BOOLEAN
         /\ job.alone \in BOOLEAN
  BY DEF Jobs, Ordered, Limits

(* A limit of a policy written.                                            *)
LEMMA MinimumWritten ==
  ASSUME NEW r \in Limits, NEW v \in Speeds, NEW n, n = [r EXCEPT !["min"] = v]
  PROVE  n \in Limits /\ n["min"] = v /\ n["max"] = r["max"]
  BY DEF Limits

(* The maximum is written, and the minimum left.                           *)
LEMMA MaximumWritten ==
  ASSUME NEW r \in Limits, NEW v \in Speeds, NEW n, n = [r EXCEPT !["max"] = v]
  PROVE  n \in Limits /\ n["max"] = v /\ n["min"] = r["min"]
  BY DEF Limits

(* Limits are their two ends.                                              *)
LEMMA SameLimits ==
  ASSUME NEW k \in Limits, NEW l \in Limits, k["min"] = l["min"], k["max"] = l["max"]
  PROVE  k = l
  BY DEF Limits

-----------------------------------------------------------------------------
(* At the start nobody writes.                                             *)
LEMMA FrequencyStarts == TuningInit => FrequencyInv
<1> SUFFICES ASSUME TuningInit PROVE FrequencyInv
  OBVIOUS
<1>1. /\ requests \in [CpuPolicies -> {l \in Limits : l.min <= l.max}]
      /\ jobs = [a \in Appliers |-> Idle] /\ crossed = FALSE
  BY DEF TuningInit
<1>2. \A a \in Appliers : jobs[a] = Idle /\ jobs[a].stage = "idle"
  BY <1>1 DEF Idle
<1>3. FrequencyTypes
  BY <1>1 DEF FrequencyTypes
<1>4. AloneWrites /\ CrossedKnown /\ AloneUnderway /\ AloneDone
  BY <1>2 DEF AloneWrites, CrossedKnown, AloneUnderway, AloneDone
<1>5. RequestsOrdered
  BY <1>1 DEF RequestsOrdered
<1> QED
  BY <1>3, <1>4, <1>5 DEF FrequencyInv

(* A job starts: it chooses its order of writes, and crosses those that    *)
(* write already.                                                          *)
LEMMA StartKeeps ==
  ASSUME FrequencyInv, NEW a \in Appliers, NEW limits \in Limits, StartFrequency(a, limits)
  PROVE  FrequencyInv'
<1>0. /\ FrequencyTypes /\ AloneWrites /\ CrossedKnown /\ AloneUnderway /\ AloneDone
      /\ RequestsOrdered
  BY DEF FrequencyInv
<1> DEFINE first == [p \in CpuPolicies |-> FirstWrite(limits.min, Shown(p).max)]
           job == [stage |-> "writing", limits |-> limits, policy |-> Min(CpuPolicies),
                   first |-> first, second |-> FALSE, alone |-> ~Busy]
<1>1. /\ jobs[a] = Idle /\ limits.min <= limits.max
      /\ jobs' = [b \in Appliers |->
           IF b = a THEN job
           ELSE IF jobs[b] = Idle THEN Idle ELSE [jobs[b] EXCEPT !.alone = FALSE]]
      /\ crossed' = (crossed \/ Busy) /\ requests' = requests
  BY DEF StartFrequency
<1>2. Min(CpuPolicies) \in CpuPolicies /\ \A p \in CpuPolicies : Min(CpuPolicies) <= p
  BY MinOfNumbers, TuningAssumption
<1>3. first \in [CpuPolicies -> {"min", "max"}]
  BY DEF FirstWrite
<1>4. \A p \in CpuPolicies : first[p] = FirstWrite(limits.min, requests[p].max)
  BY DEF Shown
<1> HIDE DEF first
<1>5. job \in Jobs
  BY <1>1, <1>2, <1>3 DEF Jobs, Ordered
<1>6. job.stage = "writing" /\ (job.alone <=> ~Busy)
  OBVIOUS
<1>a. /\ job.limits = limits /\ job.policy = Min(CpuPolicies) /\ job.first = first
      /\ ~job.second
  OBVIOUS
<1> HIDE DEF job
<1>7. \A b \in Appliers : b # a /\ jobs[b] # Idle =>
        /\ jobs'[b] \in Jobs /\ jobs'[b].stage = jobs[b].stage /\ jobs'[b].alone = FALSE
        /\ jobs'[b].limits = jobs[b].limits
  BY <1>0, <1>1, JobIs DEF Jobs
<1>8. \A b \in Appliers : b # a /\ jobs[b] = Idle => jobs'[b] = Idle
  BY <1>1
<1>9. jobs'[a] = job
  BY <1>1
<1>10. FrequencyTypes'
  <2>1. jobs' \in [Appliers -> Jobs \cup {Idle}]
    BY <1>1, <1>5, <1>7, <1>8, <1>9
  <2>2. crossed' \in BOOLEAN /\ requests' \in [CpuPolicies -> Limits]
    BY <1>0, <1>1 DEF FrequencyTypes
  <2> QED
    BY <2>1, <2>2 DEF FrequencyTypes
<1>11. \A b \in Appliers : b # a => jobs'[b] = Idle \/ jobs'[b].alone = FALSE
  BY <1>7, <1>8
<1>12. ASSUME NEW b \in Appliers, b # a, ~Busy
       PROVE  jobs'[b].stage # "writing"
  <2>1. jobs[b].stage # "writing"
    BY <1>12 DEF Busy
  <2> QED
    BY <1>7, <1>8, <1>12, <2>1 DEF Idle
<1>13. AloneWrites'
  BY <1>6, <1>9, <1>11, <1>12 DEF AloneWrites
<1>14. CrossedKnown'
  BY <1>1, <1>6, <1>9, <1>12 DEF CrossedKnown
<1>15. Underway(requests', job)
  <2>1. \A p \in CpuPolicies : ~(p < Min(CpuPolicies))
    <3>1. Min(CpuPolicies) \in Nat /\ \A p \in CpuPolicies : p \in Nat
      BY <1>2, TuningAssumption
    <3> QED
      BY <1>2, <3>1
  <2>2. \A p \in CpuPolicies : job.first[p] = FirstWrite(job.limits.min, requests'[p].max)
    BY <1>1, <1>4, <1>a
  <2> QED
    BY <1>a, <2>1, <2>2 DEF Underway
<1>16. \A b \in Appliers : b # a => ~(jobs'[b].stage \in {"writing", "done"} /\ jobs'[b].alone)
  BY <1>7, <1>8 DEF Idle
<1>17. AloneUnderway'
  <2> SUFFICES ASSUME NEW b \in Appliers, jobs'[b].stage = "writing", jobs'[b].alone
               PROVE  Underway(requests', jobs'[b])
    BY DEF AloneUnderway
  <2>1. b = a
    BY <1>16
  <2> QED
    BY <1>9, <1>15, <2>1
<1>18. AloneDone'
  BY <1>6, <1>9, <1>16 DEF AloneDone
<1>19. RequestsOrdered'
  BY <1>0, <1>1 DEF RequestsOrdered
<1> QED
  BY <1>10, <1>13, <1>14, <1>17, <1>18, <1>19 DEF FrequencyInv

(* Where a job goes after a write.                                         *)
LEMMA OnwardIs ==
  ASSUME NEW job \in Jobs, job.stage = "writing", NEW n, n = Onward(job)
  PROVE  /\ n \in Jobs /\ n.limits = job.limits /\ n.first = job.first /\ n.alone = job.alone
         /\ \/ ~job.second /\ n.second /\ n.policy = job.policy /\ n.stage = "writing"
            \/ /\ job.second /\ n.stage = "done"
               /\ \A p \in CpuPolicies : ~(p > job.policy)
            \/ /\ job.second /\ ~n.second /\ n.stage = "writing" /\ n.policy > job.policy
               /\ \A p \in CpuPolicies : p > job.policy => n.policy <= p
<1> DEFINE later == {p \in CpuPolicies : p > job.policy}
<1>1. CASE ~job.second
  <2>1. n = [job EXCEPT !.second = TRUE]
    BY <1>1 DEF Onward
  <2> QED
    BY <1>1, <2>1 DEF Jobs
<1>2. CASE job.second /\ later = {}
  <2>1. n = [job EXCEPT !.stage = "done"]
    BY <1>2 DEF Onward
  <2> QED
    BY <1>2, <2>1 DEF Jobs
<1>3. CASE job.second /\ later # {}
  <2>1. n = [job EXCEPT !.policy = Min(later), !.second = FALSE]
    BY <1>3 DEF Onward
  <2>2. later \in SUBSET Nat
    BY TuningAssumption
  <2>3. Min(later) \in later /\ \A p \in later : Min(later) <= p
    BY <1>3, <2>2, MinOfNumbers
  <2>4. n \in Jobs /\ n.limits = job.limits /\ n.first = job.first /\ n.alone = job.alone
        /\ ~n.second /\ n.stage = "writing" /\ n.policy = Min(later)
    BY <2>1, <2>3 DEF Jobs
  <2> QED
    BY <1>3, <2>3, <2>4
<1> QED
  BY <1>1, <1>2, <1>3

(* A write of a job: the files before it and after it.                     *)
Written(job, old, new) ==
  new = [old EXCEPT ![job.policy][Writing(job)] = job.limits[Writing(job)]]

(* What one write changes: one limit of the policy the job is at.          *)
LEMMA WriteIs ==
  ASSUME NEW job \in Jobs, NEW old \in [CpuPolicies -> Limits], NEW new,
         Written(job, old, new)
  PROVE  /\ new \in [CpuPolicies -> Limits]
         /\ \A q \in CpuPolicies : q # job.policy => new[q] = old[q]
         /\ new[job.policy][Writing(job)] = job.limits[Writing(job)]
         /\ \A v \in {"min", "max"} : v # Writing(job) => new[job.policy][v] = old[job.policy][v]
<1> DEFINE p == job.policy
           w == Writing(job)
           l == job.limits
<1>1. /\ p \in CpuPolicies /\ l \in Limits /\ l.min \in Speeds /\ l.max \in Speeds /\ l.min <= l.max
      /\ job.first[p] \in {"min", "max"} /\ l["min"] \in Speeds /\ l["max"] \in Speeds
  BY FieldsOfJob
<1>2. w \in {"min", "max"}
  BY <1>1 DEF Writing
<1> HIDE DEF w, l
<1>3. new = [old EXCEPT ![p] = [old[p] EXCEPT ![w] = l[w]]]
  BY <1>1 DEF w, l, Written
<1>4. [old[p] EXCEPT ![w] = l[w]] \in Limits
  <2>1. old[p] \in Limits /\ l["min"] \in Speeds /\ l["max"] \in Speeds
    BY <1>1 DEF l
  <2>2. CASE w = "min"
    BY <2>1, <2>2, MinimumWritten
  <2>3. CASE w = "max"
    BY <2>1, <2>3, MaximumWritten
  <2> QED
    BY <1>2, <2>2, <2>3
<1>5. new \in [CpuPolicies -> Limits] /\ \A q \in CpuPolicies : q # p => new[q] = old[q]
  BY <1>3, <1>4
<1>6. new[p] = [old[p] EXCEPT ![w] = l[w]]
  BY <1>1, <1>3
<1>7. /\ new[p][w] = l[w]
      /\ \A v \in {"min", "max"} : v # w => new[p][v] = old[p][v]
  <2>1. old[p] \in Limits
    BY <1>1
  <2>2. CASE w = "min"
    <3>1. new[p] = [old[p] EXCEPT !["min"] = l["min"]]
      BY <1>6, <2>2
    <3>2. l["min"] \in Speeds
      BY <1>1 DEF l
    <3> DEFINE is == new[p]
               was == old[p]
               v == l["min"]
    <3>3. was \in Limits /\ v \in Speeds /\ is = [was EXCEPT !["min"] = v]
      BY <2>1, <3>1, <3>2
    <3> HIDE DEF is, was, v
    <3>4. is["min"] = v /\ is["max"] = was["max"]
      BY <3>3 DEF Limits
    <3> QED
      BY <2>2, <3>4 DEF is, was, v
  <2>3. CASE w = "max"
    <3>1. new[p] = [old[p] EXCEPT !["max"] = l["max"]]
      BY <1>6, <2>3
    <3>2. l["max"] \in Speeds
      BY <1>1 DEF l
    <3> DEFINE is == new[p]
               was == old[p]
               v == l["max"]
    <3>3. was \in Limits /\ v \in Speeds /\ is = [was EXCEPT !["max"] = v]
      BY <2>1, <3>1, <3>2
    <3> HIDE DEF is, was, v
    <3>4. is["max"] = v /\ is["min"] = was["min"]
      BY <3>3 DEF Limits
    <3> QED
      BY <2>3, <3>4 DEF is, was, v
  <2> QED
    BY <1>2, <2>2, <2>3
<1> QED
  BY <1>5, <1>7 DEF w, l

(* What one write of a job that is alone leaves behind.                    *)
LEMMA AloneWriteKeeps ==
  ASSUME NEW job \in Jobs, job.stage = "writing", NEW n, n = Onward(job),
         NEW old \in [CpuPolicies -> Limits], NEW new, Underway(old, job),
         Written(job, old, new)
  PROVE  /\ new \in [CpuPolicies -> Limits]
         /\ n.stage = "writing" => Underway(new, n)
         /\ n.stage = "done" => \A q \in CpuPolicies : new[q] = job.limits
         /\ (\A q \in CpuPolicies : old[q].min <= old[q].max) =>
              \A q \in CpuPolicies : new[q].min <= new[q].max
<1> DEFINE p == job.policy
           w == Writing(job)
           l == job.limits
<1>1. /\ p \in CpuPolicies /\ l \in Limits /\ l.min \in Speeds /\ l.max \in Speeds /\ l.min <= l.max
      /\ job.first[p] \in {"min", "max"} /\ l["min"] \in Speeds /\ l["max"] \in Speeds
  BY FieldsOfJob
<1>2. w \in {"min", "max"} /\ (~job.second => w = job.first[p])
      /\ (job.second => {w, job.first[p]} = {"min", "max"})
  BY <1>1 DEF Writing
<1>a. /\ n \in Jobs /\ n.limits = l /\ n.first = job.first
      /\ \/ ~job.second /\ n.second /\ n.policy = job.policy /\ n.stage = "writing"
         \/ /\ job.second /\ n.stage = "done"
            /\ \A q \in CpuPolicies : ~(q > p)
         \/ /\ job.second /\ ~n.second /\ n.stage = "writing" /\ n.policy > job.policy
            /\ \A q \in CpuPolicies : q > p => n.policy <= q
  BY OnwardIs
<1>b. /\ \A q \in CpuPolicies : q < p => old[q] = l
      /\ job.second => old[p][job.first[p]] = l[job.first[p]]
      /\ \A q \in CpuPolicies : q > p \/ (q = p /\ ~job.second) =>
           job.first[q] = FirstWrite(l.min, old[q].max)
  BY DEF Underway
<1>5. new \in [CpuPolicies -> Limits] /\ \A q \in CpuPolicies : q # p => new[q] = old[q]
  BY WriteIs
<1>7. /\ new[p][w] = l[w]
      /\ \A v \in {"min", "max"} : v # w => new[p][v] = old[p][v]
  BY WriteIs
<1> HIDE DEF w, l
<1>8. CASE ~job.second
  <2>1. n.second /\ n.policy = p /\ n.stage = "writing"
    BY <1>8, <1>a
  <2>2. \A q \in CpuPolicies : q < p \/ q > p => q # p
    BY TuningAssumption, <1>1
  <2>3. Underway(new, n)
    BY <1>2, <1>5, <1>7, <1>8, <1>a, <1>b, <2>1, <2>2 DEF Underway
  <2>4. ASSUME old[p].min <= old[p].max
        PROVE  new[p].min <= new[p].max
    <3>1. w = FirstWrite(l.min, old[p].max)
      BY <1>1, <1>2, <1>8, <1>b
    <3>2. old[p].min \in Nat /\ old[p].max \in Nat /\ l.min \in Nat /\ l.max \in Nat
      BY <1>1, TuningAssumption DEF Limits, l
    <3>3. l.min <= l.max
      BY <1>1 DEF l
    <3>4. CASE l.min > old[p].max
      BY <1>7, <2>4, <3>1, <3>2, <3>3, <3>4 DEF FirstWrite
    <3>5. CASE ~(l.min > old[p].max)
      BY <1>7, <2>4, <3>1, <3>2, <3>3, <3>5 DEF FirstWrite
    <3> QED
      BY <3>4, <3>5
  <2> QED
    BY <1>5, <2>1, <2>3, <2>4
<1>9. CASE job.second
  <2>1. new[p] = l
    <3>1. \A v \in {"min", "max"} : new[p][v] = l[v]
      BY <1>2, <1>7, <1>9, <1>b
    <3> QED
      BY <1>1, <1>5, <3>1, SameLimits DEF l
  <2>2. l.min <= l.max
    BY <1>1 DEF l
  <2>3. ASSUME \A q \in CpuPolicies : old[q].min <= old[q].max
        PROVE  \A q \in CpuPolicies : new[q].min <= new[q].max
    BY <1>5, <2>1, <2>2, <2>3
  <2>4. CASE n.stage = "done"
    <3>1. \A q \in CpuPolicies : q < p \/ q = p
      <4>1. \A q \in CpuPolicies : ~(q > p)
        BY <1>9, <1>a, <2>4
      <4>2. p \in Nat /\ \A q \in CpuPolicies : q \in Nat
        BY <1>1, TuningAssumption
      <4> QED
        BY <4>1, <4>2
    <3>2. \A q \in CpuPolicies : q < p => q # p
      BY <1>1, TuningAssumption
    <3>3. \A q \in CpuPolicies : new[q] = l
      BY <1>5, <1>b, <2>1, <3>1, <3>2
    <3> QED
      BY <1>5, <2>3, <2>4, <3>3 DEF l
  <2>5. CASE n.stage = "writing"
    <3>1. /\ ~n.second /\ n.policy > p /\ \A q \in CpuPolicies : q > p => n.policy <= q
      BY <1>9, <1>a, <2>5
    <3>2. n.policy \in CpuPolicies
      BY <1>a, FieldsOfJob
    <3>3. ASSUME NEW q \in CpuPolicies
          PROVE  /\ q < n.policy => q < p \/ q = p
                 /\ q > n.policy \/ q = n.policy => q > p /\ q # p
      <4>1. q \in Nat /\ p \in Nat /\ n.policy \in Nat
        BY <1>1, <3>2, TuningAssumption
      <4> QED
        BY <3>1, <4>1
    <3>4. \A q \in CpuPolicies : q < p => q # p
      BY <1>1, TuningAssumption
    <3>5. \A q \in CpuPolicies : q < n.policy => new[q] = l
      BY <1>5, <1>b, <2>1, <3>3, <3>4
    <3>6. \A q \in CpuPolicies : q > n.policy \/ q = n.policy =>
            job.first[q] = FirstWrite(l.min, new[q].max)
      BY <1>5, <1>b, <3>3
    <3>7. Underway(new, n)
      BY <1>a, <3>1, <3>5, <3>6 DEF Underway
    <3> QED
      BY <1>5, <2>3, <2>5, <3>7
  <2> QED
    BY <1>9, <1>a, <2>4, <2>5
<1> QED
  BY <1>8, <1>9

-----------------------------------------------------------------------------
(* A job writes one of a policy's two files, and goes on to the next       *)
(* policy.                                                                 *)
LEMMA WriteKeeps ==
  ASSUME FrequencyInv, NEW a \in Appliers, WriteFrequency(a)
  PROVE  FrequencyInv'
<1>0. /\ FrequencyTypes /\ AloneWrites /\ CrossedKnown /\ AloneUnderway /\ AloneDone
      /\ RequestsOrdered
  BY DEF FrequencyInv
<1> DEFINE job == jobs[a]
           n == Onward(job)
<1>1. /\ job.stage = "writing" /\ jobs' = [jobs EXCEPT ![a] = n]
      /\ requests' = [requests EXCEPT ![job.policy][Writing(job)] = job.limits[Writing(job)]]
      /\ crossed' = (crossed /\ ~(job.alone /\ n.stage = "done"))
  BY DEF WriteFrequency
<1>2. job \in Jobs /\ job # Idle
  BY <1>0, <1>1, JobIs
<1>3. /\ n \in Jobs /\ n.limits = job.limits /\ n.alone = job.alone
      /\ n.stage \in {"writing", "done"}
  BY <1>1, <1>2, OnwardIs
<1>4. requests \in [CpuPolicies -> Limits]
  BY <1>0 DEF FrequencyTypes
<1>w. Written(job, requests, requests')
  BY <1>1 DEF Written
<1>5. requests' \in [CpuPolicies -> Limits]
  BY <1>2, <1>4, <1>w, WriteIs
<1>6. job.alone => Underway(requests, job)
  BY <1>0, <1>1 DEF AloneUnderway
<1>o. n = Onward(job)
  OBVIOUS
<1> HIDE DEF job, n
<1>v. ASSUME job.alone
      PROVE  /\ n.stage = "writing" => Underway(requests', n)
             /\ n.stage = "done" => \A q \in CpuPolicies : requests'[q] = job.limits
             /\ (\A q \in CpuPolicies : requests[q].min <= requests[q].max) =>
                  \A q \in CpuPolicies : requests'[q].min <= requests'[q].max
  <2> DEFINE new == requests'
  <2>1. Underway(requests, job) /\ Written(job, requests, new)
    BY <1>6, <1>v, <1>w
  <2> HIDE DEF new
  <2>2. /\ n.stage = "writing" => Underway(new, n)
        /\ n.stage = "done" => \A q \in CpuPolicies : new[q] = job.limits
        /\ (\A q \in CpuPolicies : requests[q].min <= requests[q].max) =>
             \A q \in CpuPolicies : new[q].min <= new[q].max
    BY <1>1, <1>2, <1>4, <1>o, <2>1, AloneWriteKeeps
  <2> QED
    BY <2>2 DEF new
<1>7. job.alone =>
        /\ n.stage = "writing" => Underway(requests', n)
        /\ n.stage = "done" => \A q \in CpuPolicies : requests'[q] = job.limits
        /\ (\A q \in CpuPolicies : requests[q].min <= requests[q].max) =>
             \A q \in CpuPolicies : requests'[q].min <= requests'[q].max
  BY <1>v
<1>8. jobs'[a] = n /\ \A b \in Appliers : b # a => jobs'[b] = jobs[b]
  BY <1>0, <1>1 DEF FrequencyTypes, job
<1>9. jobs' \in [Appliers -> Jobs \cup {Idle}]
  BY <1>0, <1>1, <1>3 DEF FrequencyTypes
<1>10. \A b \in Appliers : b # a /\ jobs[b] # Idle => ~jobs[b].alone
  BY <1>0, <1>1 DEF AloneWrites, job
<1>11. job.alone => \A b \in Appliers : b # a => jobs[b].stage # "writing"
  BY <1>0, <1>2 DEF AloneWrites, job
<1>12. \A b \in Appliers : jobs[b].stage \in {"writing", "done", "failed"} => jobs[b] # Idle
  BY <1>0, JobIs
<1>13. FrequencyTypes'
  <2>1. crossed' \in BOOLEAN
    BY <1>1
  <2> QED
    BY <1>5, <1>9, <2>1 DEF FrequencyTypes
<1>14. AloneWrites'
  <2> SUFFICES ASSUME NEW x \in Appliers, NEW y \in Appliers, x # y,
                      jobs'[x] # Idle, jobs'[x].alone
               PROVE  jobs'[y].stage # "writing"
    BY DEF AloneWrites
  <2>1. x = a
    BY <1>8, <1>10
  <2> QED
    BY <1>3, <1>8, <1>11, <2>1
<1>15. CrossedKnown'
  <2> SUFFICES ASSUME ~crossed', NEW b \in Appliers, jobs'[b].stage = "writing"
               PROVE  jobs'[b].alone
    BY DEF CrossedKnown
  <2>1. CASE ~crossed
    <3>1. job.alone /\ \A c \in Appliers : jobs[c].stage = "writing" => jobs[c].alone
      BY <1>0, <1>1, <2>1 DEF CrossedKnown, job
    <3> QED
      BY <1>3, <1>8, <3>1
  <2>2. CASE crossed
    <3>1. job.alone /\ n.stage = "done"
      BY <1>1, <2>2
    <3>2. b # a
      BY <1>8, <3>1
    <3> QED
      BY <1>8, <1>11, <3>1, <3>2
  <2> QED
    BY <2>1, <2>2
<1>16. ASSUME NEW b \in Appliers, jobs'[b].stage \in {"writing", "done"}, jobs'[b].alone
       PROVE  b = a
  BY <1>8, <1>10, <1>12, <1>16
<1>17. AloneUnderway'
  <2> SUFFICES ASSUME NEW b \in Appliers, jobs'[b].stage = "writing", jobs'[b].alone
               PROVE  Underway(requests', jobs'[b])
    BY DEF AloneUnderway
  <2>1. b = a
    BY <1>16
  <2> QED
    BY <1>3, <1>7, <1>8, <2>1
<1>18. AloneDone'
  <2> SUFFICES ASSUME NEW b \in Appliers, jobs'[b].stage = "done", jobs'[b].alone
               PROVE  \A p \in CpuPolicies : requests'[p] = jobs'[b].limits
    BY DEF AloneDone
  <2>1. b = a
    BY <1>16
  <2> QED
    BY <1>3, <1>7, <1>8, <2>1
<1>19. RequestsOrdered'
  <2> SUFFICES ASSUME ~crossed'
               PROVE  \A p \in CpuPolicies : requests'[p].min <= requests'[p].max
    BY DEF RequestsOrdered
  <2>1. CASE ~crossed
    <3>1. job.alone
      BY <1>0, <1>1, <2>1 DEF CrossedKnown, job
    <3>2. \A q \in CpuPolicies : requests[q].min <= requests[q].max
      BY <1>0, <2>1 DEF RequestsOrdered
    <3> QED
      BY <1>7, <3>1, <3>2
  <2>2. CASE crossed
    <3>1. job.alone /\ n.stage = "done"
      BY <1>1, <2>2
    <3>2. job.limits.min <= job.limits.max
      BY <1>2, FieldsOfJob
    <3> QED
      BY <1>7, <3>1, <3>2
  <2> QED
    BY <2>1, <2>2
<1> QED
  BY <1>13, <1>14, <1>15, <1>17, <1>18, <1>19 DEF FrequencyInv

(* A job that fails, and one whose answer is given, claim nothing more.    *)
LEMMA StopKeeps ==
  ASSUME FrequencyInv, NEW a \in Appliers, FrequencyFails(a) \/ FrequencyOver(a)
  PROVE  FrequencyInv'
<1>0. /\ FrequencyTypes /\ AloneWrites /\ CrossedKnown /\ AloneUnderway /\ AloneDone
      /\ RequestsOrdered
  BY DEF FrequencyInv
<1>1. /\ jobs[a].stage \in {"writing", "done", "failed"}
      /\ requests' = requests /\ crossed' = crossed
      /\ jobs' = [jobs EXCEPT ![a] = Idle]
           \/ jobs' = [jobs EXCEPT ![a] = [jobs[a] EXCEPT !.stage = "failed"]]
  BY DEF FrequencyFails, FrequencyOver
<1>2. jobs[a] \in Jobs /\ jobs[a] # Idle
  BY <1>0, <1>1, JobIs
<1> DEFINE n == jobs'[a]
<1>3. \/ n = Idle /\ n.stage = "idle"
      \/ n \in Jobs /\ n.stage = "failed" /\ n.alone = jobs[a].alone
  <2>1. CASE jobs' = [jobs EXCEPT ![a] = Idle]
    BY <1>0, <2>1 DEF FrequencyTypes, Idle
  <2>2. CASE jobs' = [jobs EXCEPT ![a] = [jobs[a] EXCEPT !.stage = "failed"]]
    <3>1. n = [jobs[a] EXCEPT !.stage = "failed"]
      BY <1>0, <2>2 DEF FrequencyTypes
    <3> QED
      BY <1>2, <3>1 DEF Jobs
  <2> QED
    BY <1>1, <2>1, <2>2
<1>4. \A b \in Appliers : b # a => jobs'[b] = jobs[b]
  BY <1>0, <1>1 DEF FrequencyTypes
<1>5. jobs' = [b \in Appliers |-> IF b = a THEN n ELSE jobs[b]]
  BY <1>0, <1>1 DEF FrequencyTypes
<1>6. ~(n.stage \in {"writing", "done"}) /\ (n # Idle /\ n.alone => jobs[a].alone)
  BY <1>3
<1>7. n \in Jobs \cup {Idle}
  BY <1>3
<1> HIDE DEF n
<1>8. jobs' \in [Appliers -> Jobs \cup {Idle}]
  BY <1>0, <1>5, <1>7 DEF FrequencyTypes
<1>9. FrequencyTypes'
  BY <1>0, <1>1, <1>8 DEF FrequencyTypes
<1>10. jobs'[a] = n
  BY DEF n
<1>11. AloneWrites'
  <2> SUFFICES ASSUME NEW x \in Appliers, NEW y \in Appliers, x # y,
                      jobs'[x] # Idle, jobs'[x].alone
               PROVE  jobs'[y].stage # "writing"
    BY DEF AloneWrites
  <2>1. jobs[x] # Idle /\ jobs[x].alone
    BY <1>2, <1>4, <1>6, <1>10
  <2>2. jobs[y].stage # "writing"
    BY <1>0, <2>1 DEF AloneWrites
  <2> QED
    BY <1>4, <1>6, <1>10, <2>2
<1>12. CrossedKnown'
  BY <1>0, <1>1, <1>4, <1>6, <1>10 DEF CrossedKnown
<1>13. AloneUnderway'
  BY <1>0, <1>1, <1>4, <1>6, <1>10 DEF AloneUnderway
<1>14. AloneDone'
  BY <1>0, <1>1, <1>4, <1>6, <1>10 DEF AloneDone
<1>15. RequestsOrdered'
  BY <1>0, <1>1 DEF RequestsOrdered
<1> QED
  BY <1>9, <1>11, <1>12, <1>13, <1>14, <1>15 DEF FrequencyInv

(* Every step of the specification keeps the invariant.                    *)
LEMMA FrequencyKeeps == FrequencyInv /\ [TuningNext]_tuningVars => FrequencyInv'
<1> SUFFICES ASSUME FrequencyInv, [TuningNext]_tuningVars PROVE FrequencyInv'
  OBVIOUS
<1>1. CASE FrequencyNext
  BY <1>1, StartKeeps, WriteKeeps, StopKeeps DEF FrequencyNext
<1>2. CASE UNCHANGED frequency
  BY <1>2 DEF frequency, FrequencyInv, FrequencyTypes, AloneWrites, CrossedKnown,
     AloneUnderway, AloneDone, RequestsOrdered
<1>3. MailboxNext(OffsetPlans \cup LimitPlans) => UNCHANGED frequency
  BY DEF MailboxNext, StartAttempt, WriteRegister
<1> QED
  BY <1>1, <1>2, <1>3 DEF TuningNext, tuningVars

(* A job that has written all policies alone: the window says its limits.  *)
LEMMA WindowSays ==
  ASSUME FrequencyTypes, NEW l \in Ordered, \A p \in CpuPolicies : requests[p] = l
  PROVE  Window.min = l.min /\ Window.max = l.max
<1>a. l.min <= l.max /\ l.min \in Speeds /\ l.max \in Speeds
  BY DEF Ordered, Limits
<1>b. \A s \in Speeds : s \in Int
  BY TuningAssumption
<1>1. l.min \in Int /\ l.max \in Int /\ l.min <= l.max /\ l.min \in Speeds /\ l.max \in Speeds
  BY <1>a, <1>b
<1>2. \A p \in CpuPolicies : Shown(p) = [min |-> l.min, max |-> l.max]
  BY <1>1, MinOfTwo DEF Shown
<1>3. {Shown(p).min : p \in CpuPolicies} = {l.min} /\ {Shown(p).max : p \in CpuPolicies} = {l.max}
  <2>1. \A p \in CpuPolicies : Shown(p).min = l.min /\ Shown(p).max = l.max
    BY <1>2
  <2>2. PICK p \in CpuPolicies : TRUE
    BY TuningAssumption
  <2> QED
    BY <2>1, <2>2
<1> DEFINE upper == Max(Speeds)
<1>4. upper \in Speeds /\ \A s \in Speeds : s <= upper
  BY TuningAssumption DEF Max
<1> HIDE DEF upper
<1>5. upper \in Int /\ l.max <= upper
  BY <1>1, <1>4, <1>b
<1>6. Max({l.min}) = l.min /\ Min({l.max}) = l.max
  BY <1>1, OnlyOne
<1>7. Min({l.max, upper}) = l.max
  BY <1>1, <1>5, MinOfTwo
<1>8. Max({l.min, l.max}) = l.max
  BY <1>1, MaxOfTwo
<1>9. Window.min = l.min
  BY <1>3, <1>6 DEF Window
<1>10. Window.max = Max({l.min, Min({l.max, upper})})
  BY <1>3, <1>6 DEF Window, upper
<1> QED
  BY <1>7, <1>8, <1>9, <1>10

(* The first part of TuningTrue.                                           *)
LEMMA FrequencyIsOrdered == FrequencyInv => LimitsOrdered
<1> SUFFICES ASSUME FrequencyInv PROVE LimitsOrdered
  OBVIOUS
<1>0. FrequencyTypes /\ AloneDone /\ RequestsOrdered
  BY DEF FrequencyInv
<1>1. ~crossed => \A p \in CpuPolicies : requests[p].min <= requests[p].max
  BY <1>0 DEF RequestsOrdered
<1>2. ASSUME NEW a \in Appliers, jobs[a].stage = "done", jobs[a].alone
      PROVE  /\ \A p \in CpuPolicies : requests[p] = jobs[a].limits
             /\ Window.min = jobs[a].limits.min /\ Window.max = jobs[a].limits.max
  <2>1. \A p \in CpuPolicies : requests[p] = jobs[a].limits
    BY <1>0, <1>2 DEF AloneDone
  <2>2. jobs[a].limits \in Ordered
    BY <1>0, <1>2, JobIs DEF Jobs
  <2> QED
    BY <1>0, <2>1, <2>2, WindowSays
<1> QED
  BY <1>1, <1>2 DEF LimitsOrdered

-----------------------------------------------------------------------------
(* What the mailbox and the power limits are asked for, and an attempt at  *)
(* it.                                                                     *)
Plans == OffsetPlans \cup LimitPlans

Attempts == [stage : {"writing", "ok", "refused", "failed"}, plan : Plans,
             todo : SUBSET Registers, fault : BOOLEAN]

(* What the registers and the attempt hold.                                *)
MailboxTypes ==
  /\ regulator \in [value : [Registers -> Int], range : Ranges]
  /\ attempt = [stage |-> "none"] \/ attempt \in Attempts

(* The 11 bits of a voltage register, and those that an offset becomes.    *)
Words == {word \in Nat : word < 2048}
Packed(offset) == offset % 2048

(* A limit read back may differ from the one written by a rounding.        *)
Near(difference) == difference \in -Tolerance..Tolerance

(* A voltage register holds the 11 bits of an offset.                      *)
ElevenBits == \A r \in Voltages : regulator.value[r] \in Words

(* Whatever has been written was valid.                                    *)
WasValid == attempt.stage \in {"writing", "ok", "failed"} => Valid(attempt.plan)

(* What is left to write is part of the plan, and nothing once all is      *)
(* reported written.                                                       *)
LeftToWrite ==
  /\ attempt.stage # "none" => attempt.todo \subseteq Concerned(attempt.plan)
  /\ attempt.stage = "ok" => attempt.todo = {}

(* What is not left to write is as the plan wants it, from the first write *)
(* to the report.                                                          *)
RestHolds ==
  attempt.stage \in {"writing", "ok"} =>
    \A r \in Concerned(attempt.plan) \ attempt.todo :
      Holds(attempt.plan, r, regulator.value[r])

(* Only a fault makes an attempt fail.                                     *)
FaultKnown == attempt.stage = "failed" => attempt.fault

(* The inductive invariant of the offsets and limits.                      *)
MailboxInv ==
  /\ MailboxTypes /\ ElevenBits /\ WasValid /\ LeftToWrite /\ RestHolds /\ FaultKnown

(* An offset fits the 11 bits and comes back from them as it was, and no   *)
(* other word reads back as it.                                            *)
LEMMA OffsetFits ==
  ASSUME NEW mv \in -250..0
  PROVE  /\ Packed(Encoded(mv)) \in Words /\ Decoded(Packed(Encoded(mv))) = Encoded(mv)
         /\ \A word \in Words : Decoded(word) = Encoded(mv) => word = Packed(Encoded(mv))
<1> DEFINE e == Encoded(mv)
<1>1. e \in Int /\ -256 <= e /\ e <= 0
  BY DEF Encoded
<1> HIDE DEF e
<1>2. Packed(e) = IF e < 0 THEN e + 2048 ELSE e
  BY <1>1 DEF Packed
<1>3. Packed(e) \in Words /\ Decoded(Packed(e)) = e
  BY <1>1, <1>2 DEF Decoded, Words
<1>4. \A word \in Words : Decoded(word) = e => word = Packed(e)
  BY <1>1, <1>2 DEF Decoded, Words
<1> QED
  BY <1>3, <1>4 DEF e

(* The registers of a plan and what it asks of them.                       *)
LEMMA RegistersOf ==
  ASSUME NEW plan \in Plans, NEW r \in Concerned(plan)
  PROVE  /\ r \in Registers
         /\ plan.kind = "offsets" =>
              r \in Voltages /\ r.name \in {"core", "cache"} /\ plan[r.name] \in Int
         /\ plan.kind # "offsets" =>
              /\ plan.kind = "limits" /\ r \notin Voltages
              /\ r.name \in {"pl1", "pl2", "enabled"}
              /\ r.name # "enabled" => plan[r.name] \in Int
<1>1. CASE plan.kind = "offsets"
  <2>1. r \in Voltages /\ r.name \in {"core", "cache"}
    BY <1>1 DEF Concerned, Voltages
  <2>2. plan \in OffsetPlans
    BY <1>1 DEF Plans, LimitPlans
  <2>3. plan["core"] \in Offsets /\ plan["cache"] \in Offsets
    BY <2>2 DEF OffsetPlans
  <2>4. plan[r.name] \in Int
    BY <2>1, <2>3, TuningAssumption
  <2> QED
    BY <1>1, <2>1, <2>4 DEF Registers
<1>2. CASE plan.kind # "offsets"
  <2>1. r \in PowerFiles /\ r.name \in {"pl1", "pl2", "enabled"}
    BY <1>2 DEF Concerned, PowerFiles
  <2>2. plan \in LimitPlans
    BY <1>2 DEF Plans, OffsetPlans
  <2>3. plan["pl1"] \in Milliwatts /\ plan["pl2"] \in Milliwatts /\ plan.kind = "limits"
    BY <2>2 DEF LimitPlans
  <2>4. \A milliwatts \in Milliwatts : milliwatts \in Int
    BY TuningAssumption
  <2>5. r.name # "enabled" => plan[r.name] \in Int
    BY <2>1, <2>3, <2>4
  <2>6. r \notin Voltages
    BY <2>1 DEF Voltages
  <2> QED
    BY <1>2, <2>1, <2>3, <2>5, <2>6 DEF Registers
<1> QED
  BY <1>1, <1>2

(* A limit that the firmware rounds is still within the tolerance.         *)
LEMMA RoundedFits ==
  ASSUME NEW exact \in Int, NEW had \in Int, NEW word \in {had, exact, exact - Tolerance}
  PROVE  word \in Int /\ (word = had \/ Near(word - exact))
<1>1. Tolerance \in Nat
  BY DEF Tolerance
<1>2. word \in Int
  BY <1>1
<1>3. CASE word = exact
  BY <1>1, <1>3 DEF Near
<1>4. CASE word = exact - Tolerance
  BY <1>1, <1>4 DEF Near
<1> QED
  BY <1>2, <1>3, <1>4

(* What the firmware may leave in a register: the old word, or one that    *)
(* reads back; and what reads back is as the plan wants it.                *)
LEMMA TakenFits ==
  ASSUME NEW plan \in Plans, Valid(plan), NEW r \in Concerned(plan),
         MailboxTypes, ElevenBits, NEW word \in Taken(plan, r)
  PROVE  /\ word \in Int
         /\ r \in Voltages => word \in Words
         /\ word = regulator.value[r] \/ ReadsBack(plan, r, word)
         /\ ReadsBack(plan, r, word) => Holds(plan, r, word)
<1>0. r \in Registers /\ regulator.value[r] \in Int
  BY RegistersOf DEF MailboxTypes
<1>1. CASE plan.kind = "offsets"
  <2>1. r \in Voltages /\ r.name \in {"core", "cache"}
    BY <1>1, RegistersOf
  <2>2. plan[r.name] \in -250..0
    BY <1>1, <2>1 DEF Valid
  <2> DEFINE e == Encoded(plan[r.name])
  <2>3. /\ Packed(e) \in Words /\ Decoded(Packed(e)) = e
        /\ \A raw \in Words : Decoded(raw) = e => raw = Packed(e)
    BY <2>2, OffsetFits
  <2>4. Word(plan, r) = Packed(e)
    BY <1>1 DEF Word, Packed
  <2>5. /\ ReadsBack(plan, r, word) <=> Decoded(word) = e
        /\ Holds(plan, r, word) <=> word = Packed(e)
    BY <1>1 DEF ReadsBack, Holds, Packed
  <2>6. word \in {regulator.value[r], Packed(e)}
    BY <2>1, <2>4 DEF Taken
  <2>7. regulator.value[r] \in Words
    BY <2>1 DEF ElevenBits
  <2> HIDE DEF e
  <2>8. word \in Words
    BY <2>3, <2>6, <2>7
  <2>9. word = regulator.value[r] \/ Decoded(word) = e
    BY <2>3, <2>6
  <2>10. Decoded(word) = e => word = Packed(e)
    BY <2>3, <2>8
  <2>11. word \in Int
    BY <2>8 DEF Words
  <2> QED
    BY <2>5, <2>8, <2>9, <2>10, <2>11
<1>2. CASE plan.kind # "offsets" /\ r.name # "enabled"
  <2>1. r.name \in {"pl1", "pl2"} /\ plan[r.name] \in Int /\ r \notin Voltages
    BY <1>2, RegistersOf
  <2> DEFINE exact == plan[r.name] * 1000
             had == regulator.value[r]
  <2>2. exact \in Int /\ had \in Int
    BY <1>0, <2>1
  <2>3. word \in {had, exact, exact - Tolerance}
    BY <1>2, <2>1 DEF Taken, Word
  <2>4. /\ ReadsBack(plan, r, word) <=> Near(word - exact)
        /\ Holds(plan, r, word) <=> Near(word - exact)
    BY <1>2 DEF ReadsBack, Holds, Near
  <2> HIDE DEF exact
  <2>5. word \in Int /\ (word = had \/ Near(word - exact))
    BY <2>2, <2>3, RoundedFits
  <2> QED
    BY <2>1, <2>4, <2>5
<1>3. CASE plan.kind # "offsets" /\ r.name = "enabled"
  <2>1. r \notin Voltages
    BY <1>3, RegistersOf
  <2>2. word \in {regulator.value[r], 1}
    BY <1>3 DEF Taken, Word
  <2>3. /\ ReadsBack(plan, r, word) <=> word = 1
        /\ Holds(plan, r, word) <=> word \in {NoFile, 1}
    BY <1>3 DEF ReadsBack, Holds
  <2> QED
    BY <1>0, <2>1, <2>2, <2>3
<1> QED
  BY <1>1, <1>2, <1>3

(* At the start nothing is attempted.                                      *)
LEMMA MailboxStarts == TuningInit => MailboxInv
<1> SUFFICES ASSUME TuningInit PROVE MailboxInv
  OBVIOUS
<1>1. PICK switches \in [PowerPackages -> {NoFile, 0, 1}], range \in Ranges :
        regulator = [value |-> [r \in Registers |->
                                  IF r.name = "enabled" THEN switches[r.package] ELSE 0],
                     range |-> range]
  BY DEF TuningInit
<1>2. attempt = [stage |-> "none"] /\ attempt.stage = "none"
  BY DEF TuningInit
<1>3. \A r \in Registers : r.name = "enabled" => switches[r.package] \in Int
  <2> SUFFICES ASSUME NEW r \in Registers, r.name = "enabled"
               PROVE  switches[r.package] \in Int
    OBVIOUS
  <2>1. r.package \in PowerPackages
    BY DEF Registers, Voltages, PowerFiles
  <2> QED
    BY <2>1 DEF NoFile
<1>4. regulator.value = [r \in Registers |->
                           IF r.name = "enabled" THEN switches[r.package] ELSE 0]
      /\ regulator.range \in Ranges
  BY <1>1
<1>5. regulator.value \in [Registers -> Int]
  BY <1>3, <1>4
<1>6. MailboxTypes
  BY <1>1, <1>2, <1>4, <1>5 DEF MailboxTypes
<1>7. ElevenBits
  <2> SUFFICES ASSUME NEW r \in Voltages PROVE regulator.value[r] \in Words
    BY DEF ElevenBits
  <2>1. r \in Registers /\ r.name # "enabled"
    BY DEF Registers, Voltages
  <2>2. regulator.value[r] = 0
    BY <1>4, <2>1
  <2> QED
    BY <2>2 DEF Words
<1> QED
  BY <1>2, <1>6, <1>7 DEF MailboxInv, WasValid, LeftToWrite, RestHolds, FaultKnown

(* An attempt starts, and is refused when its plan is not valid.  What it  *)
(* does not write is a switch that needs no write.                         *)
LEMMA AttemptKeeps ==
  ASSUME MailboxInv, NEW plan \in Plans, StartAttempt(plan)
  PROVE  MailboxInv'
<1>1. PICK answers \in BOOLEAN :
        attempt' = [stage |-> IF Valid(plan) /\ answers /\ Probes(plan) THEN "writing"
                              ELSE "refused",
                    plan |-> plan, todo |-> Targets(plan), fault |-> FALSE]
  BY DEF StartAttempt
<1>2. regulator' = regulator
  BY DEF StartAttempt
<1>3. /\ attempt'.plan = plan /\ attempt'.todo = Targets(plan) /\ attempt'.fault = FALSE
      /\ attempt'.stage \in {"writing", "refused"}
      /\ attempt'.stage = "writing" => Valid(plan)
  BY <1>1
<1>4. Targets(plan) \subseteq Concerned(plan) /\ Targets(plan) \in SUBSET Registers
  BY RegistersOf DEF Targets
<1>5. attempt' \in Attempts
  BY <1>1, <1>4 DEF Attempts
<1>6. MailboxTypes' /\ ElevenBits'
  BY <1>2, <1>5 DEF MailboxInv, MailboxTypes, ElevenBits
<1>7. RestHolds'
  <2>1. ASSUME NEW r \in Concerned(plan), r \notin Targets(plan)
        PROVE  Holds(plan, r, regulator.value[r])
    <3>1. r.name = "enabled" /\ regulator.value[r] \in {NoFile, 1}
      BY <2>1 DEF Targets
    <3>2. plan.kind # "offsets"
      BY <3>1, RegistersOf
    <3> QED
      BY <3>1, <3>2 DEF Holds
  <2> QED
    BY <1>2, <1>3, <2>1 DEF RestHolds
<1>8. WasValid' /\ LeftToWrite' /\ FaultKnown'
  BY <1>3, <1>4 DEF WasValid, LeftToWrite, FaultKnown
<1> QED
  BY <1>6, <1>7, <1>8 DEF MailboxInv

(* A register is written and read back: the attempt goes on, is done, or   *)
(* has failed.                                                             *)
LEMMA RegisterKeeps ==
  ASSUME MailboxInv, WriteRegister
  PROVE  MailboxInv'
<1>0. /\ MailboxTypes /\ ElevenBits /\ WasValid /\ LeftToWrite /\ RestHolds /\ FaultKnown
  BY DEF MailboxInv
<1> DEFINE plan == attempt.plan
<1>1. attempt.stage = "writing" /\ Valid(plan)
  BY <1>0 DEF WriteRegister, WasValid
<1>2. attempt \in Attempts
  BY <1>0, <1>1 DEF MailboxTypes
<1>3. plan \in Plans /\ attempt.todo \subseteq Concerned(plan) /\ attempt.todo \in SUBSET Registers
  BY <1>0, <1>1, <1>2 DEF Attempts, LeftToWrite
<1>4. PICK r \in attempt.todo : \E word \in Taken(plan, r), answers \in BOOLEAN :
        /\ regulator' = [regulator EXCEPT !.value[r] = word]
        /\ attempt' = [attempt EXCEPT
             !.stage = IF ~answers \/ ~ReadsBack(plan, r, word) THEN "failed"
                       ELSE IF attempt.todo = {r} THEN "ok" ELSE "writing",
             !.todo = @ \ {r},
             !.fault = ~answers \/ word = regulator.value[r]]
  BY DEF WriteRegister
<1>5. PICK word \in Taken(plan, r), answers \in BOOLEAN :
        /\ regulator' = [regulator EXCEPT !.value[r] = word]
        /\ attempt' = [attempt EXCEPT
             !.stage = IF ~answers \/ ~ReadsBack(plan, r, word) THEN "failed"
                       ELSE IF attempt.todo = {r} THEN "ok" ELSE "writing",
             !.todo = attempt.todo \ {r},
             !.fault = ~answers \/ word = regulator.value[r]]
  BY <1>4
<1>6. /\ attempt' \in Attempts /\ attempt'.plan = plan
      /\ attempt'.stage = IF ~answers \/ ~ReadsBack(plan, r, word) THEN "failed"
                          ELSE IF attempt.todo = {r} THEN "ok" ELSE "writing"
      /\ attempt'.todo = attempt.todo \ {r}
      /\ attempt'.fault = (~answers \/ word = regulator.value[r])
  BY <1>2, <1>5 DEF Attempts
<1> HIDE DEF plan
<1>7. r \in Concerned(plan) /\ r \in Registers
  BY <1>3
<1>8. /\ word \in Int
      /\ r \in Voltages => word \in Words
      /\ word = regulator.value[r] \/ ReadsBack(plan, r, word)
      /\ ReadsBack(plan, r, word) => Holds(plan, r, word)
  BY <1>0, <1>1, <1>3, <1>7, TakenFits
<1>9. /\ regulator'.value[r] = word
      /\ \A q \in Registers : q # r => regulator'.value[q] = regulator.value[q]
      /\ regulator' \in [value : [Registers -> Int], range : Ranges]
  BY <1>0, <1>5, <1>7, <1>8 DEF MailboxTypes
<1>10. MailboxTypes'
  BY <1>6, <1>9 DEF MailboxTypes
<1>11. ElevenBits'
  <2>1. \A q \in Voltages : q \in Registers
    BY DEF Registers
  <2> QED
    BY <1>0, <1>8, <1>9, <2>1 DEF ElevenBits
<1>12. WasValid'
  BY <1>1, <1>6 DEF WasValid
<1>13. LeftToWrite'
  BY <1>3, <1>6 DEF LeftToWrite
<1>14. RestHolds'
  <2> SUFFICES ASSUME attempt'.stage \in {"writing", "ok"}, NEW q \in Concerned(plan),
                      q \notin attempt'.todo
               PROVE  Holds(plan, q, regulator'.value[q])
    BY <1>6 DEF RestHolds
  <2>1. CASE q = r
    <3>1. ReadsBack(plan, r, word)
      BY <1>6
    <3> QED
      BY <1>8, <1>9, <2>1, <3>1
  <2>2. CASE q # r
    <3>1. q \notin attempt.todo
      BY <1>6, <2>2
    <3>2. Holds(plan, q, regulator.value[q])
      BY <1>0, <1>1, <3>1 DEF RestHolds, plan
    <3>3. q \in Registers
      BY <1>3, RegistersOf
    <3> QED
      BY <1>9, <2>2, <3>2, <3>3
  <2> QED
    BY <2>1, <2>2
<1>15. FaultKnown'
  BY <1>6, <1>8 DEF FaultKnown
<1> QED
  BY <1>10, <1>11, <1>12, <1>13, <1>14, <1>15 DEF MailboxInv

(* Every step of the specification keeps the invariant.                    *)
LEMMA MailboxKeeps == MailboxInv /\ [TuningNext]_tuningVars => MailboxInv'
<1> SUFFICES ASSUME MailboxInv, [TuningNext]_tuningVars PROVE MailboxInv'
  OBVIOUS
<1>1. CASE MailboxNext(OffsetPlans \cup LimitPlans)
  BY <1>1, AttemptKeeps, RegisterKeeps DEF MailboxNext, Plans
<1>2. CASE UNCHANGED mailbox
  BY <1>2 DEF mailbox, MailboxInv, MailboxTypes, ElevenBits, WasValid, LeftToWrite, RestHolds,
     FaultKnown
<1>3. FrequencyNext => UNCHANGED mailbox
  BY DEF FrequencyNext, StartFrequency, WriteFrequency, FrequencyFails, FrequencyOver
<1> QED
  BY <1>1, <1>2, <1>3 DEF TuningNext, tuningVars

(* The second part of TuningTrue.                                          *)
LEMMA MailboxTells == MailboxInv => AppliedAsReported
<1> SUFFICES ASSUME MailboxInv PROVE AppliedAsReported
  OBVIOUS
<1>1. LeftToWrite /\ RestHolds /\ FaultKnown
  BY DEF MailboxInv
<1> QED
  BY <1>1 DEF LeftToWrite, RestHolds, FaultKnown, AppliedAsReported

(* What the daemon reports of frequency limits, power limits and voltage   *)
(* offsets is what the hardware is in: the two inductive invariants        *)
(* together.                                                               *)
THEOREM TuningIsTrue == TuningSpec => []TuningTrue
<1>1. TuningInit => FrequencyInv /\ MailboxInv
  BY FrequencyStarts, MailboxStarts
<1>2. (FrequencyInv /\ MailboxInv) /\ [TuningNext]_tuningVars => (FrequencyInv /\ MailboxInv)'
  BY FrequencyKeeps, MailboxKeeps
<1>3. FrequencyInv /\ MailboxInv => TuningTrue
  BY FrequencyIsOrdered, MailboxTells DEF TuningTrue
<1> QED
  BY <1>1, <1>2, <1>3, PTL DEF TuningSpec
=============================================================================
