--------------------------- MODULE FanDriverProofs ---------------------------
(***************************************************************************)
(* Proofs about FanDriver, for every set of fans and speeds, every board   *)
(* and every choice of the delays that DriverAssumption allows.            *)
(***************************************************************************)
EXTENDS FanDriver, TLAPS

(* Ticks until the scheduled work is due; none once it has been dequeued.  *)
Due == IF timer = Idle THEN 0 ELSE timer

(* A restore that is still owed behind MAX or MANUAL was overtaken.        *)
OwedIsOvertaken == pending /\ mode # AUTO => overtaken

(* The age of the firmware's state and the time to the next renewal add up *)
(* to at most the keep-alive delay and the retries granted since.          *)
RenewalMargin ==
  mode # AUTO /\ ~overtaken /\ Active(fw) => fw.age + Due <= Delay + late

IInv ==
  /\ TypeOK
  /\ RefreshScheduled
  /\ RestoreScheduled
  /\ CommittedTargets
  /\ OwedIsOvertaken
  /\ RenewalMargin

(* What a transaction leaves of the firmware's timeout: it restarts it, or *)
(* it does not set anything that was not set before.                       *)
Gentle(f, g) == g.age = 0 \/ (g.age = f.age /\ (Active(g) => Active(f)))

-----------------------------------------------------------------------------
(* The trigger restarts the firmware's timeout and keeps the targets.      *)
LEMMA TriggeredFirmware ==
  ASSUME NEW f \in Firmware
  PROVE  /\ Triggered(f) \in Firmware
         /\ Triggered(f).age = 0
         /\ Triggered(f).speed = f.speed
  BY DriverAssumption DEF Triggered, Firmware

(* A failed transaction reports failure and left off at one of its steps.  *)
LEMMA FailuresOutcome ==
  ASSUME NEW S, NEW u \in Failures(S)
  PROVE  u.ok = FALSE /\ u.fw \in S
<1>1. PICK f \in S : u = [ok |-> FALSE, fw |-> f]
  BY DEF Failures
<1>2. QED
  BY <1>1

(* Every outcome of the MAX transaction keeps the targets; success renews. *)
LEMMA ApplyMaxOutcome ==
  ASSUME board \in Boards, NEW f \in Firmware, NEW u \in ApplyMax(f)
  PROVE  /\ u.fw \in Firmware /\ u.ok \in BOOLEAN
         /\ Gentle(f, u.fw)
         /\ u.ok => u.fw.age = 0
         /\ u.fw.speed = f.speed
<1> DEFINE g == IF board.control THEN Triggered(f) ELSE f
<1>1. /\ g \in Firmware /\ g.speed = f.speed
      /\ g = f \/ g.age = 0
  BY TriggeredFirmware
<1>2. u = Success([user |-> g.user, max |-> TRUE, speed |-> g.speed, age |-> 0]) \/ u \in Failures({f, g})
  BY DEF ApplyMax
<1>3. CASE u = Success([user |-> g.user, max |-> TRUE, speed |-> g.speed, age |-> 0])
  BY <1>1, <1>3, DriverAssumption DEF Success, Firmware, Gentle
<1>4. CASE u \in Failures({f, g})
  <2>1. u.ok = FALSE /\ u.fw \in {f, g}
    BY <1>4, FailuresOutcome, Zenon
  <2>2. QED
    BY <2>1, <1>1 DEF Gentle
<1>5. QED
  BY <1>2, <1>3, <1>4

(* The MANUAL transaction hands the targets over only when it succeeds.    *)
LEMMA FanSpeedSetOutcome ==
  ASSUME NEW f \in Firmware, NEW p \in [Fans -> Speeds], NEW u \in FanSpeedSet(f, p)
  PROVE  /\ u.fw \in Firmware /\ u.ok \in BOOLEAN
         /\ Gentle(f, u.fw)
         /\ u.ok => u.fw.age = 0 /\ u.fw.speed = p
         /\ ~u.ok => u.fw.speed = f.speed
<1> DEFINE off == [Triggered(f) EXCEPT !.max = FALSE]
<1>1. off \in Firmware /\ off.age = 0 /\ off.speed = f.speed
  BY TriggeredFirmware DEF Firmware
<1>2. u = Success([off EXCEPT !.speed = p]) \/ u \in Failures({f, Triggered(f), off})
  BY DEF FanSpeedSet
<1>3. CASE u = Success([off EXCEPT !.speed = p])
  BY <1>1, <1>3 DEF Success, Firmware, Gentle
<1>4. CASE u \in Failures({f, Triggered(f), off})
  <2>1. u.ok = FALSE /\ u.fw \in {f, Triggered(f), off}
    BY <1>4, FailuresOutcome, Zenon
  <2>2. QED
    BY <2>1, <1>1, TriggeredFirmware DEF Gentle
<1>5. QED
  BY <1>2, <1>3, <1>4

(* Restoring AUTO only ever clears what was set and keeps the targets.     *)
LEMMA RestoreOutcome ==
  ASSUME NEW f \in Firmware, NEW u \in RestoreAutoFans(f)
  PROVE  /\ u.fw \in Firmware /\ u.ok \in BOOLEAN
         /\ Gentle(f, u.fw)
         /\ u.fw.speed = f.speed
<1> DEFINE off == [f EXCEPT !.max = FALSE]
<1>1. /\ off \in Firmware /\ off.age = f.age /\ off.speed = f.speed
      /\ Active(off) => Active(f)
  BY DEF Firmware, Active
<1> DEFINE out == [off EXCEPT !.user = FALSE]
<1>2. /\ out \in Firmware /\ out.age = f.age /\ out.speed = f.speed
      /\ Active(out) => Active(f)
  BY <1>1 DEF Firmware, Active
<1>3. u = Success(out) \/ u = Success(off) \/ u \in Failures({f, off})
  BY DEF RestoreAutoFans, Failures
<1>4. CASE u = Success(out)
  BY <1>2, <1>4 DEF Success, Gentle
<1>5. CASE u = Success(off)
  BY <1>1, <1>5 DEF Success, Gentle
<1>6. CASE u \in Failures({f, off})
  <2>1. u.ok = FALSE /\ u.fw \in {f, off}
    BY <1>6, FailuresOutcome, Zenon
  <2>2. QED
    BY <2>1, <1>1 DEF Gentle
<1>7. QED
  BY <1>3, <1>4, <1>5, <1>6

(* What hp_wmi_apply_fan_settings does to the firmware, whatever fails.    *)
LEMMA ApplyOutcome ==
  ASSUME board \in Boards, NEW m \in Modes, NEW p \in [Fans -> Speeds],
         NEW f \in Firmware, NEW u \in Apply(m, p, f)
  PROVE  /\ u.fw \in Firmware /\ u.ok \in BOOLEAN
         /\ Gentle(f, u.fw)
         /\ u.ok /\ m # AUTO => u.fw.age = 0
         /\ u.fw.speed = IF u.ok /\ m = MANUAL THEN p ELSE f.speed
<1>1. CASE m = MAX
  BY <1>1, ApplyMaxOutcome DEF Apply, MAX, MANUAL, AUTO
<1>2. CASE m = MANUAL
  BY <1>2, FanSpeedSetOutcome DEF Apply, MAX, MANUAL, AUTO
<1>3. CASE m = AUTO
  BY <1>3, RestoreOutcome DEF Apply, MAX, MANUAL, AUTO
<1>4. QED
  BY <1>1, <1>2, <1>3 DEF Modes

-----------------------------------------------------------------------------
(* A firmware that was renewed, or that lost nothing and gained nothing,   *)
(* keeps the margin as long as the work stays where it was.                *)
LEMMA MarginKept ==
  ASSUME TypeOK, RenewalMargin, fw' \in Firmware, Gentle(fw, fw'),
         timer' = timer, late' = late,
         mode' # AUTO /\ ~overtaken' => mode # AUTO /\ ~overtaken
  PROVE  RenewalMargin'
<1> SUFFICES ASSUME mode' # AUTO, ~overtaken', Active(fw)'
             PROVE  fw'.age + Due' <= Delay + late'
  BY DEF RenewalMargin
<1>1. Due' = Due /\ Due <= Delay
  BY DriverAssumption DEF TypeOK, Due, Idle
<1>2. fw'.age = 0 \/ fw'.age + Due <= Delay + late
  BY <1>1 DEF Gentle, RenewalMargin, Active
<1>3. QED
  BY <1>1, <1>2, DriverAssumption DEF TypeOK, Due, Idle

(* Applied renews the margin from nothing.                                 *)
LEMMA MarginRenewed ==
  ASSUME NEW m \in Modes, Applied(m), mode' = m, m # AUTO => fw'.age = 0
  PROVE  RenewalMargin' /\ RefreshScheduled' /\ RestoreScheduled' /\ OwedIsOvertaken'
<1>1. CASE m = AUTO
  <2>1. mode' = AUTO /\ pending' = FALSE
    BY <1>1 DEF Applied
  <2>2. QED
    BY <2>1
    DEF RenewalMargin, RefreshScheduled, RestoreScheduled, OwedIsOvertaken
<1>2. CASE m # AUTO
  <2>1. timer' = Delay /\ late' = 0 /\ timer' # Idle
    BY <1>2, DriverAssumption DEF Applied, Idle
  <2>2. pending' <=> overtaken'
    BY <1>2 DEF Applied
  <2>3. RenewalMargin'
    BY <1>2, <2>1, DriverAssumption DEF RenewalMargin, Due
  <2>4. RefreshScheduled' /\ RestoreScheduled'
    BY <2>1 DEF RefreshScheduled, RestoreScheduled, WorkScheduled
  <2>5. QED
    BY <2>2, <2>3, <2>4 DEF OwedIsOvertaken
<1>3. QED
  BY <1>1, <1>2

(* Committing a setting, with all its compensations, keeps the invariant.  *)
LEMMA CommitKeepsInvariant ==
  ASSUME IInv, NEW m \in Modes, NEW p \in [Fans -> Speeds],
         CommitFanSettings(m, p), m # MANUAL => p = pwm,
         UNCHANGED <<board, running, healthy>>
  PROVE  IInv'
<1>1. PICK r \in Apply(m, p, fw) :
        IF r.ok
        THEN mode' = m /\ pwm' = p /\ fw' = r.fw /\ Applied(m)
        ELSE /\ UNCHANGED <<mode, pwm>>
             /\ CASE m = MANUAL /\ mode = AUTO -> Compensate(r.fw)
                  [] m # MAX /\ mode = MAX     -> ReapplyMax(r.fw)
                  [] OTHER -> /\ fw' = r.fw
                              /\ UNCHANGED <<timer, pending, overtaken, late>>
  BY DEF CommitFanSettings
<1> USE DEF IInv
<1>2. /\ board \in Boards /\ fw \in Firmware /\ mode \in Modes
      /\ pwm \in [Fans -> Speeds]
  BY DEF TypeOK
<1>3. /\ r.fw \in Firmware /\ r.ok \in BOOLEAN
      /\ Gentle(fw, r.fw)
      /\ r.ok /\ m # AUTO => r.fw.age = 0
      /\ r.fw.speed = IF r.ok /\ m = MANUAL THEN p ELSE fw.speed
  BY <1>2, ApplyOutcome
<1>4. CASE r.ok
  <2>1. mode' = m /\ pwm' = p /\ fw' = r.fw /\ Applied(m)
    BY <1>1, <1>4
  <2>2. TypeOK'
    BY <2>1, <1>3, DriverAssumption DEF TypeOK, Applied, Idle
  <2>3. RenewalMargin' /\ RefreshScheduled' /\ RestoreScheduled' /\ OwedIsOvertaken'
    BY <2>1, <1>3, <1>4, MarginRenewed
  <2>4. CommittedTargets'
    BY <2>1, <1>3, <1>4 DEF CommittedTargets
  <2>5. QED
    BY <2>2, <2>3, <2>4
<1>5. CASE ~r.ok /\ m = MANUAL /\ mode = AUTO
  <2>1. Compensate(r.fw) /\ mode' = AUTO /\ pwm' = pwm
    BY <1>1, <1>5 DEF MAX, MANUAL, AUTO
  <2>2. PICK u \in RestoreAutoFans(r.fw) :
          /\ fw' = u.fw
          /\ pending' = ~u.ok
          /\ timer' = IF u.ok THEN timer ELSE Retry
          /\ UNCHANGED <<late, overtaken>>
    BY <2>1 DEF Compensate
  <2>3. u.fw \in Firmware /\ u.ok \in BOOLEAN
    BY <1>3, RestoreOutcome
  <2>4. TypeOK'
    BY <2>1, <2>2, <2>3, DriverAssumption DEF TypeOK, Idle, Modes
  <2>5. RestoreScheduled'
    <3>1. CASE u.ok
      BY <2>2, <3>1 DEF RestoreScheduled
    <3>2. CASE ~u.ok
      <4>1. timer' = Retry /\ timer' # Idle
        BY <2>2, <3>2, DriverAssumption DEF Idle
      <4>2. QED
        BY <4>1 DEF RestoreScheduled, WorkScheduled
    <3>3. QED
      BY <3>1, <3>2
  <2>6. QED
    BY <2>1, <2>4, <2>5
    DEF RefreshScheduled, CommittedTargets, OwedIsOvertaken, RenewalMargin, AUTO, MANUAL
<1>6. CASE ~r.ok /\ m # MAX /\ mode = MAX
  <2>1. ReapplyMax(r.fw) /\ mode' = MAX /\ pwm' = pwm
    BY <1>1, <1>6 DEF MAX, MANUAL, AUTO
  <2>2. PICK u \in ApplyMax(r.fw) :
          /\ fw' = u.fw
          /\ IF u.ok THEN Applied(MAX)
                     ELSE UNCHANGED <<timer, pending, overtaken, late>>
    BY <2>1 DEF ReapplyMax
  <2>3. /\ u.fw \in Firmware /\ u.ok \in BOOLEAN
        /\ Gentle(r.fw, u.fw) /\ (u.ok => u.fw.age = 0)
    BY <1>2, <1>3, ApplyMaxOutcome
  <2>4. CommittedTargets'
    BY <2>1 DEF CommittedTargets, MAX, MANUAL
  <2>5. CASE u.ok
    <3>1. Applied(MAX) /\ fw'.age = 0
      BY <2>2, <2>3, <2>5
    <3>2. TypeOK'
      BY <2>1, <2>2, <2>3, <3>1, DriverAssumption DEF TypeOK, Applied, Idle, Modes
    <3>3. QED
      BY <2>1, <2>4, <3>1, <3>2, MarginRenewed DEF Modes
  <2>6. CASE ~u.ok
    <3>1. UNCHANGED <<timer, pending, overtaken, late>>
      BY <2>2, <2>6
    <3>2. TypeOK'
      BY <2>1, <2>2, <2>3, <3>1 DEF TypeOK, Modes
    <3>3. Gentle(fw, fw')
      BY <1>3, <2>2, <2>3 DEF Gentle
    <3>4. RenewalMargin'
      BY <1>6, <2>1, <2>2, <2>3, <3>1, <3>3, MarginKept
    <3>5. QED
      BY <1>6, <2>1, <2>4, <3>1, <3>2, <3>4
      DEF RefreshScheduled, RestoreScheduled, OwedIsOvertaken, WorkScheduled
  <2>7. QED
    BY <2>3, <2>5, <2>6
<1>7. CASE ~r.ok /\ ~(m = MANUAL /\ mode = AUTO) /\ ~(m # MAX /\ mode = MAX)
  <2>1. fw' = r.fw /\ UNCHANGED <<mode, pwm, timer, pending, overtaken, late>>
    BY <1>1, <1>7
  <2>2. TypeOK'
    BY <1>3, <2>1 DEF TypeOK
  <2>3. RenewalMargin'
    BY <1>3, <2>1, MarginKept
  <2>4. CommittedTargets'
    BY <1>3, <1>7, <2>1 DEF CommittedTargets
  <2>5. QED
    BY <2>1, <2>2, <2>3, <2>4
    DEF RefreshScheduled, RestoreScheduled, OwedIsOvertaken, WorkScheduled
<1>8. QED
  BY <1>3, <1>4, <1>5, <1>6, <1>7

(* The keep-alive work keeps the invariant: it re-arms itself, finds the   *)
(* driver in AUTO, or finishes a restore that a later setting overtook.    *)
LEMMA KeepAliveKeepsInvariant ==
  ASSUME IInv, KeepAlive
  PROVE  IInv'
<1> USE DEF IInv
<1>1. UNCHANGED <<board, mode, pwm, healthy>> /\ running' \in BOOLEAN
  <2>1. running' = FALSE /\ UNCHANGED <<board, mode, pwm, healthy>>
    BY DEF KeepAlive
  <2>2. FALSE \in BOOLEAN
    OBVIOUS
  <2>3. QED
    BY <2>1, <2>2, Zenon
<1>2. /\ board \in Boards /\ fw \in Firmware /\ mode \in Modes
      /\ pwm \in [Fans -> Speeds]
  BY DEF TypeOK
<1>3. CASE RestorePending
  <2>1. PICK u \in RestoreAutoFans(fw) :
          /\ fw' = u.fw
          /\ pending' = ~u.ok
          /\ timer' = IF u.ok THEN timer ELSE Retry
    BY <1>3 DEF RestorePending
  <2>2. pending /\ UNCHANGED <<late, overtaken>>
    BY <1>3 DEF RestorePending
  <2>3. u.fw \in Firmware /\ u.ok \in BOOLEAN /\ u.fw.speed = fw.speed
    BY <1>2, RestoreOutcome
  <2>4. TypeOK'
    BY <1>1, <2>1, <2>2, <2>3, DriverAssumption DEF TypeOK, Idle
  <2>5. mode' # AUTO => overtaken'
    BY <1>1, <2>2 DEF OwedIsOvertaken
  <2>6. RestoreScheduled'
    <3>1. CASE u.ok
      BY <2>1, <3>1 DEF RestoreScheduled
    <3>2. CASE ~u.ok
      <4>1. timer' = Retry /\ timer' # Idle
        BY <2>1, <3>2, DriverAssumption DEF Idle
      <4>2. QED
        BY <4>1 DEF RestoreScheduled, WorkScheduled
    <3>3. QED
      BY <3>1, <3>2
  <2>7. CommittedTargets'
    BY <1>1, <2>1, <2>3 DEF CommittedTargets
  <2>8. QED
    BY <2>4, <2>5, <2>6, <2>7 DEF RefreshScheduled, OwedIsOvertaken, RenewalMargin
<1>4. CASE StaleWork
  <2>1. /\ ~pending /\ mode = AUTO
        /\ UNCHANGED <<fw, pending, timer, late, overtaken>>
    BY <1>4 DEF StaleWork
  <2>2. QED
    BY <1>1, <2>1
    DEF TypeOK, RefreshScheduled, RestoreScheduled, CommittedTargets,
        OwedIsOvertaken, RenewalMargin
<1>5. CASE Refresh
  <2>1. ~pending /\ mode # AUTO
    BY <1>5 DEF Refresh
  <2>2. PICK u \in Apply(mode, pwm, fw) :
          /\ fw' = u.fw
          /\ IF u.ok
             THEN Applied(mode)
             ELSE /\ timer' = Retry
                  /\ late' = GrantRetry
                  /\ UNCHANGED <<pending, overtaken>>
    BY <1>5 DEF Refresh
  <2>3. /\ u.fw \in Firmware /\ u.ok \in BOOLEAN
        /\ Gentle(fw, u.fw)
        /\ u.ok /\ mode # AUTO => u.fw.age = 0
        /\ u.fw.speed = IF u.ok /\ mode = MANUAL THEN pwm ELSE fw.speed
    BY <1>2, ApplyOutcome
  <2>4. CommittedTargets'
    BY <1>1, <2>2, <2>3 DEF CommittedTargets
  <2>5. CASE u.ok
    <3>1. Applied(mode) /\ fw'.age = 0
      BY <2>1, <2>2, <2>3, <2>5
    <3>2. TypeOK'
      BY <1>1, <2>2, <2>3, <3>1, DriverAssumption DEF TypeOK, Applied, Idle
    <3>3. QED
      BY <1>1, <1>2, <2>4, <3>1, <3>2, MarginRenewed
  <2>6. CASE ~u.ok
    <3>1. /\ timer' = Retry /\ late' = GrantRetry /\ pending' = pending
          /\ overtaken' = overtaken
      BY <2>2, <2>6
    <3>2. timer' # Idle /\ Due' = Retry
      BY <3>1, DriverAssumption DEF Idle, Due
    <3>3. TypeOK'
      BY <1>1, <2>2, <2>3, <3>1, DriverAssumption DEF TypeOK, Idle, GrantRetry
    <3>4. RefreshScheduled' /\ RestoreScheduled' /\ OwedIsOvertaken'
      BY <2>1, <3>1, <3>2
      DEF RefreshScheduled, RestoreScheduled, OwedIsOvertaken, WorkScheduled
    <3>5. RenewalMargin'
      <4> SUFFICES ASSUME ~overtaken', Active(fw)'
                   PROVE  fw'.age + Retry <= Delay + late'
        BY <3>2 DEF RenewalMargin
      <4>1. Due \in Nat /\ late \in 0..FirmwareTimeout
        BY DriverAssumption DEF TypeOK, Due, Idle
      <4>2. fw'.age = 0 \/ (fw'.age = fw.age /\ fw.age + Due <= Delay + late)
        BY <2>1, <2>2, <2>3, <3>1 DEF Gentle, RenewalMargin, Active
      <4>3. fw'.age \in 0..FirmwareTimeout
        BY <3>3 DEF TypeOK, Firmware
      <4>4. QED
        BY <3>1, <4>1, <4>2, <4>3, DriverAssumption DEF GrantRetry
    <3>6. QED
      BY <2>4, <3>3, <3>4, <3>5
  <2>7. QED
    BY <2>3, <2>5, <2>6
<1>6. QED
  BY <1>3, <1>4, <1>5 DEF KeepAlive

(* The initial state: AUTO, nothing owed, nothing scheduled.               *)
LEMMA InitInvariant == Init => IInv
<1> SUFFICES ASSUME Init PROVE IInv
  OBVIOUS
<1>1. /\ mode = AUTO /\ pwm = Unset /\ pending = FALSE /\ timer = Idle
      /\ board \in Boards /\ late = 0
      /\ fw \in [user: {FALSE}, max: {FALSE}, speed: {Unset}, age: {0}]
  BY DEF Init
<1>2. Unset \in [Fans -> Speeds]
  BY DriverAssumption DEF Unset
<1>3. fw \in Firmware
  <2>1. {FALSE} \subseteq BOOLEAN /\ {0} \subseteq 0..FirmwareTimeout
    BY DriverAssumption
  <2>2. {Unset} \subseteq [Fans -> Speeds]
    BY <1>2
  <2>3. QED
    BY <1>1, <2>1, <2>2 DEF Firmware
<1>4. /\ pending \in BOOLEAN /\ running \in BOOLEAN
      /\ healthy \in BOOLEAN /\ overtaken \in BOOLEAN
  BY DEF Init
<1>5. TypeOK
  <2>1. mode \in Modes /\ pwm \in [Fans -> Speeds] /\ timer \in {Idle} \cup 0..Delay
    BY <1>1, <1>2 DEF Modes
  <2>2. late \in 0..FirmwareTimeout
    BY <1>1, DriverAssumption
  <2>3. QED
    BY <1>1, <1>3, <1>4, <2>1, <2>2 DEF TypeOK
<1>6. QED
  BY <1>1, <1>5
  DEF IInv, RefreshScheduled, RestoreScheduled, CommittedTargets, OwedIsOvertaken,
      RenewalMargin, AUTO, MANUAL

(* Every step of the driver and of its environment keeps the invariant.    *)
LEMMA NextInvariant == IInv /\ [Next]_vars => IInv'
<1> SUFFICES ASSUME IInv, [Next]_vars PROVE IInv'
  OBVIOUS
<1>0. /\ board \in Boards /\ fw \in Firmware /\ mode \in Modes
      /\ pwm \in [Fans -> Speeds]
  BY DEF IInv, TypeOK
<1>1. CASE WriteMax
  BY <1>0, <1>1, CommitKeepsInvariant DEF WriteMax, Modes
<1>2. CASE WriteAuto
  BY <1>0, <1>2, CommitKeepsInvariant DEF WriteAuto, Modes
<1>3. CASE WriteManual
  <2>1. PICK current \in [Fans -> Speeds] : CommitFanSettings(MANUAL, current)
    BY <1>3 DEF WriteManual
  <2>2. UNCHANGED <<board, running, healthy>>
    BY <1>3 DEF WriteManual
  <2>3. QED
    BY <2>1, <2>2, CommitKeepsInvariant DEF Modes
<1>4. ASSUME NEW fan \in Fans, NEW speed \in Speeds, WritePwm(fan, speed)
      PROVE  IInv'
  <2>1. [pwm EXCEPT ![fan] = speed] \in [Fans -> Speeds]
    BY <1>0
  <2>2. /\ CommitFanSettings(MANUAL, [pwm EXCEPT ![fan] = speed])
        /\ UNCHANGED <<board, running, healthy>>
    BY <1>4 DEF WritePwm
  <2>3. QED
    BY <2>1, <2>2, CommitKeepsInvariant DEF Modes
<1>5. CASE ProfileWrite
  <2> DEFINE begun == IF board.victusS THEN Triggered(fw) ELSE fw
  <2>1. /\ begun \in Firmware /\ begun.speed = fw.speed
        /\ begun = fw \/ begun.age = 0
    BY <1>0, TriggeredFirmware
  <2>2. \/ fw' = [begun EXCEPT !.user = FALSE]
        \/ fw' \in {fw, begun}
    BY <1>5 DEF ProfileWrite
  <2>3. /\ fw' \in Firmware /\ fw'.speed = fw.speed
        /\ Gentle(fw, fw')
    BY <1>0, <2>1, <2>2 DEF Firmware, Gentle, Active
  <2>4. UNCHANGED <<board, mode, pwm, pending, timer, running, healthy, late, overtaken>>
    BY <1>5 DEF ProfileWrite
  <2>5. RenewalMargin'
    BY <2>3, <2>4, MarginKept DEF IInv
  <2>6. QED
    BY <2>3, <2>4, <2>5
    DEF IInv, TypeOK, RefreshScheduled, RestoreScheduled, CommittedTargets,
        OwedIsOvertaken, WorkScheduled
<1>6. CASE WorkStarts
  <2>1. running' \in BOOLEAN /\ timer' = Idle /\ Due' = 0
    BY <1>6 DEF WorkStarts, Due
  <2>2. WorkScheduled'
    BY <1>6 DEF WorkStarts, WorkScheduled
  <2>3. /\ UNCHANGED <<board, mode, pwm, pending, fw, healthy, late, overtaken>>
        /\ timer = 0
    BY <1>6 DEF WorkStarts
  <2>4. TypeOK'
    BY <2>1, <2>3 DEF IInv, TypeOK
  <2>5. RenewalMargin'
    BY <2>1, <2>3 DEF IInv, RenewalMargin, Active, Due, Idle
  <2>6. QED
    BY <2>2, <2>3, <2>4, <2>5
    DEF IInv, RefreshScheduled, RestoreScheduled, CommittedTargets, OwedIsOvertaken
<1>7. CASE KeepAlive
  BY <1>7, KeepAliveKeepsInvariant
<1>8. CASE Reload
  <2>1. /\ mode' = AUTO /\ pwm' = Unset /\ pending' = FALSE /\ timer' = Idle
        /\ late' = 0 /\ overtaken' = FALSE /\ board' \in Boards
        /\ UNCHANGED <<running, fw, healthy>>
    BY <1>8 DEF Reload
  <2>2. TypeOK'
    <3>1. /\ mode' \in Modes /\ pwm' \in [Fans -> Speeds]
          /\ timer' \in {Idle} \cup 0..Delay
      BY <2>1, DriverAssumption DEF Modes, Unset
    <3>2. pending' \in BOOLEAN /\ overtaken' \in BOOLEAN
      BY <2>1, Zenon
    <3>3. late' \in 0..FirmwareTimeout
      BY <2>1, DriverAssumption
    <3>4. QED
      BY <2>1, <3>1, <3>2, <3>3 DEF IInv, TypeOK
  <2>3. QED
    BY <2>1, <2>2
    DEF IInv, RefreshScheduled, RestoreScheduled, CommittedTargets, OwedIsOvertaken,
        RenewalMargin, AUTO, MANUAL
<1>9. CASE Tick
  <2>1. /\ UNCHANGED <<board, mode, pwm, pending, running, healthy, late, overtaken>>
        /\ timer # 0 /\ ~running
    BY <1>9 DEF Tick
  <2>2. /\ timer' \in {Idle} \cup 0..Delay
        /\ timer = Idle => timer' = Idle
        /\ timer # Idle => timer' = timer - 1 /\ timer' # Idle
    BY <1>9, DriverAssumption DEF IInv, TypeOK, Tick, Idle
  <2>3. CASE Active(fw)
    <3>1. fw' = [fw EXCEPT !.age = @ + 1] /\ fw.age # FirmwareTimeout
      BY <1>9, <2>3 DEF Tick, FirmwareDue
    <3>2. /\ fw' \in Firmware /\ fw'.speed = fw.speed
          /\ fw'.age = fw.age + 1
      BY <1>0, <3>1, DriverAssumption DEF Firmware
    <3>3. TypeOK'
      BY <2>1, <2>2, <3>2 DEF IInv, TypeOK
    <3>4. RefreshScheduled' /\ RestoreScheduled' /\ CommittedTargets' /\ OwedIsOvertaken'
      BY <2>1, <2>2, <3>2
      DEF IInv, RefreshScheduled, RestoreScheduled, CommittedTargets, OwedIsOvertaken,
          WorkScheduled
    <3>5. RenewalMargin'
      <4> SUFFICES ASSUME mode' # AUTO, ~overtaken'
                   PROVE  fw'.age + Due' <= Delay + late'
        BY DEF RenewalMargin
      <4>1. timer # Idle
        BY <2>1 DEF IInv, RefreshScheduled, WorkScheduled
      <4>2. Due' = Due - 1 /\ Due \in 0..Delay
        BY <2>2, <4>1 DEF Due, IInv, TypeOK
      <4>3. fw.age + Due <= Delay + late
        BY <2>1, <2>3 DEF IInv, RenewalMargin
      <4>4. fw.age \in 0..FirmwareTimeout /\ late \in 0..FirmwareTimeout /\ late' = late
        BY <1>0, <2>1 DEF IInv, TypeOK, Firmware
      <4>5. QED
        BY <3>2, <4>2, <4>3, <4>4, DriverAssumption
    <3>6. QED
      BY <3>3, <3>4, <3>5 DEF IInv
  <2>4. CASE ~Active(fw)
    <3>1. fw' = fw
      BY <1>9, <2>4 DEF Tick
    <3>2. QED
      BY <2>1, <2>2, <2>4, <3>1
      DEF IInv, TypeOK, RefreshScheduled, RestoreScheduled, CommittedTargets,
          OwedIsOvertaken, WorkScheduled, RenewalMargin, Active
  <2>5. QED
    BY <2>3, <2>4
<1>10. CASE FirmwareFallback
  <2>1. /\ fw' = [user |-> FALSE, max |-> FALSE, speed |-> fw.speed, age |-> 0]
        /\ UNCHANGED <<board, mode, pwm, pending, timer, running, healthy, late, overtaken>>
    BY <1>10 DEF FirmwareFallback
  <2>2. fw' \in Firmware /\ fw'.speed = fw.speed /\ ~Active(fw)'
    BY <1>0, <2>1, DriverAssumption DEF Firmware, Active
  <2>3. QED
    BY <2>1, <2>2
    DEF IInv, TypeOK, RefreshScheduled, RestoreScheduled, CommittedTargets,
        OwedIsOvertaken, WorkScheduled, RenewalMargin
<1>11. CASE Heal
  <2>1. /\ UNCHANGED <<board, mode, pwm, pending, timer, running, fw, late, overtaken>>
        /\ healthy' \in BOOLEAN
    BY <1>11 DEF Heal
  <2>2. QED
    BY <2>1
    DEF IInv, TypeOK, RefreshScheduled, RestoreScheduled, CommittedTargets,
        OwedIsOvertaken, WorkScheduled, RenewalMargin, Active, Due
<1>12. CASE UNCHANGED vars
  BY <1>12
  DEF vars, IInv, TypeOK, RefreshScheduled, RestoreScheduled, CommittedTargets,
      OwedIsOvertaken, WorkScheduled, RenewalMargin, Active, Due
<1>13. QED
  BY <1>1, <1>2, <1>3, <1>4, <1>5, <1>6, <1>7, <1>8, <1>9, <1>10, <1>11, <1>12 DEF Next

(* The invariant holds in every reachable state.                           *)
THEOREM InvariantHolds == Spec => []IInv
  BY InitInvariant, NextInvariant, PTL DEF Spec

-----------------------------------------------------------------------------
(* The type invariant of the driver.                                       *)
THEOREM TypeCorrect == Spec => []TypeOK
<1>1. IInv => TypeOK
  BY DEF IInv
<1>2. QED
  BY <1>1, InvariantHolds, PTL

(* A MAX or MANUAL setting always keeps a renewal scheduled, unless it was *)
(* accepted with an AUTO restore still owed (hp_wmi_commit_fan_settings    *)
(* and hp_wmi_hwmon_keep_alive_handler).                                   *)
THEOREM RefreshIsScheduled == Spec => []RefreshScheduled
<1>1. IInv => RefreshScheduled
  BY DEF IInv
<1>2. QED
  BY <1>1, InvariantHolds, PTL

(* An owed AUTO restore is always going to be retried.                     *)
THEOREM RestoreIsScheduled == Spec => []RestoreScheduled
<1>1. IInv => RestoreScheduled
  BY DEF IInv
<1>2. QED
  BY <1>1, InvariantHolds, PTL

(* Neither a renewal nor a restore is ever without its work.               *)
THEOREM NothingIsForgotten == Spec => []AlwaysScheduled
<1>1. RefreshScheduled /\ RestoreScheduled => AlwaysScheduled
  BY DEF AlwaysScheduled
<1>2. QED
  BY <1>1, RefreshIsScheduled, RestoreIsScheduled, PTL

(* The cached MANUAL targets are the ones the firmware last accepted.      *)
THEOREM TargetsAreCommitted == Spec => []CommittedTargets
<1>1. IInv => CommittedTargets
  BY DEF IInv
<1>2. QED
  BY <1>1, InvariantHolds, PTL

(* The firmware's timeout overtakes MAX or MANUAL only after renewals have *)
(* failed for the whole margin FirmwareTimeout - Delay: 30 s of 5 s        *)
(* retries with the driver's constants.                                    *)
THEOREM FallbackNeedsFailures == Spec => []FallbackOnlyWhenLate
<1>1. IInv => FallbackOnlyWhenLate
  <2> SUFFICES ASSUME IInv, FirmwareDue, mode # AUTO, ~overtaken
               PROVE  late >= FirmwareTimeout - Delay
    BY DEF FallbackOnlyWhenLate
  <2>1. fw.age = FirmwareTimeout /\ fw.age + Due <= Delay + late
    BY DEF IInv, RenewalMargin, FirmwareDue
  <2>2. Due \in Nat /\ late \in 0..FirmwareTimeout
    BY DriverAssumption DEF IInv, TypeOK, Due, Idle
  <2>3. QED
    BY <2>1, <2>2, DriverAssumption
<1>2. QED
  BY <1>1, InvariantHolds, PTL
=============================================================================
