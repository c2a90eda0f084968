---------------------------- MODULE CurveProofs -----------------------------
(***************************************************************************)
(* FanCurve for every grid, curve and cooldown: its types, the hysteresis  *)
(* band, the overheat floor and the cooldown. FanLoop for every board,     *)
(* policy, curve, reading and dead band: it implements FanCurve, and the   *)
(* hardware keeps to the policy and the loop. CurveEditor for every axis   *)
(* and file: the curves that the two are given are regular.                *)
(***************************************************************************)
EXTENDS FanLoop, CurveEditor, FiniteSetTheorems, SequenceTheorems,
        WellFoundedInduction, TLAPS

(* A sensor at the threshold is overheating, and an overheating sensor     *)
(* holds the latch with no deadline running.                               *)
Latched ==
  /\ \A s \in Sensors : ema[s] >= Threshold => hot[s]
  /\ Overheating => active /\ clear = None

(* A running deadline and the calm so far make up the cooldown. *)
Counted == clear # None => active /\ calm + clear >= Cooldown

CurveInv == CurveTypeOK /\ WithinBand /\ Latched /\ Counted

-----------------------------------------------------------------------------
LEMMA Bounds ==
  /\ Temps \subseteq Nat
  /\ Floor \in Int
  /\ Cooldown \in Nat /\ Threshold \in Nat /\ Release \in Nat /\ Release < Threshold
<1>1. Temps \subseteq 0..Grid /\ Grid \in Nat
  BY CurveAssumption
<1>2. Temps \subseteq Nat
  BY <1>1
<1>3. Floor \in Percent
  BY CurveAssumption
<1>4. Floor \in Int
  BY <1>3 DEF Percent
<1> QED BY <1>2, <1>4, CurveAssumption

(* A curve is defined, and monotone, on every EMA and one band above it. *)
LEMMA CurveFacts ==
  ASSUME NEW new \in Shapes, NEW s \in Sensors
  PROVE  /\ \A t \in Temps : t \in Int /\ 0 <= t /\ t <= Grid
         /\ \A u \in 0..(Grid + Hysteresis) : Curve[new][s][u] \in Percent
         /\ Monotone(Curve[new][s])
<1>1. Grid \in Nat /\ Temps \subseteq 0..Grid
  BY CurveAssumption
<1>2. Curve[new][s] \in [0..(Grid + Hysteresis) -> Percent] /\ Monotone(Curve[new][s])
  BY CurveAssumption
<1>3. \A t \in Temps : t \in Int /\ 0 <= t /\ t <= Grid
  BY <1>1
<1> QED BY <1>2, <1>3

(* The band around the new EMA holds whatever Follow makes of a demand     *)
(* that was in the band around the old one.                                *)
LEMMA FollowInBand ==
  ASSUME NEW c, \A u \in 0..(Grid + Hysteresis) : c[u] \in Percent, Monotone(c),
         NEW old \in Temps \cup {None}, NEW t \in Temps,
         NEW held \in Percent \cup {None},
         held # None => old # None /\ c[old] <= held /\ held <= c[old + Hysteresis]
  PROVE  /\ Follow(c, old, t, held) \in Percent
         /\ c[t] <= Follow(c, old, t, held)
         /\ Follow(c, old, t, held) <= c[t + Hysteresis]
<1>1. /\ Grid \in Nat /\ Hysteresis \in Nat
      /\ \A u \in 0..(Grid + Hysteresis) : c[u] \in 0..100
      /\ \A u, v \in 0..(Grid + Hysteresis) : u <= v => c[u] <= c[v]
  BY CurveAssumption DEF Monotone, Percent
<1>2. t \in 0..Grid /\ (old # None => old \in 0..Grid)
  BY CurveAssumption
<1>3. c[t] <= c[t + Hysteresis] /\ c[t] \in 0..100 /\ c[t + Hysteresis] \in 0..100
  BY <1>1, <1>2
<1>4. CASE old = None \/ held = None
  <2>1. Follow(c, old, t, held) = c[t]
    BY <1>4 DEF Follow
  <2> QED BY <1>3, <2>1 DEF Percent
<1>5. CASE old # None /\ held # None
  <2>1. held \in 0..100 /\ c[old] <= held /\ held <= c[old + Hysteresis]
    BY <1>5 DEF Percent
  <2>2. c[old] \in 0..100 /\ c[old + Hysteresis] \in 0..100
    BY <1>1, <1>2, <1>5
  <2>3. t >= old => c[old + Hysteresis] <= c[t + Hysteresis]
    BY <1>1, <1>2, <1>5
  <2>4. t <= old => c[t] <= c[old]
    BY <1>1, <1>2, <1>5
  <2>5. old \in Int /\ t \in Int
    BY <1>2, <1>5
  <2>6. CASE t > old
    <3>1. Follow(c, old, t, held) = Larger(held, c[t])
      BY <1>5, <2>6 DEF Follow
    <3>2. Larger(held, c[t]) \in {held, c[t]} /\ Larger(held, c[t]) >= c[t]
      BY <1>3, <2>1 DEF Larger
    <3> QED
      BY <1>3, <2>1, <2>2, <2>3, <2>5, <2>6, <3>1, <3>2, SMTT(30) DEF Percent
  <2>7. CASE t < old
    <3> DEFINE above == c[t + Hysteresis]
    <3>1. Follow(c, old, t, held) = Smaller(held, above)
      BY <1>5, <2>5, <2>7 DEF Follow
    <3>2. Smaller(held, above) \in {held, above} /\ Smaller(held, above) <= above
      BY <1>3, <2>1 DEF Smaller
    <3> QED
      BY <1>3, <2>1, <2>2, <2>4, <2>5, <2>7, <3>1, <3>2, SMTT(30) DEF Percent
  <2>8. CASE t = old
    <3>1. Follow(c, old, t, held) = held
      BY <1>5, <2>5, <2>8 DEF Follow
    <3> QED BY <2>1, <2>8, <3>1 DEF Percent
  <2> QED BY <2>5, <2>6, <2>7, <2>8
<1> QED BY <1>4, <1>5

(* A sample takes the EMA to a temperature. *)
LEMMA BlendType ==
  ASSUME NEW old \in Temps \cup {None}, NEW x \in Temps
  PROVE  Blend(old, x) \subseteq Temps
  BY DEF Blend

-----------------------------------------------------------------------------
(* The state of a reset algorithm satisfies the invariant. *)
LEMMA FreshInv ==
  ASSUME CurveInit PROVE CurveInv
<1>1. Cooldown \in Nat /\ Threshold \in Nat
  BY CurveAssumption
<1>2. CurveTypeOK
  <2>1. ema \in [Sensors -> Temps \cup {None}]
    BY DEF CurveInit
  <2>2. demand \in [Sensors -> Percent \cup {None}]
    BY DEF CurveInit
  <2>3. hot \in [Sensors -> BOOLEAN] /\ active \in BOOLEAN
    BY DEF CurveInit
  <2>4. /\ shape \in Shapes \cup {NoShape}
        /\ clear \in 0..Cooldown \cup {None} /\ calm \in 0..Cooldown
    BY <1>1 DEF CurveInit
  <2> QED BY <2>1, <2>2, <2>3, <2>4 DEF CurveTypeOK
<1>3. \A s \in Sensors : ema[s] = None /\ demand[s] = None /\ hot[s] = FALSE
  BY DEF CurveInit
<1>4. WithinBand /\ Latched /\ Counted
  BY <1>1, <1>3 DEF CurveInit, WithinBand, Latched, Counted, Overheating, None
<1> QED BY <1>2, <1>4 DEF CurveInv

LEMMA ResetInv ==
  ASSUME ResetAlgorithm PROVE CurveInv'
<1>1. Cooldown \in Nat /\ Threshold \in Nat
  BY CurveAssumption
<1>2. CurveTypeOK'
  <2>1. ema' \in [Sensors -> Temps \cup {None}]
    BY DEF ResetAlgorithm
  <2>2. demand' \in [Sensors -> Percent \cup {None}]
    BY DEF ResetAlgorithm
  <2>3. hot' \in [Sensors -> BOOLEAN] /\ active' \in BOOLEAN
    BY DEF ResetAlgorithm
  <2>4. /\ shape' \in Shapes \cup {NoShape}
        /\ clear' \in 0..Cooldown \cup {None} /\ calm' \in 0..Cooldown
    BY <1>1 DEF ResetAlgorithm
  <2> QED BY <2>1, <2>2, <2>3, <2>4 DEF CurveTypeOK
<1>3. \A s \in Sensors : ema'[s] = None /\ demand'[s] = None /\ hot'[s] = FALSE
  BY DEF ResetAlgorithm
<1>4. WithinBand' /\ Latched' /\ Counted'
  BY <1>1, <1>3 DEF ResetAlgorithm, WithinBand, Latched, Counted, Overheating, None
<1> QED BY <1>2, <1>4 DEF CurveInv

LEMMA ElapseInv == CurveInv /\ Elapse => CurveInv'
<1> SUFFICES ASSUME CurveInv, Elapse PROVE CurveInv'
  OBVIOUS
<1>1. Cooldown \in Nat
  BY CurveAssumption
<1>2. CurveTypeOK'
  BY <1>1 DEF Elapse, CurveInv, CurveTypeOK, None
<1>3. WithinBand' /\ Latched'
  BY DEF Elapse, CurveInv, WithinBand, Latched, Overheating, None
<1>4. Counted'
  BY <1>1 DEF Elapse, CurveInv, CurveTypeOK, Counted, None
<1> QED BY <1>2, <1>3, <1>4 DEF CurveInv

(* The demands of one poll are typed and in the band of its curve. *)
LEMMA EvaluateBand ==
  ASSUME CurveInv, NEW new \in Shapes, NEW sample \in Samples,
         Evaluate(new, sample), NEW s \in Sensors
  PROVE  /\ demand'[s] \in Percent \cup {None}
         /\ sample[s] # None => demand'[s] # None
         /\ demand'[s] # None =>
              /\ ema'[s] # None
              /\ Curve[new][s][ema'[s]] <= demand'[s]
              /\ demand'[s] <= Curve[new][s][ema'[s] + Hysteresis]
<1>1. /\ ema[s] \in Temps \cup {None} /\ demand[s] \in Percent \cup {None}
      /\ sample[s] \in Temps \cup {None}
      /\ demand'[s] = IF sample[s] = None THEN Held(s, new)
                      ELSE Follow(Curve[new][s], ema[s], ema'[s], Held(s, new))
      /\ sample[s] = None => ema'[s] = ema[s]
      /\ sample[s] # None => ema'[s] \in Blend(ema[s], sample[s])
  BY DEF CurveInv, CurveTypeOK, Samples, Evaluate
<1>2. Held(s, new) \in Percent \cup {None}
  BY <1>1 DEF Held
<1>3. Held(s, new) # None =>
        /\ ema[s] # None
        /\ Curve[new][s][ema[s]] <= Held(s, new)
        /\ Held(s, new) <= Curve[new][s][ema[s] + Hysteresis]
  BY DEF Held, CurveInv, WithinBand
<1>4. CASE sample[s] = None
  BY <1>1, <1>2, <1>3, <1>4
<1>5. CASE sample[s] # None
  <2>1. ema'[s] \in Temps
    BY <1>1, <1>5, BlendType
  <2>2. /\ demand'[s] \in Percent
        /\ Curve[new][s][ema'[s]] <= demand'[s]
        /\ demand'[s] <= Curve[new][s][ema'[s] + Hysteresis]
    <3>1. /\ \A u \in 0..(Grid + Hysteresis) : Curve[new][s][u] \in Percent
          /\ Monotone(Curve[new][s])
      BY CurveFacts
    <3>2. demand'[s] = Follow(Curve[new][s], ema[s], ema'[s], Held(s, new))
      BY <1>1, <1>5
    <3>3. ema[s] \in Temps \cup {None}
      BY <1>1
    <3> QED BY <1>2, <1>3, <2>1, <3>1, <3>2, <3>3, FollowInBand
  <2>3. ema'[s] # None
    BY <2>1, CurveAssumption DEF None
  <2>4. demand'[s] # None
    BY <2>2 DEF None, Percent
  <2> QED BY <2>2, <2>3, <2>4
<1> QED BY <1>4, <1>5

(* The latch after update_overheat, whatever the EMAs became. *)
LEMMA UpdateOverheatLatch ==
  ASSUME CurveTypeOK, Latched, Counted, UpdateOverheat,
         ema' \in [Sensors -> Temps \cup {None}]
  PROVE  /\ hot' \in [Sensors -> BOOLEAN]
         /\ active' \in BOOLEAN
         /\ clear' \in 0..Cooldown \cup {None}
         /\ calm' \in 0..Cooldown
         /\ Latched' /\ Counted'
         /\ active /\ ~active' => calm = Cooldown
<1>1. Cooldown \in Nat /\ Threshold \in Nat /\ Release \in Nat /\ Release < Threshold
  BY CurveAssumption
<1>2. hot \in [Sensors -> BOOLEAN]
  BY DEF CurveTypeOK
<1>3. hot' = [s \in Sensors |-> SensorOverheat(hot[s], ema'[s])]
  BY DEF UpdateOverheat
<1>4. \A s \in Sensors : /\ SensorOverheat(hot[s], ema'[s]) \in BOOLEAN
                         /\ ema'[s] >= Threshold => SensorOverheat(hot[s], ema'[s])
  <2> TAKE s \in Sensors
  <2>1. hot[s] \in BOOLEAN
    BY <1>2
  <2>2. ema'[s] = None \/ ema'[s] \in Nat
    <3>1. ema'[s] \in Temps \cup {None}
      OBVIOUS
    <3> QED BY <3>1, Bounds
  <2>3. SensorOverheat(hot[s], ema'[s]) \in BOOLEAN
    <3>1. (ema'[s] > Release) \in BOOLEAN /\ (ema'[s] >= Threshold) \in BOOLEAN
      BY SMT
    <3>2. SensorOverheat(hot[s], ema'[s])
            \in {hot[s], ema'[s] > Release, ema'[s] >= Threshold}
      BY Zenon DEF SensorOverheat
    <3> QED BY <2>1, <3>1, <3>2, Zenon
  <2>4. ema'[s] >= Threshold => SensorOverheat(hot[s], ema'[s])
    BY <1>1, <2>2 DEF SensorOverheat, None
  <2> QED BY <2>3, <2>4
<1>5. hot' \in [Sensors -> BOOLEAN]
  BY <1>3, <1>4
<1>6. \A s \in Sensors : ema'[s] >= Threshold => hot'[s]
  BY <1>3, <1>4
<1>7. clear \in 0..Cooldown \cup {None} /\ calm \in 0..Cooldown
  BY DEF CurveTypeOK
<1>8. active \in BOOLEAN
  BY DEF CurveTypeOK
<1>9. CASE Overheating' /\ Trip
  <2>1. active' = TRUE /\ clear' = None /\ calm' = 0
    BY <1>9 DEF Trip
  <2>2. Latched' /\ Counted'
    BY <1>6, <2>1 DEF Latched, Counted
  <2> QED BY <1>1, <1>5, <2>1, <2>2
<1>10. CASE ~Overheating' /\ CoolOff
  <2>1. active' \in BOOLEAN
    BY <1>10 DEF CoolOff
  <2>2. TicksLeft \in 0..Cooldown /\ calm' = calm
    BY <1>1, <1>7, <1>10 DEF CoolOff, TicksLeft, None
  <2>3. clear' \in 0..Cooldown \cup {None}
    <3>1. clear' = TicksLeft \/ clear' = None
      BY <1>10 DEF CoolOff
    <3> QED BY <2>2, <3>1
  <2>4. Latched'
    BY <1>6, <1>10 DEF Latched
  <2>5. calm + TicksLeft >= Cooldown
    BY <1>1, <1>7 DEF Counted, TicksLeft, None
  <2>6. Counted'
    BY <1>1, <1>7, <1>10, <2>2, <2>5 DEF Counted, CoolOff
  <2>7. active /\ ~active' => TicksLeft = 0
    <3>1. active' = (active /\ TicksLeft > 0)
      BY <1>10 DEF CoolOff
    <3>2. active /\ ~active' => ~(TicksLeft > 0)
      BY <3>1, Zenon
    <3> QED BY <2>2, <3>2
  <2>8. active /\ ~active' => calm = Cooldown
    BY <1>1, <1>7, <2>5, <2>7
  <2> QED BY <1>5, <1>7, <2>1, <2>2, <2>3, <2>4, <2>6, <2>8
<1> QED BY <1>9, <1>10 DEF UpdateOverheat

LEMMA EvaluateInv ==
  ASSUME CurveInv, NEW new \in Shapes, NEW sample \in Samples, Evaluate(new, sample)
  PROVE  /\ CurveInv'
         /\ active /\ ~active' => calm = Cooldown
<1>1. ema' \in [Sensors -> Temps \cup {None}] /\ shape' = new
  BY DEF Evaluate
<1>2. demand' \in [Sensors -> Percent \cup {None}]
  <2>1. demand' = [s \in Sensors |-> demand'[s]]
    BY DEF Evaluate
  <2> QED BY <2>1, EvaluateBand
<1>3. WithinBand'
  BY <1>1, EvaluateBand DEF WithinBand
<1>4. CASE HasTarget'
  <2>1. UpdateOverheat
    BY <1>4 DEF Evaluate
  <2> QED BY <1>1, <1>2, <1>3, <2>1, UpdateOverheatLatch DEF CurveInv, CurveTypeOK
<1>5. CASE ~HasTarget'
  <2>1. UNCHANGED <<hot, active, clear, calm>>
    BY <1>5 DEF Evaluate
  <2>2. \A s \in Sensors : ema'[s] = ema[s]
    BY <1>5, EvaluateBand DEF HasTarget, Evaluate
  <2>3. Latched' /\ Counted'
    BY <2>1, <2>2 DEF CurveInv, Latched, Counted, Overheating
  <2>4. CurveTypeOK'
    BY <1>1, <1>2, <2>1 DEF CurveInv, CurveTypeOK
  <2>5. active' = active
    BY <2>1
  <2> QED BY <1>3, <2>3, <2>4, <2>5 DEF CurveInv
<1> QED BY <1>4, <1>5

LEMMA NextInv == CurveInv /\ [CurveNext]_curveVars => CurveInv'
<1> SUFFICES ASSUME CurveInv, [CurveNext]_curveVars PROVE CurveInv'
  OBVIOUS
<1>1. ASSUME NEW new \in Shapes, NEW sample \in Samples, Evaluate(new, sample)
      PROVE  CurveInv'
  BY <1>1, EvaluateInv
<1>2. CASE ResetAlgorithm
  BY <1>2, ResetInv
<1>3. CASE Elapse
  BY <1>3, ElapseInv
<1>4. CASE UNCHANGED curveVars
  BY <1>4 DEF curveVars, CurveInv, CurveTypeOK, WithinBand, Latched, Counted, Overheating
<1> QED BY <1>1, <1>2, <1>3, <1>4 DEF CurveNext

(* The invariant of the algorithm holds throughout. *)
THEOREM CurveInvariant == CurveSpec => []CurveInv
  BY FreshInv, NextInv, PTL DEF CurveSpec

(* Every variable of the algorithm keeps its type. *)
THEOREM CurveTypes == CurveSpec => []CurveTypeOK
<1>1. CurveInv => CurveTypeOK
  BY DEF CurveInv
<1> QED BY <1>1, CurveInvariant, PTL

(* For every monotone curve, a demand stays within the hysteresis band of  *)
(* the active curve at the smoothed temperature.                           *)
THEOREM DemandWithinBand == CurveSpec => []WithinBand
<1>1. CurveInv => WithinBand
  BY DEF CurveInv
<1> QED BY <1>1, CurveInvariant, PTL

(* For every curve, the target reaches the floor while a smoothed          *)
(* temperature is at the overheat threshold.                               *)
THEOREM OverheatHasFloor == CurveSpec => []OverheatFloor
<1>1. CurveInv => OverheatFloor
  <2> SUFFICES ASSUME CurveInv, NEW s \in Sensors, ema[s] >= Threshold
               PROVE  Target >= Floor
    BY DEF OverheatFloor
  <2>1. active
    BY DEF CurveInv, Latched, Overheating
  <2>2. demand["cpu"] \in Int /\ demand["gpu"] \in Int /\ Floor \in Int
    <3>1. "cpu" \in Sensors /\ "gpu" \in Sensors
      BY DEF Sensors
    <3>2. demand["cpu"] \in Percent \cup {None} /\ demand["gpu"] \in Percent \cup {None}
      BY <3>1 DEF CurveInv, CurveTypeOK
    <3> QED BY <3>2, Bounds DEF Percent, None
  <2> QED BY <2>1, <2>2 DEF Target, Larger
<1> QED BY <1>1, CurveInvariant, PTL

(* However short the polls and often the relapses, the floor is given up   *)
(* only after a whole cooldown.                                            *)
THEOREM CooldownIsHeld == CurveSpec => CooldownHeld
<1>1. ASSUME CurveInv, [CurveNext]_curveVars
      PROVE  [active /\ ~active' /\ shape' # NoShape => calm = Cooldown]_curveVars
  <2>1. ASSUME NEW new \in Shapes, NEW sample \in Samples, Evaluate(new, sample)
        PROVE  active /\ ~active' => calm = Cooldown
    BY <1>1, <2>1, EvaluateInv
  <2>2. CASE ResetAlgorithm
    BY <2>2 DEF ResetAlgorithm
  <2>3. CASE Elapse
    BY <2>3 DEF Elapse
  <2> QED BY <1>1, <2>1, <2>2, <2>3 DEF CurveNext
<1> QED BY <1>1, CurveInvariant, PTL DEF CurveSpec, CooldownHeld

-----------------------------------------------------------------------------

(* A loop inside the curve has the policy's consent, unless the policy     *)
(* left behind its back; past its first write the fans hold its last speed. *)
Consent == was /\ ~suspended /\ ~unseen => CurveDriven

SpeedHeld ==
  was /\ ~force /\ ~suspended /\ ~speedLost /\ ~unseen
    => mode = MANUAL /\ pwm = ToPwm(last)

LoopInv ==
  /\ TypeOK /\ CurveInv
  /\ EntersFresh /\ ModeAgrees
  /\ Consent /\ SpeedHeld /\ FloorWritten

-----------------------------------------------------------------------------
(* pct_to_pwm stays within a byte. *)
LEMMA ToPwmType == \A p \in Percent : ToPwm(p) \in 0..255
  BY DEF ToPwm, Percent

(* The merged target is a percentage, and the floor is below it while      *)
(* overheating is active.                                                  *)
TargetSound == CurveTypeOK /\ HasTarget => Target \in Percent /\ (active => Target >= Floor)

LEMMA TargetType == TargetSound
<1> SUFFICES ASSUME CurveTypeOK, HasTarget
             PROVE  Target \in Percent /\ (active => Target >= Floor)
  BY DEF TargetSound
<1>1. "cpu" \in Sensors /\ "gpu" \in Sensors
  BY DEF Sensors
<1>2. demand["cpu"] \in Percent \cup {None} /\ demand["gpu"] \in Percent \cup {None}
  BY <1>1 DEF CurveTypeOK
<1>3. demand["cpu"] # None \/ demand["gpu"] # None
  BY DEF HasTarget, Sensors
<1>4. Floor \in 0..100
  BY CurveAssumption DEF Percent
<1> DEFINE merged == Larger(demand["cpu"], demand["gpu"])
<1>5. merged \in 0..100
  BY <1>2, <1>3 DEF Larger, Percent, None
<1> HIDE DEF merged
<1>6. CASE active
  <2>1. Target = Larger(merged, Floor)
    BY <1>6 DEF Target, merged
  <2> QED BY <1>4, <1>5, <2>1 DEF Larger, Percent
<1>7. CASE ~active
  <2>1. Target = merged
    BY <1>7 DEF Target, merged
  <2> QED BY <1>5, <1>7, <2>1 DEF Percent
<1> QED BY <1>6, <1>7

LEMMA NextTargetType ==
  ASSUME CurveTypeOK', HasTarget'
  PROVE  Target' \in Percent /\ (active' => Target' >= Floor)
<1>1. TargetSound'
  BY TargetType, PTL
<1> QED BY <1>1 DEF TargetSound

(* Applying the fan mode takes the hardware to the wanted mode, or fails.  *)
LEMMA EnableType ==
  ASSUME TypeOK, NEW m \in Modes, NEW ok \in BOOLEAN, PwmEnable(m, ok)
  PROVE  mode' \in Modes /\ pwm' \in Pwms /\ (ok => mode' = m) /\ (~ok => UNCHANGED mode)
  BY DEF TypeOK, PwmEnable, hardware, Pwms

LEMMA WantedType ==
  ASSUME TypeOK PROVE Wanted \in Modes /\ (Wanted = MANUAL <=> CurveDriven)
  BY DEF TypeOK, Wanted, Modes, CurveDriven, MAX, AUTO, MANUAL, NoPreset, Presets

(* The mode is applied for the policy and sleep state after the step. *)
LEMMA ApplyType ==
  ASSUME TypeOK, ApplyFanMode,
         enabled' \in BOOLEAN, preset' \in Presets, supported' \in BOOLEAN
  PROVE  mode' \in Modes /\ pwm' \in Pwms /\ modeLost' \in BOOLEAN
<1>1. CASE suspended' /\ UNCHANGED <<hardware, modeLost>>
  BY <1>1 DEF TypeOK, hardware
<1>2. CASE \E ok \in BOOLEAN : PwmEnable(Wanted', ok) /\ modeLost' = ~ok
  <2>1. PICK ok \in BOOLEAN : PwmEnable(Wanted', ok) /\ modeLost' = ~ok
    BY <1>2
  <2>2. Wanted' \in Modes
    BY DEF Wanted, Modes
  <2>3. mode' \in Modes /\ pwm' \in Pwms
    BY <2>1, <2>2, EnableType
  <2>4. modeLost' \in BOOLEAN
    BY <2>1, Zenon
  <2> QED BY <2>3, <2>4
<1> QED BY <1>1, <1>2 DEF ApplyFanMode

-----------------------------------------------------------------------------
(* The algorithm inside the loop takes only steps of FanCurve: entering,   *)
(* leaving, sleeping and failing writes included.                          *)
LEMMA CurveStep ==
  ASSUME TypeOK, [Next]_vars PROVE [CurveNext]_curveVars
<1>1. ASSUME NEW sample \in Readings, PollDrives(sample) PROVE CurveNext
  <2>1. sample \in Samples /\ selected \in Shapes
    BY LoopAssumption DEF TypeOK
  <2>2. Evaluate(selected, sample)
    BY <1>1 DEF PollDrives
  <2> QED BY <2>1, <2>2 DEF CurveNext
<1>2. CASE PollIdle
  BY <1>2 DEF PollIdle, OnSuspend, CurveNext
<1>3. CASE PollLeaves
  BY <1>3 DEF PollLeaves, OnSuspend, CurveNext
<1>4. CASE Resume
  BY <1>4 DEF Resume, OnSuspend, CurveNext
<1>5. CASE Second
  BY <1>5 DEF Second, CurveNext
<1>6. CASE SetFanConfig \/ CompleteProfile \/ PrepareSleep \/ RawCommand \/ Heal
  BY <1>6 DEF SetFanConfig, CompleteProfile, PrepareSleep, RawCommand, Heal
<1>7. CASE UNCHANGED vars
  BY <1>7 DEF vars
<1> QED BY <1>1, <1>2, <1>3, <1>4, <1>5, <1>6, <1>7 DEF Next, Poll

-----------------------------------------------------------------------------
LEMMA InitType ==
  ASSUME Init PROVE TypeOK
<1>1. Wanted \in Modes
  BY DEF Wanted, Modes
<1>2. 0..255 \cup {Own} = Pwms
  BY DEF Pwms
<1> QED BY <1>1, <1>2 DEF Init, TypeOK

LEMMA StepType ==
  ASSUME TypeOK, CurveInv, CurveInv', [Next]_vars PROVE TypeOK'
<1>1. CASE SetFanConfig
  <2>1. /\ supported' \in BOOLEAN /\ enabled' \in BOOLEAN /\ suspended' \in BOOLEAN
        /\ preset' \in Presets /\ selected' \in Shapes
        /\ was' \in BOOLEAN /\ force' \in BOOLEAN /\ last' \in Percent \cup {None}
        /\ healthy' \in BOOLEAN /\ speedLost' \in BOOLEAN
    BY <1>1 DEF SetFanConfig, TypeOK, loopVars
  <2>2. mode' \in Modes /\ pwm' \in Pwms /\ modeLost' \in BOOLEAN
    BY <1>1, <2>1, ApplyType DEF SetFanConfig
  <2>3. unseen' \in BOOLEAN
    BY <1>1, Zenon DEF SetFanConfig, TypeOK
  <2> QED BY <2>1, <2>2, <2>3 DEF TypeOK
<1>2. CASE CompleteProfile
  BY <1>2 DEF CompleteProfile, TypeOK, loopVars, hardware, histories
<1>3. CASE PrepareSleep
  <2>1. PICK ok \in BOOLEAN : PwmEnable(AUTO, ok) /\ modeLost' = ~ok
    BY <1>3 DEF PrepareSleep
  <2>2. mode' \in Modes /\ pwm' \in Pwms
    BY <2>1, EnableType DEF Modes
  <2>3. modeLost' \in BOOLEAN
    BY <2>1, Zenon
  <2> QED BY <1>3, <2>2, <2>3 DEF PrepareSleep, TypeOK, policy, loopVars
<1>4. CASE Resume
  <2>1. enabled' \in BOOLEAN /\ preset' \in Presets /\ supported' \in BOOLEAN
    BY <1>4 DEF Resume, policy, TypeOK
  <2>2. mode' \in Modes /\ pwm' \in Pwms /\ modeLost' \in BOOLEAN
    BY <1>4, <2>1, ApplyType DEF Resume
  <2> QED BY <1>4, <2>2 DEF Resume, OnSuspend, TypeOK, policy
<1>5. CASE RawCommand
  <2>1. mode' \in Modes /\ pwm' \in Pwms
    <3>1. CASE \E m \in Modes : PwmEnable(m, TRUE)
      BY <3>1, EnableType
    <3>2. CASE mode' = MANUAL /\ pwm' = Own
      BY <3>2 DEF Modes, Pwms
    <3> QED BY <1>5, <3>1, <3>2 DEF RawCommand
  <2> QED BY <1>5, <2>1 DEF RawCommand, TypeOK, policy, loopVars
<1>6. CASE PollIdle
  BY <1>6 DEF PollIdle, OnSuspend, TypeOK, policy, hardware
<1>7. CASE PollLeaves
  <2>1. PICK ok \in BOOLEAN : PwmEnable(AUTO, ok) /\ modeLost' = ~ok
    BY <1>7 DEF PollLeaves
  <2>2. mode' \in Modes /\ pwm' \in Pwms
    BY <2>1, EnableType DEF Modes
  <2>3. modeLost' \in BOOLEAN
    BY <2>1, Zenon
  <2> QED BY <1>7, <2>2, <2>3 DEF PollLeaves, OnSuspend, TypeOK, policy
<1>8. ASSUME NEW sample \in Readings, PollDrives(sample) PROVE TypeOK'
  <2>1. /\ supported' = supported /\ enabled' = enabled /\ suspended' = suspended
        /\ preset' = preset /\ selected' = selected /\ healthy' = healthy /\ was' = TRUE
    BY <1>8 DEF PollDrives, policy
  <2>2. PICK seed \in Seeds, took \in BOOLEAN :
          Hold(seed, took) \/ WriteTarget(seed) \/ WriteFails(seed, took)
    BY <1>8 DEF PollDrives
  <2>3. /\ ForceNow \in BOOLEAN /\ LastNow(seed) \in Percent \cup {None}
        /\ ModeNow(took) \in Modes /\ PwmNow(took) \in Pwms
    <3>1. ForceNow \in BOOLEAN
      BY Zenon DEF ForceNow, TypeOK
    <3>2. LastNow(seed) \in Percent \cup {None}
      BY LoopAssumption DEF LastNow, TypeOK
    <3>3. ModeNow(took) \in Modes /\ PwmNow(took) \in Pwms
      BY DEF ModeNow, PwmNow, TypeOK, Modes, Pwms
    <3> QED BY <3>1, <3>2, <3>3
  <2>4. CASE Hold(seed, took)
    <3>1. modeLost' \in BOOLEAN
      <4>1. modeLost' = IF was THEN modeLost ELSE ~took
        BY <2>4 DEF Hold
      <4> QED BY <4>1, Zenon DEF TypeOK
    <3> QED BY <2>1, <2>3, <2>4, <3>1 DEF Hold, TypeOK
  <2>5. CASE WriteTarget(seed)
    <3>1. Target' \in Percent
      BY <2>5, NextTargetType DEF WriteTarget, CurveInv
    <3>2. pwm' \in Pwms
      BY <2>5, <3>1, ToPwmType DEF WriteTarget, Pwms
    <3> QED BY <2>1, <2>5, <3>1, <3>2 DEF WriteTarget, TypeOK, Modes
  <2>6. CASE WriteFails(seed, took)
    <3>1. mode' \in Modes /\ pwm' \in Pwms
      BY <2>3, <2>6 DEF WriteFails, Modes, Pwms
    <3> QED BY <2>1, <2>3, <2>6, <3>1 DEF WriteFails, TypeOK
  <2> QED BY <2>2, <2>4, <2>5, <2>6
<1>9. CASE Second
  BY <1>9 DEF Second, TypeOK, policy, loopVars, hardware, histories
<1>10. CASE Heal
  BY <1>10 DEF Heal, TypeOK, policy, loopVars, hardware, histories
<1>11. CASE UNCHANGED vars
  BY <1>11 DEF vars, TypeOK, policy, loopVars, hardware, histories
<1> QED BY <1>1, <1>2, <1>3, <1>4, <1>5, <1>6, <1>7, <1>8, <1>9, <1>10, <1>11
       DEF Next, Poll

-----------------------------------------------------------------------------
(* A loop outside the curve stays reset. *)
LEMMA StepFresh ==
  ASSUME TypeOK, EntersFresh, [Next]_vars PROVE EntersFresh'
<1>1. CASE SetFanConfig \/ CompleteProfile \/ PrepareSleep \/ RawCommand \/ Heal
           \/ UNCHANGED vars
  BY <1>1 DEF SetFanConfig, CompleteProfile, PrepareSleep, RawCommand, Heal, vars,
              loopVars, curveVars, EntersFresh
<1>2. CASE OnSuspend
  BY <1>2 DEF OnSuspend, ResetAlgorithm, EntersFresh
<1>3. ASSUME NEW sample \in Readings, PollDrives(sample) PROVE EntersFresh'
  BY <1>3 DEF PollDrives, EntersFresh
<1>4. CASE Second
  <2>1. was' = was
    BY <1>4 DEF Second, loopVars
  <2>2. ASSUME ~was PROVE /\ UNCHANGED <<ema, demand, shape, hot, active>>
                          /\ clear' = clear /\ calm' = calm
    <3>1. ~active /\ clear = None
      BY <2>2 DEF EntersFresh
    <3> QED BY <1>4, <3>1 DEF Second, Elapse, None
  <2> QED BY <2>1, <2>2 DEF EntersFresh
<1> QED BY <1>1, <1>2, <1>3, <1>4 DEF Next, Poll, Resume, PollIdle, PollLeaves

(* Every call that changes the mode leaves it where the policy wants it,   *)
(* or is remembered as failed.                                             *)
LEMMA StepMode ==
  ASSUME TypeOK, ModeAgrees, [Next]_vars PROVE ModeAgrees'
<1> DEFINE due == IF suspended THEN AUTO ELSE Wanted
<1>1. ASSUME ApplyFanMode, suspended' => suspended PROVE ModeAgrees'
  <2>1. CASE suspended' /\ UNCHANGED <<hardware, modeLost>>
    BY <1>1, <2>1 DEF hardware, ModeAgrees
  <2>2. CASE ~suspended' /\ \E ok \in BOOLEAN : PwmEnable(Wanted', ok) /\ modeLost' = ~ok
    BY <2>2 DEF PwmEnable, ModeAgrees
  <2> QED BY <1>1, <2>1, <2>2 DEF ApplyFanMode
<1>2. CASE SetFanConfig
  BY <1>1, <1>2 DEF SetFanConfig
<1>3. CASE Resume
  BY <1>1, <1>3 DEF Resume
<1>4. CASE PrepareSleep
  BY <1>4 DEF PrepareSleep, PwmEnable, ModeAgrees
<1>5. CASE RawCommand
  BY <1>5 DEF RawCommand, ModeAgrees
<1>6. CASE CompleteProfile \/ Second \/ Heal \/ PollIdle \/ UNCHANGED vars
  <2>1. UNCHANGED <<supported, enabled, preset, suspended, mode, modeLost>>
    BY <1>6 DEF CompleteProfile, Second, Heal, PollIdle, vars, policy, hardware, histories
  <2>2. Wanted' = Wanted
    BY <2>1 DEF Wanted
  <2> QED BY <2>1, <2>2 DEF ModeAgrees
<1>7. CASE PollLeaves
  <2>1. ~suspended' /\ enabled' = FALSE /\ preset' = NoPreset
    BY <1>7 DEF PollLeaves, policy, TypeOK
  <2>2. Wanted' = AUTO
    BY <2>1 DEF Wanted, NoPreset, MAX, AUTO
  <2> QED BY <1>7, <2>1, <2>2 DEF PollLeaves, PwmEnable, ModeAgrees
<1>8. ASSUME NEW sample \in Readings, PollDrives(sample) PROVE ModeAgrees'
  <2>1. /\ ~suspended /\ ~suspended' /\ CurveDriven
        /\ UNCHANGED <<supported, enabled, preset>>
    BY <1>8 DEF PollDrives, policy
  <2>2. Wanted = MANUAL /\ Wanted' = MANUAL
    BY <2>1, WantedType DEF Wanted
  <2>3. PICK seed \in Seeds, took \in BOOLEAN :
          Hold(seed, took) \/ WriteTarget(seed) \/ WriteFails(seed, took)
    BY <1>8 DEF PollDrives
  <2>4. CASE Hold(seed, took)
    <3>1. mode' = ModeNow(took) /\ modeLost' = IF was THEN modeLost ELSE ~took
      BY <2>4 DEF Hold
    <3> QED BY <2>1, <2>2, <3>1 DEF ModeNow, ModeAgrees
  <2>5. CASE WriteTarget(seed) \/ WriteFails(seed, took)
    BY <2>1, <2>2, <2>5 DEF WriteTarget, WriteFails, ModeAgrees
  <2> QED BY <2>3, <2>4, <2>5
<1> QED BY <1>2, <1>3, <1>4, <1>5, <1>6, <1>7, <1>8 DEF Next, Poll

(* The policy and the hardware under a loop inside the curve.              *)
LEMMA StepSpeed ==
  ASSUME TypeOK, TypeOK', Consent, SpeedHeld, [Next]_vars
  PROVE  Consent' /\ SpeedHeld'
<1>1. CASE SetFanConfig
  <2>1. /\ UNCHANGED <<was, force, last, suspended, speedLost>>
        /\ unseen' = (unseen \/ (was /\ ~suspended /\ Wanted' # MANUAL))
        /\ ApplyFanMode
    BY <1>1 DEF SetFanConfig, loopVars
  <2> SUFFICES ASSUME was, ~suspended, ~unseen'
               PROVE  /\ CurveDriven'
                      /\ ~force /\ ~speedLost => mode' = MANUAL /\ pwm' = ToPwm(last)
    BY <2>1 DEF Consent, SpeedHeld
  <2>2. ~unseen /\ Wanted' = MANUAL
    BY <2>1, Zenon
  <2>3. CurveDriven'
    <3>1. preset' # MAX /\ ~(preset' = AUTO \/ ~enabled' \/ ~supported')
      BY <2>2 DEF Wanted, MAX, AUTO, MANUAL
    <3> QED BY <3>1 DEF CurveDriven, TypeOK, Presets
  <2>4. PICK ok \in BOOLEAN : PwmEnable(MANUAL, ok)
    BY <2>1, <2>2 DEF ApplyFanMode
  <2>5. ASSUME ~force, ~speedLost PROVE mode' = MANUAL /\ pwm' = ToPwm(last)
    <3>1. mode = MANUAL /\ pwm = ToPwm(last)
      BY <2>2, <2>5 DEF SpeedHeld
    <3> QED BY <2>4, <3>1 DEF PwmEnable, hardware
  <2> QED BY <2>3, <2>5
<1>2. CASE CompleteProfile \/ Second \/ Heal \/ UNCHANGED vars
  BY <1>2 DEF CompleteProfile, Second, Heal, vars, policy, loopVars, hardware,
              histories, Consent, SpeedHeld, CurveDriven
<1>3. CASE PrepareSleep
  BY <1>3 DEF PrepareSleep, Consent, SpeedHeld
<1>4. CASE RawCommand
  BY <1>4 DEF RawCommand, policy, loopVars, Consent, SpeedHeld, CurveDriven
<1>5. CASE OnSuspend
  BY <1>5 DEF OnSuspend, Consent, SpeedHeld
<1>6. ASSUME NEW sample \in Readings, PollDrives(sample) PROVE Consent' /\ SpeedHeld'
  <2>1. CurveDriven' /\ suspended' = suspended /\ ~suspended
    BY <1>6 DEF PollDrives, CurveDriven, policy
  <2>2. PICK seed \in Seeds, took \in BOOLEAN :
          Hold(seed, took) \/ WriteTarget(seed) \/ WriteFails(seed, took)
    BY <1>6 DEF PollDrives
  <2>3. CASE Hold(seed, took)
    <3> SUFFICES ASSUME ~force', ~speedLost', ~unseen'
                 PROVE  mode' = MANUAL /\ pwm' = ToPwm(last')
      BY <2>1 DEF Consent, SpeedHeld
    <3>1. was /\ ~force /\ ~speedLost /\ ~unseen
      BY <2>3, Zenon DEF Hold, ForceNow
    <3>2. mode' = mode /\ pwm' = pwm /\ last' = last
      BY <2>3, <3>1 DEF Hold, ModeNow, PwmNow, LastNow
    <3> QED BY <2>1, <3>1, <3>2 DEF SpeedHeld
  <2>4. CASE WriteTarget(seed)
    BY <2>1, <2>4 DEF WriteTarget, Consent, SpeedHeld
  <2>5. CASE WriteFails(seed, took)
    BY <2>1, <2>5 DEF WriteFails, Consent, SpeedHeld
  <2> QED BY <2>2, <2>3, <2>4, <2>5
<1> QED BY <1>1, <1>2, <1>3, <1>4, <1>5, <1>6
       DEF Next, Poll, Resume, PollIdle, PollLeaves

LEMMA BandArithmetic ==
  \A m \in Nat, f, l, t \in Int : t >= f /\ t - l <= m => l + m >= f
  BY SMT

LEMMA NoBand == \A m \in Nat, f, t \in Int : t >= f => t + m >= f
  BY SMT

(* The dead band leaves at most MinChange of the floor unwritten. *)
LEMMA StepFloor ==
  ASSUME TypeOK, CurveInv, CurveInv', FloorWritten, [Next]_vars PROVE FloorWritten'
<1>1. CASE SetFanConfig \/ CompleteProfile \/ PrepareSleep \/ Heal \/ Second
           \/ UNCHANGED vars
  BY <1>1 DEF SetFanConfig, CompleteProfile, PrepareSleep, Heal, Second, Elapse, vars,
              loopVars, curveVars, histories, FloorWritten
<1>2. CASE RawCommand
  BY <1>2 DEF RawCommand, FloorWritten
<1>3. CASE OnSuspend
  BY <1>3 DEF OnSuspend, FloorWritten
<1>4. ASSUME NEW sample \in Readings, PollDrives(sample) PROVE FloorWritten'
  <2>1. PICK seed \in Seeds, took \in BOOLEAN :
          Hold(seed, took) \/ WriteTarget(seed) \/ WriteFails(seed, took)
    BY <1>4 DEF PollDrives
  <2>2. MinChange \in Nat /\ Floor \in Int
    BY LoopAssumption, Bounds
  <2>3. CASE Hold(seed, took)
    <3> SUFFICES ASSUME ~force', active', ~speedLost' PROVE last' + MinChange >= Floor
      BY DEF FloorWritten
    <3>1. was /\ ~force /\ ~speedLost /\ ~ForceNow
      BY <2>3, Zenon DEF Hold, ForceNow
    <3>2. last' = last /\ LastNow(seed) = last
      BY <2>3, <3>1 DEF Hold, LastNow
    <3>3. CASE HasTarget'
      <4>1. Target' - last <= MinChange
        BY <2>3, <3>2, <3>3 DEF Hold, SmallChange
      <4>2. Target' \in Percent /\ Target' >= Floor
        BY <3>3, NextTargetType DEF CurveInv
      <4>3. last \in Int
        BY DEF TypeOK, Percent, None
      <4>4. Target' \in Int /\ Target' >= Floor
        BY <4>2 DEF Percent
      <4>5. last + MinChange >= Floor
        BY <2>2, <4>1, <4>3, <4>4, BandArithmetic, Zenon
      <4> QED BY <3>2, <4>5
    <3>4. CASE ~HasTarget'
      <4>1. active
        BY <1>4, <3>4 DEF PollDrives, Evaluate
      <4> QED BY <3>1, <3>2, <4>1 DEF FloorWritten
    <3> QED BY <3>3, <3>4
  <2>4. CASE WriteTarget(seed)
    <3>1. HasTarget' /\ last' = Target'
      BY <2>4 DEF WriteTarget
    <3>2. Target' \in Percent /\ (active' => Target' >= Floor)
      BY <3>1, NextTargetType DEF CurveInv
    <3>3. Target' \in Int /\ (active' => Target' >= Floor)
      BY <3>2 DEF Percent
    <3>4. active' => Target' + MinChange >= Floor
      BY <2>2, <3>3, NoBand, Zenon
    <3> QED BY <3>1, <3>4 DEF FloorWritten
  <2>5. CASE WriteFails(seed, took)
    BY <2>5 DEF WriteFails, FloorWritten
  <2> QED BY <2>1, <2>3, <2>4, <2>5
<1> QED BY <1>1, <1>2, <1>3, <1>4 DEF Next, Poll, Resume, PollIdle, PollLeaves

-----------------------------------------------------------------------------
LEMMA InitLoopInv == Init => LoopInv
<1> SUFFICES ASSUME Init PROVE LoopInv
  OBVIOUS
<1>1. TypeOK
  BY InitType
<1>2. CurveInit
  BY DEF Init
<1>3. CurveInv
  BY <1>2, FreshInv
<1>4. EntersFresh
  BY <1>2 DEF CurveInit, EntersFresh
<1>5. ModeAgrees /\ Consent /\ SpeedHeld /\ FloorWritten
  BY DEF Init, ModeAgrees, Consent, SpeedHeld, FloorWritten
<1> QED BY <1>1, <1>3, <1>4, <1>5 DEF LoopInv

LEMMA NextLoopInv == LoopInv /\ [Next]_vars => LoopInv'
<1> SUFFICES ASSUME LoopInv, [Next]_vars PROVE LoopInv'
  OBVIOUS
<1>1. TypeOK /\ CurveInv /\ EntersFresh /\ ModeAgrees /\ Consent /\ SpeedHeld /\ FloorWritten
  BY DEF LoopInv
<1>2. CurveInv'
  BY <1>1, CurveStep, NextInv
<1>3. TypeOK'
  BY <1>1, <1>2, StepType
<1>4. EntersFresh' /\ ModeAgrees'
  BY <1>1, StepFresh, StepMode
<1>5. Consent' /\ SpeedHeld'
  BY <1>1, <1>3, StepSpeed
<1>6. FloorWritten'
  BY <1>1, <1>2, StepFloor
<1> QED BY <1>2, <1>3, <1>4, <1>5, <1>6 DEF LoopInv

(* The inductive invariant holds throughout. *)
THEOREM LoopInvariant == Spec => []LoopInv
  BY InitLoopInv, NextLoopInv, PTL DEF Spec

(* FanLoop is built from the actions of FanCurve, so what holds of the     *)
(* algorithm holds of the loop.                                            *)
LEMMA LoopRunsCurve == Spec => CurveSpec
<1>1. Init => CurveInit
  BY DEF Init
<1>2. LoopInv /\ [Next]_vars => [CurveNext]_curveVars
  BY CurveStep DEF LoopInv
<1> QED BY <1>1, <1>2, LoopInvariant, PTL DEF Spec, CurveSpec

(* Every variable of the loop keeps its type. *)
THEOREM LoopTypes == Spec => []TypeOK
<1>1. LoopInv => TypeOK
  BY DEF LoopInv
<1> QED BY <1>1, LoopInvariant, PTL

(* Whatever sleep, presets, policy changes and polls come between, the     *)
(* loop enters the curve with a reset algorithm (fan.rs on_suspend).       *)
THEOREM EntersWithFreshState == Spec => []EntersFresh
<1>1. LoopInv => EntersFresh
  BY DEF LoopInv
<1> QED BY <1>1, LoopInvariant, PTL

(* The mode of the hardware is the policy's, or AUTO asleep, in every      *)
(* order of policy changes, polls, sleeps and failures.                    *)
THEOREM ModeFollowsPolicy == Spec => []ModeAgrees
<1>1. LoopInv => ModeAgrees
  BY DEF LoopInv
<1> QED BY <1>1, LoopInvariant, PTL

(* The fans hold the speed the loop believes it wrote.                     *)
THEOREM LoopInStep == Spec => []InStep
<1>1. LoopInv => InStep
  BY DEF LoopInv, SpeedHeld, InStep, Driving
<1> QED BY <1>1, LoopInvariant, PTL

(* For every dead band, the overheat floor is written up to that band.     *)
THEOREM FloorIsWritten == Spec => []FloorWritten
<1>1. LoopInv => FloorWritten
  BY DEF LoopInv
<1> QED BY <1>1, LoopInvariant, PTL

(* The overheat floor is asked for, written up to the dead band, and given *)
(* up only after the whole cooldown, for every curve, cooldown and order   *)
(* of relapses, policy changes and sleep.                                  *)
THEOREM FloorIsKept == Spec => FloorKept
  BY LoopRunsCurve, OverheatHasFloor, FloorIsWritten, CooldownIsHeld, PTL DEF FloorKept

(* The demands of the running loop stay within the band of its curve.      *)
THEOREM LoopWithinBand == Spec => []WithinBand
  BY LoopRunsCurve, DemandWithinBand, PTL

-----------------------------------------------------------------------------
(* CurveEditor: what a curve is read as between its points.                *)

(* A set of numbers has its least element, which Min chooses.              *)
LEMMA MinOfNumbers ==
  ASSUME NEW S \in SUBSET Nat, S # {}
  PROVE  Min(S) \in S /\ \A y \in S : Min(S) <= y
<1>1. \E x \in S : \A y \in S : ~(<<y, x>> \in OpToRel(<, Nat))
  BY WFMin, NatLessThanWellFounded
<1>2. \A x \in S, y \in S : ~(<<y, x>> \in OpToRel(<, Nat)) => x <= y
  BY DEF OpToRel
<1>3. \E x \in S : \A y \in S : x <= y
  BY <1>1, <1>2
<1> QED
  BY <1>3 DEF Min

-----------------------------------------------------------------------------
(* What a quotient lies between, and what makes it grow.                   *)
LEMMA Quotient ==
  ASSUME NEW x \in Nat, NEW d \in Nat, d > 0
  PROVE  x \div d \in Nat /\ d * (x \div d) <= x /\ x < d * (x \div d) + d
  BY Z3

(* A quotient grows with what is divided.                                  *)
LEMMA QuotientGrows ==
  ASSUME NEW x \in Nat, NEW y \in Nat, NEW d \in Nat, d > 0, x <= y
  PROVE  x \div d <= y \div d
  BY SMT

(* And a product with its factor.                                          *)
LEMMA ProductGrows ==
  ASSUME NEW a \in Nat, NEW b \in Nat, NEW k \in Nat, a <= b
  PROVE  a * k \in Nat /\ b * k \in Nat /\ a * k <= b * k
  BY SMT

(* The divisor cancels.                                                    *)
LEMMA QuotientOfProduct ==
  ASSUME NEW d \in Nat, NEW k \in Nat, d > 0
  PROVE  (d * k) \div d = k
  BY SMT

(* A part of a whole is no more than the whole.                            *)
LEMMA QuotientBounded ==
  ASSUME NEW a \in Nat, NEW d \in Nat, NEW k \in Nat, d > 0, a <= d
  PROVE  (a * k) \div d \in 0..k
<1>1. a * k \in Nat /\ d * k \in Nat /\ a * k <= d * k
  BY ProductGrows
<1>2. (a * k) \div d <= (d * k) \div d
  BY <1>1, QuotientGrows
<1>3. (a * k) \div d \in Nat
  BY <1>1, Quotient
<1> QED
  BY <1>2, <1>3, QuotientOfProduct

-----------------------------------------------------------------------------
(* What a point of a regular curve is.                                     *)
Points == [temp : Int, speed : 0..Full]

(* The line from one point to the next: what interpolate_fan is made of.   *)
Line(p, n, t) ==
  p.speed + ((t - p.temp) * (n.speed - p.speed)) \div (n.temp - p.temp)

(* The points at or above a temperature.                                   *)
Above(c, t) == {i \in 2..Len(c) : t <= c[i].temp}

(* The speeds do not fall from point to point.                             *)
Raised(c) == \A i, j \in 1..Len(c) : i <= j => c[i].speed <= c[j].speed

(* interpolate_fan, said with the two.                                     *)
LEMMA InterpolateIs ==
  ASSUME NEW c, NEW t
  PROVE  Interpolate(c, t) =
           IF t <= c[1].temp THEN c[1].speed
           ELSE IF Above(c, t) = {} THEN c[Len(c)].speed
           ELSE Line(c[Min(Above(c, t)) - 1], c[Min(Above(c, t))], t)
  BY DEF Interpolate, Above, Line

(* The fields of a point.                                                  *)
LEMMA PointIs ==
  ASSUME NEW p \in Points
  PROVE  p.temp \in Int /\ p.speed \in Nat /\ p.speed <= Full
  BY EditorAssumption DEF Points

(* A line between two points stays between their speeds, rises, and ends   *)
(* in the second one.                                                      *)
LEMMA LineBetween ==
  ASSUME NEW p \in Points, NEW n \in Points, p.speed <= n.speed,
         NEW t \in Int, p.temp < t, t <= n.temp
  PROVE  /\ Line(p, n, t) \in Int /\ p.speed <= Line(p, n, t) /\ Line(p, n, t) <= n.speed
         /\ t + 1 <= n.temp => Line(p, n, t) <= Line(p, n, t + 1)
         /\ t = n.temp => Line(p, n, t) = n.speed
<1> DEFINE u == t + 1
<1>u. u \in Int /\ u = t + 1
  OBVIOUS
<1> HIDE DEF u
<1> DEFINE a == t - p.temp
           b == u - p.temp
           d == n.temp - p.temp
           k == n.speed - p.speed
<1>1. /\ p.temp \in Int /\ n.temp \in Int /\ p.speed \in Nat /\ n.speed \in Nat
  BY PointIs
<1>2. a \in Nat /\ b \in Nat /\ d \in Nat /\ d > 0 /\ k \in Nat /\ a <= d /\ a <= b
  BY <1>1, <1>u
<1>4. t = n.temp => a = d
  BY <1>1
<1>5. Line(p, n, t) = p.speed + (a * k) \div d
  BY DEF Line
<1>a. Line(p, n, u) = p.speed + (b * k) \div d
  BY DEF Line
<1>6. p.speed + k = n.speed
  BY <1>1
<1> HIDE DEF a, b, d, k
<1>7. (a * k) \div d \in 0..k
  BY <1>2, QuotientBounded
<1>8. (a * k) \div d <= (b * k) \div d
  BY <1>2, ProductGrows, QuotientGrows
<1>9. (b * k) \div d \in Nat
  BY <1>2, ProductGrows, Quotient
<1>10. t = n.temp => (a * k) \div d = k
  BY <1>2, <1>4, QuotientOfProduct
<1> DEFINE q == (a * k) \div d
           r == (b * k) \div d
<1>11. q \in 0..k /\ r \in Nat /\ q <= r /\ (t = n.temp => q = k)
  BY <1>7, <1>8, <1>9, <1>10
<1>12. Line(p, n, t) = p.speed + q /\ Line(p, n, u) = p.speed + r
  BY <1>5, <1>a
<1> HIDE DEF q, r
<1> QED
  BY <1>1, <1>2, <1>6, <1>11, <1>12, <1>u

(* Where a temperature meets the curve.                                    *)
LEMMA Meets ==
  ASSUME NEW c \in Seq(Points), Len(c) >= 2, Raised(c), NEW t \in Int,
         t > c[1].temp, Above(c, t) # {}, NEW m, m = Min(Above(c, t))
  PROVE  /\ m \in 2..Len(c) /\ c[m] \in Points /\ c[m - 1] \in Points
         /\ c[m - 1].speed <= c[m].speed /\ c[m - 1].temp < t /\ t <= c[m].temp
         /\ Interpolate(c, t) = Line(c[m - 1], c[m], t)
         /\ m \in Above(c, t) /\ \A i \in Above(c, t) : m <= i
<1>1. Above(c, t) \in SUBSET Nat /\ Len(c) \in Nat
  BY LenProperties DEF Above
<1>2. m \in Above(c, t) /\ \A i \in Above(c, t) : m <= i
  BY <1>1, MinOfNumbers
<1>3. m \in 2..Len(c) /\ t <= c[m].temp
  BY <1>2 DEF Above
<1>4. m \in 1..Len(c) /\ m - 1 \in 1..Len(c) /\ m - 1 < m
  BY <1>1, <1>3
<1>5. c[m] \in Points /\ c[m - 1] \in Points
  BY <1>4, ElementOfSeq
<1>6. c[m - 1].speed <= c[m].speed
  BY <1>4 DEF Raised
<1>7. c[m - 1].temp \in Int
  BY <1>5, PointIs
<1>8. c[m - 1].temp < t
  <2>1. CASE m = 2
    BY <1>7, <2>1
  <2>2. CASE m # 2
    <3>1. m - 1 \in 2..Len(c) /\ ~(m <= m - 1)
      BY <1>1, <1>3, <2>2
    <3>2. ~(t <= c[m - 1].temp)
      BY <1>2, <3>1 DEF Above
    <3> QED
      BY <1>7, <3>2
  <2> QED
    BY <2>1, <2>2
<1>9. c[1].temp \in Int /\ ~(t <= c[1].temp)
  <2>1. c[1] \in Points
    BY <1>1, ElementOfSeq
  <2> QED
    BY <2>1, PointIs
<1> QED
  BY <1>2, <1>3, <1>5, <1>6, <1>8, <1>9, InterpolateIs

(* A warmer sensor never asks for less, of whatever curve whose speeds do  *)
(* not fall: its temperatures need not even be in order.                   *)
LEMMA InterpolateRises ==
  ASSUME NEW c \in Seq(Points), Len(c) >= 2, Raised(c), NEW t \in Int
  PROVE  Interpolate(c, t) <= Interpolate(c, t + 1)
<1>1. Len(c) \in Nat /\ \A i \in 1..Len(c) : c[i] \in Points
  BY LenProperties, ElementOfSeq
<1>2. \A i \in 1..Len(c) : c[i].temp \in Int /\ c[i].speed \in Int
  BY <1>1, PointIs
<1>3. 1 \in 1..Len(c) /\ Len(c) \in 1..Len(c)
  BY <1>1
<1> DEFINE A == Above(c, t)
           B == Above(c, t + 1)
           m == Min(A)
           n == Min(B)
<1>4. B \subseteq A
  <2> SUFFICES ASSUME NEW i \in 2..Len(c), t + 1 <= c[i].temp PROVE t <= c[i].temp
    BY DEF Above
  <2>1. i \in 1..Len(c)
    BY <1>1
  <2> QED
    BY <1>2, <2>1
<1>5. CASE t + 1 <= c[1].temp
  <2>1. t <= c[1].temp
    BY <1>2, <1>3, <1>5
  <2>2. Interpolate(c, t) = c[1].speed /\ Interpolate(c, t + 1) = c[1].speed
    BY <1>5, <2>1, InterpolateIs
  <2> QED
    BY <1>2, <1>3, <2>2
<1>6. CASE t <= c[1].temp /\ t + 1 > c[1].temp
  <2>1. Interpolate(c, t) = c[1].speed
    BY <1>6, InterpolateIs
  <2>2. CASE B = {}
    <3>1. ~(t + 1 <= c[1].temp)
      BY <1>2, <1>3, <1>6
    <3>2. Interpolate(c, t + 1) = c[Len(c)].speed
      BY <2>2, <3>1, InterpolateIs
    <3>3. c[1].speed <= c[Len(c)].speed
      BY <1>1, <1>3 DEF Raised
    <3> QED
      BY <2>1, <3>2, <3>3
  <2>3. CASE B # {}
    <3>1. /\ n \in 2..Len(c) /\ c[n] \in Points /\ c[n - 1] \in Points
          /\ c[n - 1].speed <= c[n].speed /\ c[n - 1].temp < t + 1 /\ t + 1 <= c[n].temp
          /\ Interpolate(c, t + 1) = Line(c[n - 1], c[n], t + 1)
      BY <1>6, <2>3, Meets
    <3> HIDE DEF n
    <3>2. c[n - 1].speed <= Interpolate(c, t + 1) /\ Interpolate(c, t + 1) \in Int
      BY <3>1, LineBetween
    <3>3. n - 1 \in 1..Len(c) /\ 1 <= n - 1
      BY <1>1, <3>1
    <3>4. c[1].speed <= c[n - 1].speed
      BY <1>3, <3>3 DEF Raised
    <3> QED
      BY <1>2, <1>3, <2>1, <3>2, <3>3, <3>4
  <2> QED
    BY <2>2, <2>3
<1>7. CASE t > c[1].temp
  <2>0. t + 1 > c[1].temp /\ ~(t <= c[1].temp) /\ ~(t + 1 <= c[1].temp)
    BY <1>2, <1>3, <1>7
  <2>1. CASE A = {}
    <3>1. B = {}
      BY <1>4, <2>1
    <3>2. Interpolate(c, t) = c[Len(c)].speed /\ Interpolate(c, t + 1) = c[Len(c)].speed
      BY <2>0, <2>1, <3>1, InterpolateIs
    <3> QED
      BY <1>2, <1>3, <3>2
  <2>2. ASSUME A # {}
        PROVE  /\ m \in 2..Len(c) /\ c[m] \in Points /\ c[m - 1] \in Points
               /\ c[m - 1].speed <= c[m].speed /\ c[m - 1].temp < t /\ t <= c[m].temp
               /\ Interpolate(c, t) = Line(c[m - 1], c[m], t)
               /\ \A i \in A : m <= i
    BY <1>7, <2>2, Meets
  <2>3. ASSUME A # {}
        PROVE  Interpolate(c, t) <= c[m].speed /\ Interpolate(c, t) \in Int /\ m \in 1..Len(c)
    BY <2>2, <2>3, LineBetween
  <2>4. ASSUME B # {}
        PROVE  /\ n \in 2..Len(c) /\ c[n] \in Points /\ c[n - 1] \in Points
               /\ c[n - 1].speed <= c[n].speed /\ c[n - 1].temp < t + 1 /\ t + 1 <= c[n].temp
               /\ Interpolate(c, t + 1) = Line(c[n - 1], c[n], t + 1)
               /\ n \in B
    BY <2>0, <2>4, Meets
  <2>5. ASSUME B # {}
        PROVE  c[n - 1].speed <= Interpolate(c, t + 1) /\ Interpolate(c, t + 1) \in Int
    BY <2>4, <2>5, LineBetween
  <2> HIDE DEF m, n
  <2>6. CASE A # {} /\ B = {}
    <3>1. Interpolate(c, t + 1) = c[Len(c)].speed
      BY <2>0, <2>6, InterpolateIs
    <3>2. c[m].speed <= c[Len(c)].speed
      BY <1>1, <1>3, <2>3, <2>6 DEF Raised
    <3> QED
      BY <1>2, <1>3, <2>3, <2>6, <3>1, <3>2
  <2>7. CASE A # {} /\ B # {}
    <3>1. m <= n /\ m \in 2..Len(c) /\ n \in 2..Len(c)
      BY <1>4, <2>2, <2>4, <2>7
    <3>2. CASE m = n
      <4>1. t + 1 <= c[m].temp
        BY <2>4, <2>7, <3>2
      <4>2. Line(c[m - 1], c[m], t) <= Line(c[m - 1], c[m], t + 1)
        BY <2>2, <2>7, <4>1, LineBetween
      <4> QED
        BY <2>2, <2>4, <2>7, <3>2, <4>2
    <3>3. CASE m # n
      <4>1. m <= n - 1 /\ n - 1 \in 1..Len(c) /\ m \in 1..Len(c)
        BY <1>1, <3>1, <3>3
      <4>2. c[m].speed <= c[n - 1].speed
        BY <4>1 DEF Raised
      <4>3. c[m].speed \in Int /\ c[n - 1].speed \in Int
        BY <1>2, <4>1
      <4>4. Interpolate(c, t) <= c[m].speed /\ Interpolate(c, t) \in Int
        BY <2>3, <2>7
      <4>5. c[n - 1].speed <= Interpolate(c, t + 1) /\ Interpolate(c, t + 1) \in Int
        BY <2>5, <2>7
      <4> QED
        BY <4>2, <4>3, <4>4, <4>5
    <3> QED
      BY <3>2, <3>3
  <2> QED
    BY <1>4, <2>1, <2>6, <2>7
<1> QED
  BY <1>2, <1>3, <1>5, <1>6, <1>7

-----------------------------------------------------------------------------
(* A point as a file or a drag may have it.                                *)
RawPoints == [temp : Int, speed : Int]

(* The order that sort_by_key puts the points in.                          *)
Before(raw, i, j) ==
  raw[i].temp < raw[j].temp \/ (raw[i].temp = raw[j].temp /\ i < j)

(* What sort_by_key orders by is a strict total order.                     *)
LEMMA BeforeOrders ==
  ASSUME NEW raw \in Seq(RawPoints), NEW i \in 1..Len(raw), NEW j \in 1..Len(raw)
  PROVE  /\ i # j => Before(raw, i, j) \/ Before(raw, j, i)
         /\ Before(raw, i, j) => ~Before(raw, j, i) /\ i # j
         /\ \A k \in 1..Len(raw) :
              Before(raw, i, j) /\ Before(raw, j, k) => Before(raw, i, k)
<1>1. \A k \in 1..Len(raw) : raw[k].temp \in Int
  <2>1. \A k \in 1..Len(raw) : raw[k] \in RawPoints
    BY ElementOfSeq
  <2> QED
    BY <2>1 DEF RawPoints
<1>2. Len(raw) \in Nat
  BY LenProperties
<1> QED
  BY <1>1, <1>2 DEF Before

(* There is such an order: every point goes where the number of the points *)
(* up to it says.                                                          *)
LEMMA OrderExists ==
  ASSUME NEW raw \in Seq(RawPoints)
  PROVE  \E order \in [1..Len(raw) -> 1..Len(raw)] :
           \A i, j \in 1..Len(raw) : i < j => Before(raw, order[i], order[j])
<1> DEFINE D == 1..Len(raw)
           UpTo(i) == {j \in D : j = i \/ Before(raw, j, i)}
           rank == [i \in D |-> Cardinality(UpTo(i))]
<1>1. Len(raw) \in Nat
  BY LenProperties
<1>2. IsFiniteSet(D) /\ Cardinality(D) = Len(raw)
  BY <1>1, FS_Interval
<1>3. ASSUME NEW i \in D
      PROVE  IsFiniteSet(UpTo(i)) /\ rank[i] \in D
  <2>1. UpTo(i) \in SUBSET D /\ i \in UpTo(i)
    OBVIOUS
  <2> DEFINE U == UpTo(i)
  <2> HIDE DEF UpTo
  <2>2. IsFiniteSet(U) /\ Cardinality(U) <= Cardinality(D)
    BY <1>2, <2>1, FS_Subset
  <2>3. Cardinality(U) \in Nat /\ Cardinality(U) # 0
    BY <2>1, <2>2, FS_CardinalityType, FS_EmptySet
  <2>4. rank[i] = Cardinality(U)
    OBVIOUS
  <2> HIDE DEF U, rank
  <2>5. rank[i] \in 1..Len(raw)
    BY <1>1, <1>2, <2>2, <2>3, <2>4
  <2> QED
    BY <2>2, <2>5 DEF U
<1>4. ASSUME NEW i \in D, NEW j \in D, Before(raw, i, j)
      PROVE  rank[i] < rank[j]
  <2>1. UpTo(i) \in SUBSET UpTo(j)
    BY <1>4, BeforeOrders
  <2>2. j \in UpTo(j) /\ j \notin UpTo(i)
    BY <1>4, BeforeOrders
  <2>3. IsFiniteSet(UpTo(j)) /\ IsFiniteSet(UpTo(i))
    BY <1>3
  <2>4. rank[i] = Cardinality(UpTo(i)) /\ rank[j] = Cardinality(UpTo(j))
    OBVIOUS
  <2> HIDE DEF UpTo, rank
  <2>5. rank[i] \in Int /\ rank[j] \in Int
    BY <1>1, <1>3
  <2>6. Cardinality(UpTo(i)) <= Cardinality(UpTo(j)) /\ Cardinality(UpTo(i)) # Cardinality(UpTo(j))
    BY <2>1, <2>2, <2>3, FS_Subset
  <2> QED
    BY <2>4, <2>5, <2>6
<1>5. rank \in [D -> D]
  BY <1>3
<1>6. \A i, j \in D : i # j => rank[i] # rank[j]
  <2> SUFFICES ASSUME NEW i \in D, NEW j \in D, i # j PROVE rank[i] # rank[j]
    OBVIOUS
  <2>1. Before(raw, i, j) \/ Before(raw, j, i)
    BY BeforeOrders
  <2>2. rank[i] < rank[j] \/ rank[j] < rank[i]
    BY <1>4, <2>1
  <2> HIDE DEF rank, UpTo
  <2>3. rank[i] \in D /\ rank[j] \in D
    BY <1>3
  <2>4. rank[i] \in Int /\ rank[j] \in Int
    BY <1>1, <2>3
  <2> QED
    BY <2>2, <2>4
<1> HIDE DEF rank, UpTo
<1>7. rank \in Injection(D, D)
  BY <1>5, <1>6 DEF Injection, IsInjective
<1>8. rank \in Surjection(D, D)
  BY <1>2, <1>7, FS_Injection
<1>9. \A r \in D : \E i \in D : rank[i] = r
  BY <1>8 DEF Surjection
<1> DEFINE order == [r \in D |-> CHOOSE i \in D : rank[i] = r]
<1>10. \A r \in D : order[r] \in D /\ rank[order[r]] = r
  BY <1>9
<1>11. order \in [D -> D]
  BY <1>10
<1> HIDE DEF order
<1>12. ASSUME NEW i \in D, NEW j \in D, i < j
       PROVE  Before(raw, order[i], order[j])
  <2>1. i \in Int /\ j \in Int /\ rank[order[i]] = i /\ rank[order[j]] = j
    BY <1>1, <1>10
  <2>2. order[i] # order[j] /\ ~(rank[order[j]] < rank[order[i]])
    BY <1>12, <2>1
  <2> QED
    BY <1>4, <1>10, <2>2, BeforeOrders
<1> QED
  BY <1>11, <1>12

(* So Sorted is such an order: the points one by one, none left out.       *)
LEMMA SortedIs ==
  ASSUME NEW raw \in Seq(RawPoints), NEW order, order = Sorted(raw)
  PROVE  /\ order \in [1..Len(raw) -> 1..Len(raw)]
         /\ \A i, j \in 1..Len(raw) : i < j => Before(raw, order[i], order[j])
<1>1. DOMAIN raw = 1..Len(raw)
  BY LenProperties
<1>2. order = CHOOSE o \in [1..Len(raw) -> 1..Len(raw)] :
                \A i, j \in 1..Len(raw) : i < j => Before(raw, o[i], o[j])
  BY <1>1 DEF Sorted, Before
<1> QED
  BY <1>2, OrderExists

-----------------------------------------------------------------------------
(* A set of speeds has its largest element, which Max chooses.             *)
LEMMA MaxOfSpeeds ==
  ASSUME NEW S \in SUBSET (0..Full), S # {}
  PROVE  Max(S) \in S /\ \A y \in S : y <= Max(S)
<1> DEFINE T == {Full - x : x \in S}
<1>1. T \in SUBSET Nat /\ T # {}
  <2>1. \A x \in 0..Full : Full - x \in Nat
    BY EditorAssumption
  <2> QED
    BY <2>1
<1>2. Min(T) \in T /\ \A y \in T : Min(T) <= y
  BY <1>1, MinOfNumbers
<1>3. PICK x \in S : Min(T) = Full - x
  BY <1>2
<1>4. \A y \in S : Full - x <= Full - y
  BY <1>2, <1>3
<1>5. \A y \in S : y <= x
  BY <1>4, EditorAssumption
<1>6. \E m \in S : \A y \in S : m >= y
  BY <1>5
<1>7. Max(S) \in S /\ \A y \in S : Max(S) >= y
  BY <1>6 DEF Max
<1> QED
  BY <1>7, EditorAssumption

(* A speed on the scale is left as it is.                                  *)
LEMMA Clamped ==
  ASSUME NEW v \in Int
  PROVE  Clamp(0, v, Full) \in 0..Full /\ (v \in 0..Full => Clamp(0, v, Full) = v)
  BY EditorAssumption DEF Clamp

(* The length of a sequence is the end of its domain.                      *)
LEMMA LengthIs ==
  ASSUME NEW S, NEW n \in Nat, NEW c \in [1..n -> S]
  PROVE  c \in Seq(S) /\ Len(c) = n
<1>1. c \in Seq(S)
  BY SeqDef
<1>2. Len(c) \in Nat /\ 1..Len(c) = 1..n
  BY <1>1, LenProperties
<1>3. n \in 1..n \/ n = 0
  OBVIOUS
<1>4. Len(c) \in 1..Len(c) \/ Len(c) = 0
  BY <1>2
<1> QED
  BY <1>1, <1>2, <1>3, <1>4

-----------------------------------------------------------------------------
(* The temperatures rise from one end of the axis to the other.            *)
Rising(c) ==
  /\ c[1].temp = Low /\ c[Len(c)].temp = High
  /\ \A i, j \in 1..Len(c) : i < j => c[i].temp < c[j].temp

(* Of two points in order the first is not the last, nor the other first.  *)
LEMMA NotTheEnds ==
  ASSUME NEW n \in Nat, NEW i \in 1..n, NEW j \in 1..n, i < j
  PROVE  i # n /\ j # 1
  OBVIOUS

(* What normalize_fan_points is of two points and more.                    *)
LEMMA NormalizeIs ==
  ASSUME NEW raw \in Seq(RawPoints), Len(raw) >= 2, NEW order, order = Sorted(raw),
         NEW c, c = Normalize(raw)
  PROVE  /\ c \in [1..Len(raw) -> Points]
         /\ \A i \in 1..Len(raw) :
              /\ c[i].temp = IF i = Len(raw) THEN High
                             ELSE IF i = 1 THEN Low ELSE raw[order[i]].temp
              /\ c[i].speed \in {Clamp(0, raw[order[j]].speed, Full) : j \in 1..i}
              /\ \A j \in 1..i : Clamp(0, raw[order[j]].speed, Full) <= c[i].speed
<1> DEFINE n == Len(raw)
           UpTo(i) == {Clamp(0, raw[order[j]].speed, Full) : j \in 1..i}
           T(i) == IF i = n THEN High ELSE IF i = 1 THEN Low ELSE raw[order[i]].temp
<1>1. n \in Nat /\ DOMAIN raw = 1..n
  BY LenProperties
<1>2. c = [i \in 1..n |-> [temp |-> T(i), speed |-> Max(UpTo(i))]]
  <2>1. ~(Len(raw) < 2)
    BY <1>1
  <2>2. order = Sorted(raw)
    OBVIOUS
  <2>3. Normalize(raw) = [i \in DOMAIN raw |-> [temp |-> T(i), speed |-> Max(UpTo(i))]]
    BY <2>1, <2>2, Zenon DEF Normalize
  <2> QED
    BY <1>1, <2>3
<1>3. order \in [1..n -> 1..n]
  BY SortedIs
<1>4. \A k \in 1..n : raw[k].temp \in Int /\ raw[k].speed \in Int
  <2>1. \A k \in 1..n : raw[k] \in RawPoints
    BY ElementOfSeq
  <2> QED
    BY <2>1 DEF RawPoints
<1>5. ASSUME NEW i \in 1..n
      PROVE  Max(UpTo(i)) \in UpTo(i) /\ Max(UpTo(i)) \in 0..Full
             /\ \A y \in UpTo(i) : y <= Max(UpTo(i))
  <2>1. \A j \in 1..i : order[j] \in 1..n
    BY <1>1, <1>3
  <2>2. \A j \in 1..i : Clamp(0, raw[order[j]].speed, Full) \in 0..Full
    BY <1>4, <2>1, Clamped
  <2>3. UpTo(i) \in SUBSET (0..Full)
    BY <2>2
  <2>4. i \in 1..i
    BY <1>1
  <2>5. UpTo(i) # {}
    BY <2>4
  <2> HIDE DEF UpTo
  <2> QED
    BY <2>3, <2>5, MaxOfSpeeds
<1>6. ASSUME NEW i \in 1..n
      PROVE  T(i) \in Int
  <2>1. order[i] \in 1..n
    BY <1>3
  <2>2. raw[order[i]].temp \in Int
    BY <1>4, <2>1
  <2>3. Low \in Int /\ High \in Int
    BY EditorAssumption
  <2> QED
    BY <2>2, <2>3
<1>7. \A i \in 1..n : \A j \in 1..i :
        Clamp(0, raw[order[j]].speed, Full) \in UpTo(i)
  OBVIOUS
<1>8. \A i \in 1..n : c[i].temp = T(i) /\ c[i].speed = Max(UpTo(i))
  BY <1>2
<1> HIDE DEF UpTo, T
<1>9. c \in [1..n -> Points]
  BY <1>2, <1>5, <1>6 DEF Points
<1>10. \A i \in 1..n :
         /\ c[i].temp = T(i) /\ c[i].speed \in UpTo(i)
         /\ \A j \in 1..i : Clamp(0, raw[order[j]].speed, Full) <= c[i].speed
  BY <1>5, <1>7, <1>8
<1> QED
  BY <1>9, <1>10 DEF T, UpTo

(* A sequence of points, whatever it was made of, comes out regular, and   *)
(* on the axis if it was.                                                  *)
LEMMA Normalized ==
  ASSUME NEW raw \in Seq(RawPoints), NEW c, c = Normalize(raw)
  PROVE  /\ c \in Seq(Points) /\ Len(c) >= 2 /\ Raised(c)
         /\ Len(raw) >= 2 => Len(c) = Len(raw)
         /\ OnAxis(raw) => Rising(c)
<1>0. Len(raw) \in Nat /\ DOMAIN raw = 1..Len(raw)
  BY LenProperties
<1>1. CASE Len(raw) < 2
  <2> DEFINE p == [temp |-> Low, speed |-> 0]
             q == [temp |-> High, speed |-> Full]
  <2>1. c = <<p, q>>
    BY <1>1 DEF Normalize
  <2>2. p \in Points /\ q \in Points
    BY EditorAssumption DEF Points
  <2>3. p.temp = Low /\ p.speed = 0 /\ q.temp = High /\ q.speed = Full
    OBVIOUS
  <2> HIDE DEF p, q
  <2>4. c \in Seq(Points) /\ Len(c) = 2 /\ c[1] = p /\ c[2] = q
    BY <2>1, <2>2
  <2>5. 0 <= Full /\ 0 <= 0 /\ Full <= Full /\ Low < High /\ Low \in Int /\ High \in Int
    BY EditorAssumption
  <2>6. \A i \in 1..2 : i = 1 \/ i = 2
    OBVIOUS
  <2>7. Raised(c)
    <3> SUFFICES ASSUME NEW i \in 1..2, NEW j \in 1..2, i <= j PROVE c[i].speed <= c[j].speed
      BY <2>4 DEF Raised
    <3>1. (i = 1 /\ j = 1) \/ (i = 1 /\ j = 2) \/ (i = 2 /\ j = 2)
      BY <2>6
    <3> QED
      BY <2>3, <2>4, <2>5, <3>1
  <2>8. Rising(c)
    <3>1. c[1].temp = Low /\ c[Len(c)].temp = High
      BY <2>3, <2>4
    <3>2. ASSUME NEW i \in 1..Len(c), NEW j \in 1..Len(c), i < j PROVE c[i].temp < c[j].temp
      <4>1. i = 1 /\ j = 2
        BY <2>4, <2>6, <3>2
      <4> QED
        BY <2>3, <2>4, <2>5, <4>1
    <3> QED
      BY <3>1, <3>2 DEF Rising
  <2> QED
    BY <1>1, <2>4, <2>7, <2>8
<1>2. CASE Len(raw) >= 2
  <2> DEFINE n == Len(raw)
             order == Sorted(raw)
             S(j) == Clamp(0, raw[order[j]].speed, Full)
  <2>1. /\ c \in [1..n -> Points]
        /\ \A i \in 1..n :
             /\ c[i].temp = IF i = n THEN High ELSE IF i = 1 THEN Low ELSE raw[order[i]].temp
             /\ c[i].speed \in {S(j) : j \in 1..i}
             /\ \A j \in 1..i : S(j) <= c[i].speed
    BY <1>2, NormalizeIs
  <2>2. order \in [1..n -> 1..n] /\ \A i, j \in 1..n : i < j => Before(raw, order[i], order[j])
    BY SortedIs
  <2>3. \A k \in 1..n : raw[k].temp \in Int
    <3>1. \A k \in 1..n : raw[k] \in RawPoints
      BY ElementOfSeq
    <3> QED
      BY <3>1 DEF RawPoints
  <2>4. \A i \in 1..n : c[i].speed \in Int
    BY <2>1, EditorAssumption DEF Points
  <2> HIDE DEF order, S
  <2>5. c \in Seq(Points) /\ Len(c) = n
    BY <1>0, <2>1, LengthIs
  <2>6. Raised(c)
    <3> SUFFICES ASSUME NEW i \in 1..n, NEW j \in 1..n, i <= j PROVE c[i].speed <= c[j].speed
      BY <2>5 DEF Raised
    <3>1. PICK k \in 1..i : c[i].speed = S(k)
      BY <2>1
    <3>2. k \in 1..j
      BY <1>0
    <3>3. S(k) <= c[j].speed
      BY <2>1, <3>2
    <3> QED
      BY <3>1, <3>3
  <2>7. ASSUME OnAxis(raw) PROVE Rising(c)
    <3> DEFINE t == [i \in 1..n |-> raw[order[i]].temp]
    <3>1. \A i \in 1..n : t[i] \in Int /\ Low <= t[i] /\ t[i] <= High
      BY <1>0, <2>2, <2>3, <2>7, EditorAssumption DEF OnAxis
    <3>2. \A i, j \in 1..n : i < j => t[i] < t[j]
      <4> SUFFICES ASSUME NEW i \in 1..n, NEW j \in 1..n, i < j
                   PROVE  raw[order[i]].temp < raw[order[j]].temp
        OBVIOUS
      <4>1. order[i] \in 1..n /\ order[j] \in 1..n /\ Before(raw, order[i], order[j])
        BY <2>2
      <4>2. order[i] # order[j]
        BY <4>1, BeforeOrders
      <4>3. raw[order[i]].temp # raw[order[j]].temp
        BY <1>0, <2>7, <4>1, <4>2 DEF OnAxis
      <4> QED
        BY <4>1, <4>3 DEF Before
    <3>3. \A i \in 1..n :
            c[i].temp = IF i = n THEN High ELSE IF i = 1 THEN Low ELSE t[i]
      BY <2>1
    <3> HIDE DEF t
    <3>4. 1 \in 1..n /\ n \in 1..n /\ 1 # n
      BY <1>0, <1>2
    <3>5. c[1].temp = Low /\ c[n].temp = High
      BY <3>3, <3>4
    <3>6. ASSUME NEW i \in 1..n, NEW j \in 1..n, i < j PROVE c[i].temp < c[j].temp
      <4>d. t[i] < t[j]
        BY <3>2, <3>6
      <4>1. i # n /\ j # 1 /\ t[i] < t[j]
        <5>1. i # n /\ j # 1
          BY <1>0, <3>6, NotTheEnds
        <5> QED
          BY <4>d, <5>1
      <4>a. Low \in Int /\ High \in Int /\ t[i] \in Int /\ t[j] \in Int
        BY <3>1, EditorAssumption
      <4>b. c[i].temp = Low \/ c[i].temp = t[i]
        BY <3>3, <4>1
      <4>c. c[j].temp = High \/ c[j].temp = t[j]
        BY <3>3, <4>1
      <4>2. c[i].temp \in Int /\ c[i].temp <= t[i]
        BY <3>1, <4>a, <4>b
      <4>3. c[j].temp \in Int /\ t[j] <= c[j].temp
        BY <3>1, <4>a, <4>c
      <4>4. t[i] \in Int /\ t[j] \in Int
        BY <3>1
      <4> QED
        BY <4>1, <4>2, <4>3, <4>4
    <3> QED
      BY <2>5, <3>5, <3>6 DEF Rising
  <2> QED
    BY <1>2, <2>5, <2>6, <2>7
<1> QED
  BY <1>0, <1>1, <1>2

-----------------------------------------------------------------------------
(* What rises from the first to the last without a gap is the identity.    *)
LEMMA Identity ==
  ASSUME NEW n \in Nat, NEW f \in [1..n -> 1..n],
         \A i, j \in 1..n : i < j => f[i] < f[j]
  PROVE  \A i \in 1..n : f[i] = i
<1>0. \A i \in 1..n : i \in Nat /\ f[i] \in Nat /\ 1 <= f[i] /\ f[i] <= n
  OBVIOUS
<1>1. \A i \in 1..n : i <= f[i]
  <2> DEFINE B == {i \in 1..n : f[i] < i}
  <2>1. ASSUME B # {} PROVE FALSE
    <3>1. B \in SUBSET Nat
      BY <1>0
    <3> DEFINE m == Min(B)
    <3>2. m \in B /\ \A y \in B : m <= y
      BY <2>1, <3>1, MinOfNumbers
    <3> HIDE DEF m
    <3>3. m \in 1..n /\ f[m] < m
      BY <3>2
    <3>4. m - 1 \in 1..n /\ m - 1 < m /\ ~(m <= m - 1)
      BY <1>0, <3>3
    <3>5. ~(f[m - 1] < m - 1)
      BY <3>2, <3>4
    <3>6. f[m - 1] < f[m]
      BY <3>3, <3>4
    <3> QED
      BY <1>0, <3>3, <3>4, <3>5, <3>6
  <2>2. \A i \in 1..n : ~(f[i] < i)
    BY <2>1
  <2> QED
    BY <1>0, <2>2
<1>2. \A i \in 1..n : f[i] <= i
  <2> DEFINE B == {n - i : i \in {k \in 1..n : f[k] > k}}
  <2>1. ASSUME B # {} PROVE FALSE
    <3>1. B \in SUBSET Nat
      <4>1. \A i \in 1..n : n - i \in Nat
        OBVIOUS
      <4> QED
        BY <4>1, Zenon
    <3> DEFINE l == Min(B)
    <3>2. l \in B /\ \A y \in B : l <= y
      BY <2>1, <3>1, MinOfNumbers
    <3> HIDE DEF l
    <3>3. PICK m \in 1..n : l = n - m /\ f[m] > m
      BY <3>2
    <3>4. m + 1 \in 1..n /\ m < m + 1 /\ ~(n - m <= n - (m + 1))
      BY <1>0, <3>3
    <3>5. ~(f[m + 1] > m + 1)
      <4>1. f[m + 1] > m + 1 => n - (m + 1) \in B
        BY <3>4
      <4> QED
        BY <3>2, <3>3, <3>4, <4>1
    <3>6. f[m] < f[m + 1]
      BY <3>3, <3>4
    <3> QED
      BY <1>0, <3>3, <3>4, <3>5, <3>6
  <2>2. \A i \in 1..n : ~(f[i] > i)
    BY <2>1
  <2> QED
    BY <1>0, <2>2
<1> QED
  BY <1>0, <1>1, <1>2

(* A point is its two fields.                                              *)
LEMMA SamePoint ==
  ASSUME NEW p \in Points, NEW q \in Points, p.temp = q.temp, p.speed = q.speed
  PROVE  p = q
  BY DEF Points

(* A regular curve may be made regular again.                              *)
LEMMA PointsAreRaw ==
  ASSUME NEW c \in Seq(Points)
  PROVE  c \in Seq(RawPoints)
<1>1. Points \subseteq RawPoints
  BY EditorAssumption DEF Points, RawPoints
<1> QED
  BY <1>1, SeqMonotonic

(* A regular curve is made no different: what the daemon makes of it when  *)
(* it is pushed is what is on show.                                        *)
LEMMA RegularStays ==
  ASSUME NEW c \in Seq(Points), Len(c) >= 2, Raised(c), Rising(c)
  PROVE  Normalize(c) = c
<1> DEFINE n == Len(c)
           order == Sorted(c)
           new == Normalize(c)
<1>1. n \in Nat /\ c \in Seq(RawPoints) /\ \A i \in 1..n : c[i] \in Points
  BY LenProperties, PointsAreRaw, ElementOfSeq
<1>2. order \in [1..n -> 1..n] /\ \A i, j \in 1..n : i < j => Before(c, order[i], order[j])
  BY <1>1, SortedIs
<1>3. /\ new \in [1..n -> Points]
      /\ \A i \in 1..n :
           /\ new[i].temp = IF i = n THEN High ELSE IF i = 1 THEN Low ELSE c[order[i]].temp
           /\ new[i].speed \in {Clamp(0, c[order[j]].speed, Full) : j \in 1..i}
           /\ \A j \in 1..i : Clamp(0, c[order[j]].speed, Full) <= new[i].speed
  BY <1>1, NormalizeIs
<1> HIDE DEF order, new
<1>4. \A i \in 1..n : c[i].temp \in Int /\ c[i].speed \in Int /\ c[i].speed \in 0..Full
  BY <1>1 DEF Points
<1>5. ASSUME NEW i \in 1..n, NEW j \in 1..n, i < j
      PROVE  order[i] < order[j]
  <2>1. order[i] \in 1..n /\ order[j] \in 1..n /\ Before(c, order[i], order[j])
    BY <1>2, <1>5
  <2>2. ~(order[j] < order[i])
    <3>1. order[j] < order[i] => c[order[j]].temp < c[order[i]].temp
      BY <2>1 DEF Rising
    <3> QED
      BY <1>4, <2>1, <3>1 DEF Before
  <2>3. order[i] # order[j]
    BY <1>1, <2>1, BeforeOrders
  <2> QED
    BY <1>1, <2>1, <2>2, <2>3
<1>6. \A i \in 1..n : order[i] = i
  BY <1>1, <1>2, <1>5, Identity
<1>7. ASSUME NEW i \in 1..n
      PROVE  new[i] = c[i]
  <2>1. new[i].temp = c[i].temp
    BY <1>3, <1>6 DEF Rising
  <2>2. \A j \in 1..i : order[j] = j /\ j \in 1..n /\ c[j].speed <= c[i].speed
    <3>1. \A j \in 1..i : j \in 1..n /\ j <= i
      BY <1>1
    <3> QED
      BY <1>6, <3>1 DEF Raised
  <2>3. \A j \in 1..i : Clamp(0, c[order[j]].speed, Full) = c[j].speed
    BY <1>4, <2>2, Clamped
  <2>4. PICK k \in 1..i : new[i].speed = Clamp(0, c[order[k]].speed, Full)
    BY <1>3
  <2>5. new[i].speed = c[k].speed /\ c[k].speed <= c[i].speed
    BY <2>2, <2>3, <2>4
  <2>6. i \in 1..i
    BY <1>1
  <2>7. c[i].speed <= new[i].speed
    BY <1>3, <2>3, <2>6
  <2>8. new[i].speed = c[i].speed
    <3>1. new[i].speed \in Int /\ c[i].speed \in Int
      BY <1>4, <2>2, <2>5
    <3> QED
      BY <2>5, <2>7, <3>1
  <2> QED
    BY <1>1, <1>3, <2>1, <2>8, SamePoint
<1>8. new \in Seq(Points) /\ Len(new) = n
  BY <1>1, <1>3, LengthIs
<1> QED
  BY <1>7, <1>8, SeqEqual DEF new

(* At the end of the axis a regular curve is at its last speed.            *)
LEMMA LastDegree ==
  ASSUME NEW c \in Seq(Points), Len(c) >= 2, Raised(c), Rising(c)
  PROVE  Interpolate(c, High) = Last(c).speed
<1> DEFINE n == Len(c)
           A == Above(c, High)
           m == Min(A)
<1>1. n \in Nat /\ n \in 2..n /\ 1 \in 1..n /\ n \in 1..n /\ 1 < n
  BY LenProperties
<1>2. c[1].temp = Low /\ c[n].temp = High /\ High \in Int /\ High > Low
  BY EditorAssumption DEF Rising
<1>3. n \in A
  BY <1>1, <1>2 DEF Above
<1>4. /\ m \in 2..n /\ c[m] \in Points /\ c[m - 1] \in Points
      /\ c[m - 1].speed <= c[m].speed /\ c[m - 1].temp < High /\ High <= c[m].temp
      /\ Interpolate(c, High) = Line(c[m - 1], c[m], High)
  BY <1>2, <1>3, Meets
<1> HIDE DEF m
<1>5. m = n
  <2>1. CASE m < n
    <3>1. c[m].temp < c[n].temp
      BY <1>1, <1>4, <2>1 DEF Rising
    <3>2. c[m].temp \in Int
      BY <1>4, PointIs
    <3> QED
      BY <1>2, <1>4, <3>1, <3>2
  <2> QED
    BY <1>1, <1>4, <2>1
<1>6. Line(c[m - 1], c[m], High) = c[m].speed
  BY <1>2, <1>4, <1>5, LineBetween
<1> QED
  BY <1>4, <1>5, <1>6 DEF Last

-----------------------------------------------------------------------------
(* A point taken out, and one put in between.                              *)
LEMMA Removed ==
  ASSUME NEW S, NEW c \in Seq(S), NEW k \in 1..Len(c), NEW new, new = RemoveAt(c, k)
  PROVE  /\ new \in Seq(S) /\ Len(new) = Len(c) - 1
         /\ \A i \in 1..Len(new) : new[i] = IF i < k THEN c[i] ELSE c[i + 1]
<1>1. Len(c) \in Nat /\ \A i \in 1..Len(c) : c[i] \in S
  BY LenProperties, ElementOfSeq
<1> DEFINE a == SubSeq(c, 1, k - 1)
           b == SubSeq(c, k + 1, Len(c))
<1>2. /\ a \in Seq(S) /\ Len(a) = k - 1 /\ \A i \in 1..k - 1 : a[i] = c[i]
  <2>1. 1 \in Int /\ k - 1 \in Int /\ \A i \in 1..(k - 1) : c[i] \in S
    BY <1>1
  <2>2. /\ a \in Seq(S) /\ Len(a) = IF 1 <= k - 1 THEN k - 1 - 1 + 1 ELSE 0
        /\ \A i \in 1..(k - 1) - 1 + 1 : a[i] = c[1 + i - 1]
    BY <2>1, SubSeqProperties
  <2> HIDE DEF a
  <2>3. Len(a) = k - 1
    BY <1>1, <2>2
  <2>4. \A i \in 1..k - 1 : a[i] = c[i]
    BY <1>1, <2>2
  <2> QED
    BY <2>2, <2>3, <2>4
<1>3. /\ b \in Seq(S) /\ Len(b) = Len(c) - k /\ \A i \in 1..Len(c) - k : b[i] = c[k + i]
  <2>1. k + 1 \in Int /\ Len(c) \in Int /\ \A i \in (k + 1)..Len(c) : c[i] \in S
    BY <1>1
  <2>2. /\ b \in Seq(S) /\ Len(b) = IF k + 1 <= Len(c) THEN Len(c) - (k + 1) + 1 ELSE 0
        /\ \A i \in 1..Len(c) - (k + 1) + 1 : b[i] = c[k + 1 + i - 1]
    BY <2>1, SubSeqProperties
  <2> HIDE DEF b
  <2>3. Len(b) = Len(c) - k
    BY <1>1, <2>2
  <2>4. \A i \in 1..Len(c) - k : b[i] = c[k + i]
    BY <1>1, <2>2
  <2> QED
    BY <2>2, <2>3, <2>4
<1>4. new = a \o b
  BY DEF RemoveAt
<1> HIDE DEF a, b
<1>5. /\ new \in Seq(S) /\ Len(new) = Len(a) + Len(b)
      /\ \A i \in 1..Len(a) + Len(b) : new[i] = IF i <= Len(a) THEN a[i] ELSE b[i - Len(a)]
  <2>1. a \in Seq(S) /\ b \in Seq(S)
    BY <1>2, <1>3
  <2>2. /\ a \o b \in Seq(S) /\ Len(a \o b) = Len(a) + Len(b)
        /\ \A i \in 1..Len(a) + Len(b) :
             (a \o b)[i] = IF i <= Len(a) THEN a[i] ELSE b[i - Len(a)]
    BY <2>1, ConcatProperties
  <2> QED
    BY <1>4, <2>2, Zenon
<1>6. Len(new) = Len(c) - 1
  BY <1>1, <1>2, <1>3, <1>5
<1>7. ASSUME NEW i \in 1..Len(new)
      PROVE  new[i] = IF i < k THEN c[i] ELSE c[i + 1]
  <2>1. CASE i < k
    BY <1>1, <1>2, <1>3, <1>5, <2>1
  <2>2. CASE ~(i < k)
    <3>1. ~(i <= Len(a)) /\ i \in 1..Len(a) + Len(b) /\ i - Len(a) \in 1..Len(c) - k
          /\ k + (i - Len(a)) = i + 1
      BY <1>1, <1>2, <1>3, <1>5, <2>2
    <3> QED
      BY <1>3, <1>5, <2>2, <3>1
  <2> QED
    BY <2>1, <2>2
<1> QED
  BY <1>5, <1>6, <1>7

(* What insert is to do.                                                   *)
WithOneMore(new, c, k, e) ==
  /\ new \in Seq(Points) /\ Len(new) = Len(c) + 1
  /\ \A i \in 1..Len(new) :
       /\ i < k => new[i] = c[i]
       /\ i = k => new[i] = e
       /\ i > k => new[i] = c[i - 1]

(* And does.                                                               *)
LEMMA Inserted ==
  ASSUME NEW c \in Seq(Points), NEW k \in 1..Len(c), NEW e \in Points, NEW new,
         new = InsertAt(c, k, e)
  PROVE  WithOneMore(new, c, k, e)
<1>1. Len(c) \in Nat /\ \A i \in 1..Len(c) : c[i] \in Points
  BY LenProperties, ElementOfSeq
<1> DEFINE a == SubSeq(c, 1, k - 1)
           m == <<e>>
           b == SubSeq(c, k, Len(c))
<1>2. /\ a \in Seq(Points) /\ Len(a) = k - 1 /\ \A i \in 1..k - 1 : a[i] = c[i]
  <2>1. 1 \in Int /\ k - 1 \in Int /\ \A i \in 1..(k - 1) : c[i] \in Points
    BY <1>1
  <2>2. /\ a \in Seq(Points) /\ Len(a) = IF 1 <= k - 1 THEN k - 1 - 1 + 1 ELSE 0
        /\ \A i \in 1..(k - 1) - 1 + 1 : a[i] = c[1 + i - 1]
    BY <2>1, SubSeqProperties
  <2> HIDE DEF a
  <2>3. Len(a) = k - 1
    BY <1>1, <2>2
  <2>4. \A i \in 1..k - 1 : a[i] = c[i]
    BY <1>1, <2>2
  <2> QED
    BY <2>2, <2>3, <2>4
<1>3. /\ b \in Seq(Points) /\ Len(b) = Len(c) - k + 1
      /\ \A i \in 1..Len(c) - k + 1 : b[i] = c[k + i - 1]
  <2>1. k \in Int /\ Len(c) \in Int /\ \A i \in k..Len(c) : c[i] \in Points
    BY <1>1
  <2>2. /\ b \in Seq(Points) /\ Len(b) = IF k <= Len(c) THEN Len(c) - k + 1 ELSE 0
        /\ \A i \in 1..Len(c) - k + 1 : b[i] = c[k + i - 1]
    BY <2>1, SubSeqProperties
  <2> HIDE DEF b
  <2> QED
    BY <1>1, <2>2
<1>4. m \in Seq(Points) /\ Len(m) = 1 /\ m[1] = e
  OBVIOUS
<1>5. new = (a \o m) \o b
  BY DEF InsertAt
<1> HIDE DEF a, b, m
<1>6. /\ a \o m \in Seq(Points) /\ Len(a \o m) = Len(a) + Len(m)
      /\ \A i \in 1..Len(a) + Len(m) : (a \o m)[i] = IF i <= Len(a) THEN a[i] ELSE m[i - Len(a)]
  BY <1>2, <1>4, ConcatProperties
<1> DEFINE f == a \o m
<1>7. f \in Seq(Points) /\ Len(f) = k /\ f[k] = e /\ \A i \in 1..k - 1 : f[i] = c[i]
  <2>1. Len(f) = k
    BY <1>1, <1>2, <1>4, <1>6
  <2>2. f[k] = e
    BY <1>1, <1>2, <1>4, <1>6
  <2>3. \A i \in 1..k - 1 : f[i] = c[i]
    BY <1>1, <1>2, <1>4, <1>6
  <2> QED
    BY <1>6, <2>1, <2>2, <2>3
<1>8. new = f \o b
  BY <1>5
<1> HIDE DEF f
<1>9. /\ new \in Seq(Points) /\ Len(new) = Len(f) + Len(b)
      /\ \A i \in 1..Len(f) + Len(b) : new[i] = IF i <= Len(f) THEN f[i] ELSE b[i - Len(f)]
  <2>1. f \in Seq(Points) /\ b \in Seq(Points)
    BY <1>3, <1>7
  <2>2. /\ f \o b \in Seq(Points) /\ Len(f \o b) = Len(f) + Len(b)
        /\ \A i \in 1..Len(f) + Len(b) :
             (f \o b)[i] = IF i <= Len(f) THEN f[i] ELSE b[i - Len(f)]
    BY <2>1, ConcatProperties
  <2> QED
    BY <1>8, <2>2, Zenon
<1>10. Len(new) = Len(c) + 1
  BY <1>1, <1>3, <1>7, <1>9
<1>11. ASSUME NEW i \in 1..Len(new)
       PROVE  /\ i < k => new[i] = c[i]
              /\ i = k => new[i] = e
              /\ i > k => new[i] = c[i - 1]
  <2>1. CASE i < k
    <3>1. i <= Len(f) /\ i \in 1..Len(f) + Len(b) /\ i \in 1..k - 1 /\ ~(i = k) /\ ~(i > k)
      BY <1>1, <1>3, <1>7, <1>9, <2>1
    <3> QED
      BY <1>7, <1>9, <2>1, <3>1
  <2>2. CASE i = k
    <3>1. i <= Len(f) /\ i \in 1..Len(f) + Len(b) /\ ~(i < k) /\ ~(i > k)
      BY <1>1, <1>3, <1>7, <1>9, <2>2
    <3> QED
      BY <1>7, <1>9, <2>2, <3>1
  <2>3. CASE i > k
    <3>1. ~(i <= Len(f)) /\ i \in 1..Len(f) + Len(b) /\ i - Len(f) \in 1..Len(c) - k + 1
          /\ k + (i - Len(f)) - 1 = i - 1
      BY <1>1, <1>3, <1>7, <1>9, <2>3
    <3>2. ~(i < k) /\ ~(i = k)
      BY <2>3
    <3> QED
      BY <1>3, <1>9, <3>1, <3>2
  <2> QED
    BY <1>1, <2>1, <2>2, <2>3
<1> QED
  BY <1>9, <1>10, <1>11 DEF WithOneMore

-----------------------------------------------------------------------------
(* The curve on show is made of points, its speeds do not fall, and one    *)
(* that the program stores rises from end to end.                          *)
EditorInv ==
  /\ points \in Seq(Points) /\ Len(points) >= 2 /\ Raised(points)
  /\ drag \in Nat /\ selectedPoint \in Nat /\ tidy \in BOOLEAN
  /\ tidy => Rising(points)

(* What is stored comes out regular.                                       *)
LEMMA StoredIs ==
  ASSUME NEW c \in IF tidy THEN StoredTidy ELSE Stored
  PROVE  c \in Seq(Points) /\ Len(c) >= 2 /\ Raised(c) /\ (tidy => Rising(c))
<1>1. PICK raw \in Files : c = Normalize(raw) /\ (tidy => OnAxis(raw))
  BY DEF StoredTidy, Stored
<1>2. PICK n \in 1..3 : raw \in [1..n -> FilePoints]
  BY DEF Files
<1>3. FilePoints \subseteq RawPoints
  BY EditorAssumption DEF FilePoints, RawPoints
<1>4. raw \in [1..n -> RawPoints] /\ n \in Nat
  BY <1>2, <1>3
<1>5. raw \in Seq(RawPoints)
  BY <1>4, LengthIs
<1> QED
  BY <1>1, <1>5, Normalized

(* The first curve was stored.                                             *)
LEMMA EditorStarts == EditorInit => EditorInv
<1> SUFFICES ASSUME EditorInit PROVE EditorInv
  OBVIOUS
<1>1. points \in IF tidy THEN StoredTidy ELSE Stored
  BY DEF EditorInit
<1>2. tidy \in BOOLEAN /\ drag = 0 /\ selectedPoint = 0
  BY DEF EditorInit
<1>3. points \in Seq(Points) /\ Len(points) >= 2 /\ Raised(points) /\ (tidy => Rising(points))
  BY <1>1, StoredIs
<1> QED
  BY <1>2, <1>3 DEF EditorInv

(* Another curve was stored too.                                           *)
LEMMA AnotherKeeps == EditorInv /\ AnotherCurve => EditorInv'
<1> SUFFICES ASSUME EditorInv, AnotherCurve PROVE EditorInv'
  OBVIOUS
<1>1. points' \in IF tidy THEN StoredTidy ELSE Stored
  BY DEF AnotherCurve
<1>2. drag' \in Nat /\ selectedPoint' \in Nat /\ tidy' = tidy
  BY EditorAssumption DEF AnotherCurve, EditorInv
<1> DEFINE new == points'
<1>3. new \in IF tidy THEN StoredTidy ELSE Stored
  BY <1>1
<1> HIDE DEF new
<1>4. new \in Seq(Points) /\ Len(new) >= 2 /\ Raised(new) /\ (tidy => Rising(new))
  BY <1>3, StoredIs
<1>5. points' \in Seq(Points) /\ Len(points') >= 2 /\ Raised(points')
      /\ (tidy => Rising(points'))
  BY <1>4 DEF new
<1> QED
  BY <1>2, <1>5 DEF EditorInv, Raised, Rising

(* A curve that rises is on the axis, and stays so without one of its      *)
(* points.                                                                 *)
LEMMA RisingOnAxis ==
  ASSUME NEW c \in Seq(Points), Len(c) >= 2, Rising(c)
  PROVE  OnAxis(c)
<1>1. Len(c) \in Nat /\ DOMAIN c = 1..Len(c) /\ 1 \in 1..Len(c) /\ Len(c) \in 1..Len(c)
  BY LenProperties
<1>2. \A i \in 1..Len(c) : c[i].temp \in Int
  BY ElementOfSeq, PointIs
<1>3. ASSUME NEW i \in 1..Len(c)
      PROVE  c[i].temp \in Low..High
  <2>1. c[1].temp = Low /\ c[Len(c)].temp = High /\ Low \in Int /\ High \in Int /\ Low < High
    BY EditorAssumption DEF Rising
  <2>2. i = 1 \/ c[1].temp < c[i].temp
    BY <1>1 DEF Rising
  <2>3. i = Len(c) \/ c[i].temp < c[Len(c)].temp
    BY <1>1 DEF Rising
  <2> QED
    BY <1>2, <2>1, <2>2, <2>3
<1>4. ASSUME NEW i \in 1..Len(c), NEW j \in 1..Len(c), i # j
      PROVE  c[i].temp # c[j].temp
  <2>1. i < j \/ j < i
    BY <1>1, <1>4
  <2>2. c[i].temp < c[j].temp \/ c[j].temp < c[i].temp
    BY <2>1 DEF Rising
  <2> QED
    BY <1>2, <2>2
<1> QED
  BY <1>1, <1>3, <1>4 DEF OnAxis

(* And without one of its points.                                          *)
LEMMA RemovedOnAxis ==
  ASSUME NEW c \in Seq(Points), OnAxis(c), NEW k \in 1..Len(c)
  PROVE  OnAxis(RemoveAt(c, k))
<1> DEFINE new == RemoveAt(c, k)
<1>1. /\ new \in Seq(Points) /\ Len(new) = Len(c) - 1
      /\ \A i \in 1..Len(new) : new[i] = IF i < k THEN c[i] ELSE c[i + 1]
  BY Removed
<1> HIDE DEF new
<1>2. Len(c) \in Nat /\ DOMAIN c = 1..Len(c) /\ DOMAIN new = 1..Len(new)
  BY <1>1, LenProperties
<1> DEFINE old(i) == IF i < k THEN i ELSE i + 1
<1>3. \A i \in 1..Len(new) : old(i) \in 1..Len(c) /\ new[i] = c[old(i)]
  BY <1>1, <1>2
<1>4. \A i, j \in 1..Len(new) : i # j => old(i) # old(j)
  BY <1>1, <1>2
<1> HIDE DEF old
<1>5. OnAxis(new)
  BY <1>2, <1>3, <1>4 DEF OnAxis
<1> QED
  BY <1>5 DEF new

(* A step to a curve that is as the invariant asks.                        *)
LEMMA CurveKept ==
  ASSUME NEW c, c \in Seq(Points), Len(c) >= 2, Raised(c), tidy => Rising(c),
         points' = c, drag' \in Nat, selectedPoint' \in Nat, tidy \in BOOLEAN, tidy' = tidy
  PROVE  EditorInv'
  BY DEF EditorInv, Raised, Rising

(* What EndFanDrag and the two ways to delete a point make regular.        *)
LEMMA MadeRegular ==
  ASSUME EditorInv, NEW raw \in Seq(Points), tidy => OnAxis(raw), points' = Normalize(raw),
         drag' \in Nat, selectedPoint' \in Nat, tidy' = tidy
  PROVE  EditorInv'
<1> DEFINE c == Normalize(raw)
<1>1. raw \in Seq(RawPoints)
  BY PointsAreRaw
<1>2. c \in Seq(Points) /\ Len(c) >= 2 /\ Raised(c) /\ (OnAxis(raw) => Rising(c))
  BY <1>1, Normalized
<1>3. tidy \in BOOLEAN /\ points' = c
  BY DEF EditorInv
<1> HIDE DEF c
<1> QED
  BY <1>2, <1>3, CurveKept

(* The end of a drag makes the curve regular.                              *)
LEMMA EndKeeps == EditorInv /\ EndFanDrag => EditorInv'
<1> SUFFICES ASSUME EditorInv, EndFanDrag PROVE EditorInv'
  OBVIOUS
<1>1. points \in Seq(Points) /\ (tidy => OnAxis(points))
  BY RisingOnAxis DEF EditorInv
<1>2. points' = Normalize(points) /\ drag' \in Nat /\ selectedPoint' \in Nat /\ tidy' = tidy
  BY DEF EndFanDrag, EditorInv
<1> QED
  BY <1>1, <1>2, MadeRegular

(* So do the two ways to delete a point.                                   *)
LEMMA DeleteKeeps == EditorInv /\ (DeleteFanPoint \/ DeleteSelectedPoint) => EditorInv'
<1> SUFFICES ASSUME EditorInv, DeleteFanPoint \/ DeleteSelectedPoint PROVE EditorInv'
  OBVIOUS
<1>1. points \in Seq(Points) /\ (tidy => OnAxis(points)) /\ Len(points) \in Nat
  BY RisingOnAxis, LenProperties DEF EditorInv
<1>2. PICK k \in 2..Len(points) - 1 : points' = Normalize(RemoveAt(points, k))
  BY DEF DeleteFanPoint, DeleteSelectedPoint
<1>3. drag' \in Nat /\ selectedPoint' \in Nat /\ tidy' = tidy
  BY DEF DeleteFanPoint, DeleteSelectedPoint, EditorInv
<1>4. k \in 1..Len(points)
  BY <1>1
<1> DEFINE raw == RemoveAt(points, k)
<1>5. raw \in Seq(Points) /\ (tidy => OnAxis(raw))
  BY <1>1, <1>4, Removed, RemovedOnAxis
<1>6. points' = Normalize(raw)
  BY <1>2
<1> HIDE DEF raw
<1> QED
  BY <1>3, <1>5, <1>6, MadeRegular

-----------------------------------------------------------------------------
(* A point changed within its neighbours.                                  *)
LEMMA PointChanged ==
  ASSUME NEW c \in Seq(Points), Len(c) >= 2, Raised(c), NEW k \in 1..Len(c),
         NEW p \in Points, NEW new, new = [c EXCEPT ![k] = p],
         \A i \in 1..Len(c) : i < k => c[i].speed <= p.speed,
         \A i \in 1..Len(c) : k < i => p.speed <= c[i].speed
  PROVE  /\ new \in Seq(Points) /\ Len(new) = Len(c) /\ Raised(new)
         /\ Rising(c) /\ (k = 1 => p.temp = Low) /\ (k = Len(c) => p.temp = High)
            /\ (\A i \in 1..Len(c) : i < k => c[i].temp < p.temp)
            /\ (\A i \in 1..Len(c) : k < i => p.temp < c[i].temp) => Rising(new)
<1>1. /\ new \in Seq(Points) /\ Len(new) = Len(c)
      /\ \A j \in 1..Len(c) : new[j] = IF j = k THEN p ELSE c[j]
  BY ExceptSeq
<1>2. Len(c) \in Nat /\ 1 \in 1..Len(c) /\ Len(c) \in 1..Len(c)
  BY LenProperties
<1>3. p.speed \in Int
  BY PointIs
<1>4. ASSUME NEW i \in 1..Len(c), NEW j \in 1..Len(c), i <= j
      PROVE  new[i].speed <= new[j].speed
  <2>1. CASE i = k /\ j = k
    BY <1>1, <1>3, <2>1
  <2>2. CASE i # k /\ j = k
    <3>1. i < k
      BY <1>2, <1>4, <2>2
    <3> QED
      BY <1>1, <2>2, <3>1
  <2>3. CASE i = k /\ j # k
    <3>1. k < j
      BY <1>2, <1>4, <2>3
    <3> QED
      BY <1>1, <2>3, <3>1
  <2>4. CASE i # k /\ j # k
    BY <1>1, <1>4, <2>4 DEF Raised
  <2> QED
    BY <2>1, <2>2, <2>3, <2>4
<1>5. Raised(new)
  BY <1>1, <1>4 DEF Raised
<1>6. ASSUME Rising(c), k = 1 => p.temp = Low, k = Len(c) => p.temp = High,
             \A i \in 1..Len(c) : i < k => c[i].temp < p.temp,
             \A i \in 1..Len(c) : k < i => p.temp < c[i].temp
      PROVE  Rising(new)
  <2>1. new[1].temp = Low /\ new[Len(c)].temp = High
    BY <1>1, <1>2, <1>6 DEF Rising
  <2>2. ASSUME NEW i \in 1..Len(c), NEW j \in 1..Len(c), i < j
        PROVE  new[i].temp < new[j].temp
    <3>0. i # j
      BY <1>2, <2>2
    <3>1. CASE j = k
      BY <1>1, <1>6, <2>2, <3>0, <3>1
    <3>2. CASE i = k
      BY <1>1, <1>6, <2>2, <3>0, <3>2
    <3>3. CASE i # k /\ j # k
      BY <1>1, <1>6, <2>2, <3>3 DEF Rising
    <3> QED
      BY <3>1, <3>2, <3>3
  <2> QED
    BY <1>1, <2>1, <2>2 DEF Rising
<1> QED
  BY <1>1, <1>5, <1>6

(* The lower of two speeds.                                                *)
LEMMA LeastOfTwo ==
  ASSUME NEW a \in Nat, NEW b \in Nat
  PROVE  Min({a, b}) \in {a, b} /\ Min({a, b}) <= b
<1>1. {a, b} \in SUBSET Nat /\ {a, b} # {}
  OBVIOUS
<1> QED
  BY <1>1, MinOfNumbers

(* The higher of two speeds.                                               *)
LEMMA LargestOfTwo ==
  ASSUME NEW a \in 0..Full, NEW b \in 0..Full
  PROVE  Max({a, b}) \in {a, b} /\ b <= Max({a, b})
<1>1. {a, b} \in SUBSET (0..Full) /\ {a, b} # {}
  OBVIOUS
<1> QED
  BY <1>1, MaxOfSpeeds

(* A clamped value is between its bounds, if they are in order.            *)
LEMMA ClampedBetween ==
  ASSUME NEW a \in Int, NEW b \in Int, a <= b, NEW v \in Int
  PROVE  Clamp(a, v, b) \in Int /\ a <= Clamp(a, v, b) /\ Clamp(a, v, b) <= b
  BY DEF Clamp

(* Both fields of a point are written.                                     *)
WithBoth(c, k, x, v) == [c EXCEPT ![k].temp = x, ![k].speed = v]

(* That leaves nothing of the point it was.                                *)
LEMMA BothFields ==
  ASSUME NEW q \in RawPoints, NEW x \in Int, NEW v \in Int
  PROVE  [[q EXCEPT !.temp = x] EXCEPT !.speed = v] = [temp |-> x, speed |-> v]
<1>1. PICK r : r = [q EXCEPT !.temp = x]
  OBVIOUS
<1>2. r \in RawPoints /\ r.temp = x
  BY <1>1 DEF RawPoints
<1>3. PICK z : z = [r EXCEPT !.speed = v]
  OBVIOUS
<1>4. z \in RawPoints /\ z.temp = x /\ z.speed = v
  BY <1>2, <1>3 DEF RawPoints
<1>5. z = [temp |-> x, speed |-> v]
  BY <1>4 DEF RawPoints
<1> QED
  BY <1>1, <1>3, <1>5, Zenon

(* So the point is the one written.                                        *)
LEMMA Edited ==
  ASSUME NEW c \in Seq(Points), NEW k \in DOMAIN c, NEW x \in Int, NEW v \in Int
  PROVE  WithBoth(c, k, x, v) = [c EXCEPT ![k] = [temp |-> x, speed |-> v]]
<1>1. c[k] \in Points
  BY LenProperties, ElementOfSeq
<1>2. c[k] \in RawPoints
  BY <1>1, EditorAssumption DEF Points, RawPoints
<1>4. [[c[k] EXCEPT !.temp = x] EXCEPT !.speed = v] = [temp |-> x, speed |-> v]
  BY <1>2, BothFields, Zenon
<1>5. WithBoth(c, k, x, v) = [c EXCEPT ![k] = [[c[k] EXCEPT !.temp = x] EXCEPT !.speed = v]]
  BY Zenon DEF WithBoth
<1> QED
  BY <1>4, <1>5, Zenon

(* A drag moves a point within its neighbours' speeds, and where it has    *)
(* room within their temperatures: an index that is no point's moves       *)
(* nothing.                                                                *)
LEMMA MoveKeeps == EditorInv /\ UpdateFanDrag => EditorInv'
<1> SUFFICES ASSUME EditorInv, UpdateFanDrag PROVE EditorInv'
  OBVIOUS
<1>1. /\ points \in Seq(Points) /\ Len(points) >= 2 /\ Raised(points)
      /\ drag \in Nat /\ selectedPoint \in Nat /\ tidy \in BOOLEAN /\ (tidy => Rising(points))
  BY DEF EditorInv
<1>a. PICK k : k = drag
  OBVIOUS
<1>b. k \in Nat
  BY <1>1, <1>a
<1>2. PICK temp \in Low..High, speed \in 0..Full : MovePoint(k, temp, speed)
  BY <1>a, Zenon DEF UpdateFanDrag
<1>3. drag' = drag /\ selectedPoint' = selectedPoint /\ tidy' = tidy
  BY DEF UpdateFanDrag
<1> DEFINE n == Len(points)
<1>4. n \in Nat /\ DOMAIN points = 1..n /\ 1 \in 1..n /\ 2 \in 1..n /\ n \in 1..n
      /\ n - 1 \in 1..n
  BY <1>1, LenProperties
<1>5. \A i \in 1..n : points[i] \in Points /\ points[i].temp \in Int
                     /\ points[i].speed \in 0..Full /\ points[i].speed \in Nat
  <2>1. \A i \in 1..n : points[i] \in Points
    BY <1>1, ElementOfSeq
  <2>2. \A v \in 0..Full : v \in Nat
    OBVIOUS
  <2> QED
    BY <2>1, <2>2 DEF Points
<1>6. speed \in Nat /\ speed \in Int /\ temp \in Int /\ Full \in Nat
  BY EditorAssumption
<1> HIDE DEF n
<1>7. ASSUME NEW p \in Points, k \in 1..n, points' = [points EXCEPT ![k] = p],
             \A i \in 1..n : i < k => points[i].speed <= p.speed,
             \A i \in 1..n : k < i => p.speed <= points[i].speed,
             tidy => /\ k = 1 => p.temp = Low
                     /\ k = n => p.temp = High
                     /\ \A i \in 1..n : i < k => points[i].temp < p.temp
                     /\ \A i \in 1..n : k < i => p.temp < points[i].temp
      PROVE  EditorInv'
  <2> DEFINE new == [points EXCEPT ![k] = p]
  <2>1. /\ new \in Seq(Points) /\ Len(new) = n /\ Raised(new)
        /\ tidy => Rising(new)
    BY <1>1, <1>7, PointChanged DEF n
  <2>2. points' = new /\ Len(new) >= 2
    BY <1>1, <1>7, <2>1 DEF n
  <2> HIDE DEF new
  <2> QED
    BY <1>1, <1>3, <2>1, <2>2, CurveKept
<1>8. CASE k \notin 1..n
  <2>1. points' = points
    BY <1>2, <1>4, <1>8 DEF MovePoint
  <2> QED
    BY <1>1, <1>3, <2>1, CurveKept
<1>9. CASE k = 1
  <2> DEFINE v == Min({speed, points[2].speed})
             p == [points[1] EXCEPT !.speed = v]
  <2>1. v \in 0..Full /\ v <= points[2].speed
    BY <1>4, <1>5, <1>6, LeastOfTwo
  <2>2. points' = [points EXCEPT ![1] = p]
    BY <1>2, <1>4, <1>9 DEF MovePoint
  <2> HIDE DEF v
  <2>3. p \in Points /\ p.speed = v /\ p.temp = points[1].temp
    BY <1>4, <1>5, <2>1 DEF Points
  <2> HIDE DEF p
  <2>4. ASSUME NEW i \in 1..n, 1 < i PROVE v <= points[i].speed
    <3>1. points[2].speed <= points[i].speed
      BY <1>1, <1>4, <2>4 DEF Raised, n
    <3> QED
      BY <1>4, <1>5, <2>1, <3>1
  <2>5. \A i \in 1..n : ~(i < 1)
    BY <1>4
  <2>6. tidy => points[1].temp = Low /\ \A i \in 1..n : 1 < i => points[1].temp < points[i].temp
    BY <1>1, <1>4 DEF Rising, n
  <2>7. 1 # n
    BY <1>1, <1>4 DEF n
  <2>8. tidy => /\ k = 1 => p.temp = Low
                /\ k = n => p.temp = High
                /\ \A i \in 1..n : i < k => points[i].temp < p.temp
                /\ \A i \in 1..n : k < i => p.temp < points[i].temp
    BY <1>9, <2>3, <2>5, <2>6, <2>7, Zenon
  <2>9. /\ \A i \in 1..n : i < k => points[i].speed <= p.speed
        /\ \A i \in 1..n : k < i => p.speed <= points[i].speed
    BY <1>9, <2>3, <2>4, <2>5, Zenon
  <2> QED
    BY <1>4, <1>7, <1>9, <2>2, <2>3, <2>8, <2>9
<1>10. CASE k # 1 /\ k = n
  <2> DEFINE v == Max({speed, points[n - 1].speed})
             p == [points[n] EXCEPT !.speed = v]
  <2>1. v \in 0..Full /\ points[n - 1].speed <= v
    BY <1>4, <1>5, LargestOfTwo
  <2>2. points' = [points EXCEPT ![n] = p]
    BY <1>2, <1>4, <1>10 DEF MovePoint, n
  <2> HIDE DEF v
  <2>3. p \in Points /\ p.speed = v /\ p.temp = points[n].temp
    BY <1>4, <1>5, <2>1 DEF Points
  <2> HIDE DEF p
  <2>4. ASSUME NEW i \in 1..n, i < n PROVE points[i].speed <= v
    <3>0. i <= n - 1
      BY <1>4, <2>4
    <3>1. points[i].speed <= points[n - 1].speed
      BY <1>1, <1>4, <3>0 DEF Raised, n
    <3> QED
      BY <1>4, <1>5, <2>1, <3>1
  <2>5. \A i \in 1..n : ~(n < i)
    BY <1>4
  <2>6. tidy => points[n].temp = High /\ \A i \in 1..n : i < n => points[i].temp < points[n].temp
    BY <1>1, <1>4 DEF Rising, n
  <2> QED
    BY <1>4, <1>7, <1>10, <2>2, <2>3, <2>4, <2>5, <2>6
<1>11. CASE k \in 1..n /\ k # 1 /\ k # n
  <2> DEFINE left == points[k - 1].temp + 1
             right == points[k + 1].temp - 1
             t == IF left <= right THEN Clamp(left, temp, right) ELSE points[k].temp
             v == Clamp(points[k - 1].speed, speed, points[k + 1].speed)
             p == [temp |-> t, speed |-> v]
  <2>1. k \in Int /\ k - 1 \in 1..n /\ k + 1 \in 1..n /\ k - 1 < k /\ k < k + 1
        /\ k - 1 <= k + 1
    BY <1>b, <1>4, <1>11
  <2>2. left \in Int /\ right \in Int
    BY <1>5, <2>1
  <2>3. t \in Int /\ (left <= right => left <= t /\ t <= right)
    <3> HIDE DEF left, right
    <3>1. CASE left <= right
      <4>1. t = Clamp(left, temp, right)
        BY <3>1
      <4>2. Clamp(left, temp, right) \in Int /\ left <= Clamp(left, temp, right)
            /\ Clamp(left, temp, right) <= right
        BY <1>6, <2>2, <3>1, ClampedBetween
      <4> QED
        BY <4>1, <4>2
    <3>2. CASE ~(left <= right)
      BY <1>5, <1>11, <3>2
    <3> QED
      BY <3>1, <3>2
  <2>4. points[k - 1].speed <= points[k + 1].speed
    BY <1>1, <1>4, <2>1 DEF Raised, n
  <2>5. v \in Int /\ points[k - 1].speed <= v /\ v <= points[k + 1].speed
    <3> DEFINE a == points[k - 1].speed
               b == points[k + 1].speed
    <3>1. a \in Int /\ b \in Int /\ a <= b
      BY <1>5, <2>1, <2>4
    <3> HIDE DEF a, b
    <3>2. Clamp(a, speed, b) \in Int /\ a <= Clamp(a, speed, b) /\ Clamp(a, speed, b) <= b
      BY <1>6, <3>1, ClampedBetween
    <3> QED
      BY <3>1, <3>2 DEF a, b, v
  <2>6. points' = [points EXCEPT ![k] = p]
    <3>1. points' = WithBoth(points, k, t, v)
      BY <1>2, <1>4, <1>11, Zenon DEF MovePoint, n, WithBoth
    <3> HIDE DEF t, v
    <3>2. k \in DOMAIN points
      BY <1>4, <1>11
    <3>3. WithBoth(points, k, t, v) = [points EXCEPT ![k] = [temp |-> t, speed |-> v]]
      BY <1>1, <2>3, <2>5, <3>2, Edited
    <3> QED
      BY <3>1, <3>3, Zenon
  <2> HIDE DEF left, right, t, v
  <2>7. v \in 0..Full
    BY <1>5, <1>6, <2>1, <2>5
  <2>8. p \in Points /\ p.temp = t /\ p.speed = v
    BY <2>3, <2>7 DEF Points
  <2> HIDE DEF p
  <2>9. ASSUME NEW i \in 1..n, i < k PROVE points[i].speed <= v
    <3>0. i <= k - 1
      BY <1>b, <1>4, <2>9
    <3>1. points[i].speed <= points[k - 1].speed
      BY <1>1, <2>1, <3>0 DEF Raised, n
    <3> QED
      BY <1>5, <2>1, <2>5, <3>1
  <2>10. ASSUME NEW i \in 1..n, k < i PROVE v <= points[i].speed
    <3>0. k + 1 <= i
      BY <1>b, <1>4, <2>10
    <3>1. points[k + 1].speed <= points[i].speed
      BY <1>1, <2>1, <3>0 DEF Raised, n
    <3> QED
      BY <1>5, <2>1, <2>5, <3>1
  <2>11. ASSUME tidy
         PROVE  points[k - 1].temp < t /\ t < points[k + 1].temp
    <3>1. points[k - 1].temp < points[k].temp /\ points[k].temp < points[k + 1].temp
      BY <1>1, <1>11, <2>1, <2>11 DEF Rising, n
    <3>2. points[k - 1].temp \in Int /\ points[k].temp \in Int /\ points[k + 1].temp \in Int
      BY <1>5, <1>11, <2>1
    <3>3. left = points[k - 1].temp + 1 /\ right = points[k + 1].temp - 1
      BY DEF left, right
    <3>4. left <= right
      BY <3>1, <3>2, <3>3
    <3> QED
      BY <2>3, <3>2, <3>3, <3>4
  <2>12. ASSUME tidy, NEW i \in 1..n, i < k PROVE points[i].temp < t
    <3>0. i <= k - 1 /\ (i # k - 1 => i < k - 1)
      BY <1>b, <1>4, <2>12
    <3>1. i = k - 1 \/ points[i].temp < points[k - 1].temp
      BY <1>1, <2>1, <2>12, <3>0 DEF Rising, n
    <3>2. points[i].temp \in Int /\ points[k - 1].temp \in Int
      BY <1>5, <2>1
    <3> QED
      BY <2>3, <2>11, <2>12, <3>1, <3>2
  <2>13. ASSUME tidy, NEW i \in 1..n, k < i PROVE t < points[i].temp
    <3>0. k + 1 <= i /\ (i # k + 1 => k + 1 < i)
      BY <1>b, <1>4, <2>13
    <3>1. i = k + 1 \/ points[k + 1].temp < points[i].temp
      BY <1>1, <2>1, <2>13, <3>0 DEF Rising, n
    <3>2. points[i].temp \in Int /\ points[k + 1].temp \in Int
      BY <1>5, <2>1
    <3> QED
      BY <2>3, <2>11, <2>13, <3>1, <3>2
  <2> QED
    BY <1>7, <1>11, <2>6, <2>8, <2>9, <2>10, <2>12, <2>13
<1> QED
  BY <1>4, <1>8, <1>9, <1>10, <1>11

(* A point put in between two others, and within their speeds.             *)
LEMMA PointPutIn ==
  ASSUME NEW c \in Seq(Points), Len(c) >= 2, Raised(c), NEW k \in 2..Len(c), NEW p \in Points,
         c[k - 1].speed <= p.speed, p.speed <= c[k].speed,
         NEW new, new = InsertAt(c, k, p)
  PROVE  /\ new \in Seq(Points) /\ Len(new) >= 2 /\ Raised(new)
         /\ Rising(c) /\ c[k - 1].temp < p.temp /\ p.temp < c[k].temp => Rising(new)
<1>1. Len(c) \in Nat /\ k \in 1..Len(c) /\ k - 1 \in 1..Len(c) /\ k \in Int /\ k - 1 < k
  BY LenProperties
<1>2. /\ new \in Seq(Points) /\ Len(new) = Len(c) + 1
      /\ \A i \in 1..Len(new) :
           /\ i < k => new[i] = c[i]
           /\ i = k => new[i] = p
           /\ i > k => new[i] = c[i - 1]
  <2>1. WithOneMore(new, c, k, p)
    BY <1>1, Inserted
  <2> QED
    BY <2>1 DEF WithOneMore
<1>3. Len(new) >= 2 /\ 1 \in 1..Len(new) /\ Len(new) \in 1..Len(new)
  BY <1>1, <1>2
<1>4. p.speed \in Int /\ p.temp \in Int
  BY PointIs
<1>5. \A i \in 1..Len(c) : c[i].speed \in Int /\ c[i].temp \in Int
  BY ElementOfSeq, PointIs
<1>6. \A i \in 1..Len(new) :
        /\ i < k => i \in 1..Len(c) /\ i <= k - 1 /\ new[i] = c[i]
        /\ i = k => new[i] = p
        /\ i > k => i - 1 \in 1..Len(c) /\ k <= i - 1 /\ new[i] = c[i - 1]
  BY <1>1, <1>2
<1>7. \A i \in 1..Len(c) : /\ i <= k - 1 => c[i].speed <= p.speed
                           /\ k <= i => p.speed <= c[i].speed
  <2>1. ASSUME NEW i \in 1..Len(c), i <= k - 1 PROVE c[i].speed <= p.speed
    <3>1. c[i].speed <= c[k - 1].speed
      BY <1>1, <2>1 DEF Raised
    <3> QED
      BY <1>1, <1>4, <1>5, <3>1
  <2>2. ASSUME NEW i \in 1..Len(c), k <= i PROVE p.speed <= c[i].speed
    <3>1. c[k].speed <= c[i].speed
      BY <1>1, <2>2 DEF Raised
    <3> QED
      BY <1>1, <1>4, <1>5, <3>1
  <2> QED
    BY <2>1, <2>2
<1>8. ASSUME NEW i \in 1..Len(new), NEW j \in 1..Len(new), i <= j
      PROVE  new[i].speed <= new[j].speed
  <2>0. i \in Int /\ j \in Int
    BY <1>2
  <2>1. CASE i = j
    <3>1. new[i] \in Points
      BY <1>2, ElementOfSeq
    <3>2. new[i].speed \in Int
      BY <3>1, PointIs
    <3> QED
      BY <2>1, <3>2
  <2>2. CASE i < k /\ j < k
    <3>1. i \in 1..Len(c) /\ j \in 1..Len(c) /\ new[i] = c[i] /\ new[j] = c[j]
      BY <1>6, <2>2
    <3> QED
      BY <1>8, <3>1 DEF Raised
  <2>3. CASE i < k /\ j = k
    BY <1>6, <1>7, <2>3
  <2>4. CASE i < k /\ j > k
    <3>1. i \in 1..Len(c) /\ j - 1 \in 1..Len(c) /\ new[i] = c[i] /\ new[j] = c[j - 1]
      BY <1>6, <2>4
    <3>2. i <= j - 1
      BY <1>1, <2>0, <2>4
    <3> QED
      BY <3>1, <3>2 DEF Raised
  <2>5. CASE i = k /\ j > k
    BY <1>6, <1>7, <2>5
  <2>6. CASE i > k /\ j > k
    <3>1. i - 1 \in 1..Len(c) /\ j - 1 \in 1..Len(c) /\ new[i] = c[i - 1] /\ new[j] = c[j - 1]
      BY <1>6, <2>6
    <3>2. i - 1 <= j - 1
      BY <1>8, <2>0
    <3> QED
      BY <3>1, <3>2 DEF Raised
  <2> QED
    BY <1>1, <1>8, <2>0, <2>1, <2>2, <2>3, <2>4, <2>5, <2>6
<1>9. Raised(new)
  BY <1>8 DEF Raised
<1>10. ASSUME Rising(c), c[k - 1].temp < p.temp, p.temp < c[k].temp
       PROVE  Rising(new)
  <2>1. \A i \in 1..Len(c) : /\ i <= k - 1 => c[i].temp < p.temp
                             /\ k <= i => p.temp < c[i].temp
    <3>1. ASSUME NEW i \in 1..Len(c), i <= k - 1 PROVE c[i].temp < p.temp
      <4>1. i = k - 1 \/ c[i].temp < c[k - 1].temp
        <5>1. i = k - 1 \/ i < k - 1
          BY <1>1, <3>1
        <5> QED
          BY <1>1, <1>10, <5>1 DEF Rising
      <4> QED
        BY <1>1, <1>4, <1>5, <1>10, <4>1
    <3>2. ASSUME NEW i \in 1..Len(c), k <= i PROVE p.temp < c[i].temp
      <4>1. i = k \/ c[k].temp < c[i].temp
        <5>1. i = k \/ k < i
          BY <1>1, <3>2
        <5> QED
          BY <1>1, <1>10, <5>1 DEF Rising
      <4> QED
        BY <1>1, <1>4, <1>5, <1>10, <4>1
    <3> QED
      BY <3>1, <3>2
  <2>2. ASSUME NEW i \in 1..Len(new), NEW j \in 1..Len(new), i < j
        PROVE  new[i].temp < new[j].temp
    <3>0. i \in Int /\ j \in Int
      BY <1>2
    <3>2. CASE i < k /\ j < k
      <4>1. i \in 1..Len(c) /\ j \in 1..Len(c) /\ new[i] = c[i] /\ new[j] = c[j]
        BY <1>6, <3>2
      <4> QED
        BY <1>10, <2>2, <4>1 DEF Rising
    <3>3. CASE i < k /\ j = k
      BY <1>6, <2>1, <3>3
    <3>4. CASE i < k /\ j > k
      <4>1. i \in 1..Len(c) /\ j - 1 \in 1..Len(c) /\ new[i] = c[i] /\ new[j] = c[j - 1]
        BY <1>6, <3>4
      <4>2. i < j - 1
        BY <1>1, <3>0, <3>4
      <4> QED
        BY <1>10, <4>1, <4>2 DEF Rising
    <3>5. CASE i = k /\ j > k
      BY <1>6, <2>1, <3>5
    <3>6. CASE i > k /\ j > k
      <4>1. i - 1 \in 1..Len(c) /\ j - 1 \in 1..Len(c) /\ new[i] = c[i - 1]
            /\ new[j] = c[j - 1]
        BY <1>6, <3>6
      <4>2. i - 1 < j - 1
        BY <2>2, <3>0
      <4> QED
        BY <1>10, <4>1, <4>2 DEF Rising
    <3> QED
      BY <1>1, <2>2, <3>0, <3>2, <3>3, <3>4, <3>5, <3>6
  <2>3. new[1].temp = Low
    <3>1. 1 < k /\ new[1] = c[1]
      BY <1>1, <1>3, <1>6
    <3> QED
      BY <1>10, <3>1 DEF Rising
  <2>4. new[Len(new)].temp = High
    <3>1. Len(new) > k /\ Len(new) - 1 = Len(c)
      BY <1>1, <1>2
    <3>2. new[Len(new)] = c[Len(c)]
      BY <1>3, <1>6, <3>1
    <3> QED
      BY <1>10, <3>2 DEF Rising
  <2> QED
    BY <2>2, <2>3, <2>4 DEF Rising
<1> QED
  BY <1>2, <1>3, <1>9, <1>10

(* Where insert_point puts a point, and that it is on the line between its *)
(* neighbours there.                                                       *)
LEMMA InsertKeeps ==
  ASSUME EditorInv, NEW temp \in Low..High, Insertable(temp), InsertPoint(temp),
         selectedPoint' = drag', tidy' = tidy
  PROVE  EditorInv'
<1>1. /\ points \in Seq(Points) /\ Len(points) >= 2 /\ Raised(points)
      /\ drag \in Nat /\ selectedPoint \in Nat /\ tidy \in BOOLEAN /\ (tidy => Rising(points))
  BY DEF EditorInv
<1> DEFINE higher == {i \in DOMAIN points : points[i].temp > temp}
<1>2. /\ \A i \in DOMAIN points : points[i].temp # temp
      /\ temp > points[1].temp
      /\ \E i \in DOMAIN points : points[i].temp > temp
  BY DEF Insertable
<1>3. Len(points) \in Nat /\ DOMAIN points = 1..Len(points) /\ temp \in Int
  BY <1>1, LenProperties, EditorAssumption
<1>4. \A i \in 1..Len(points) : points[i].temp \in Int
  BY <1>1, ElementOfSeq, PointIs
<1>5. higher = Above(points, temp)
  <2>1. \A i \in 1..Len(points) : points[i].temp > temp => i \in 2..Len(points)
    BY <1>2, <1>3, <1>4
  <2>2. \A i \in 1..Len(points) : points[i].temp > temp <=> temp <= points[i].temp
    BY <1>2, <1>3, <1>4
  <2>3. \A i \in 2..Len(points) : i \in 1..Len(points)
    BY <1>3
  <2> QED
    BY <1>3, <2>1, <2>2, <2>3 DEF Above
<1>6. higher # {}
  BY <1>2
<1> DEFINE k == Min(higher)
           p == [temp |-> temp, speed |-> Interpolate(points, temp)]
<1>7. points' = InsertAt(points, k, p) /\ drag' = k
  BY DEF InsertPoint
<1>8. k = Min(Above(points, temp)) /\ Above(points, temp) # {}
  BY <1>5, <1>6
<1> HIDE DEF higher, k
<1>9. /\ k \in 2..Len(points) /\ points[k] \in Points /\ points[k - 1] \in Points
      /\ points[k - 1].speed <= points[k].speed /\ points[k - 1].temp < temp
      /\ temp <= points[k].temp
      /\ Interpolate(points, temp) = Line(points[k - 1], points[k], temp)
  BY <1>1, <1>2, <1>3, <1>8, Meets
<1>10. /\ Interpolate(points, temp) \in Int
       /\ points[k - 1].speed <= Interpolate(points, temp)
       /\ Interpolate(points, temp) <= points[k].speed
  BY <1>3, <1>9, LineBetween
<1>11. Interpolate(points, temp) \in 0..Full
  <2>1. points[k - 1].speed \in Nat /\ points[k].speed \in Nat /\ points[k].speed <= Full
    BY <1>9, PointIs
  <2> QED
    BY <1>10, <2>1, EditorAssumption
<1>12. p \in Points /\ p.temp = temp /\ p.speed = Interpolate(points, temp)
  BY <1>3, <1>11 DEF Points
<1>13. temp < points[k].temp
  <2>1. k \in 1..Len(points)
    BY <1>3, <1>9
  <2>2. points[k].temp # temp /\ points[k].temp \in Int
    BY <1>2, <1>3, <1>4, <2>1
  <2> QED
    BY <1>3, <1>9, <2>2
<1> HIDE DEF p
<1> DEFINE new == InsertAt(points, k, p)
<1>14. /\ new \in Seq(Points) /\ Len(new) >= 2 /\ Raised(new)
       /\ tidy => Rising(new)
  BY <1>1, <1>9, <1>10, <1>12, <1>13, PointPutIn
<1>15. points' = new /\ drag' \in Nat /\ selectedPoint' \in Nat
  BY <1>7, <1>9
<1> HIDE DEF new
<1> QED
  BY <1>1, <1>14, <1>15, CurveKept

(* A drag begins at a point, at a new one or at none.                      *)
LEMMA BeginKeeps == EditorInv /\ BeginFanDrag => EditorInv'
<1> SUFFICES ASSUME EditorInv, BeginFanDrag PROVE EditorInv'
  OBVIOUS
<1>1. selectedPoint' = drag' /\ tidy' = tidy
  BY DEF BeginFanDrag
<1>2. CASE drag' \in DOMAIN points /\ points' = points
  <2>1. points \in Seq(Points) /\ DOMAIN points = 1..Len(points) /\ Len(points) \in Nat
    BY LenProperties DEF EditorInv
  <2>2. drag' \in Nat
    BY <1>2, <2>1
  <2> QED
    BY <1>1, <1>2, <2>2, CurveKept DEF EditorInv
<1>3. CASE drag' = 0 /\ points' = points
  BY <1>1, <1>3, CurveKept DEF EditorInv
<1>4. CASE \E temp \in Low..High : Insertable(temp) /\ InsertPoint(temp)
  BY <1>1, <1>4, InsertKeeps
<1> QED
  BY <1>2, <1>3, <1>4, Zenon DEF BeginFanDrag

(* Every step of the editor.                                               *)
LEMMA EditorKeeps == EditorInv /\ [EditorNext]_editorVars => EditorInv'
<1> SUFFICES ASSUME EditorInv, [EditorNext]_editorVars PROVE EditorInv'
  OBVIOUS
<1>1. CASE EditorNext
  BY <1>1, BeginKeeps, MoveKeeps, EndKeeps, DeleteKeeps, AnotherKeeps DEF EditorNext
<1>2. CASE UNCHANGED editorVars
  BY <1>2, CurveKept DEF EditorInv, editorVars
<1> QED
  BY <1>1, <1>2

-----------------------------------------------------------------------------
(* The invariant is what CurveSound asks.                                  *)
LEMMA SoundIs == EditorInv => CurveSound
<1> SUFFICES ASSUME EditorInv PROVE CurveSound
  OBVIOUS
<1>1. /\ points \in Seq(Points) /\ Len(points) >= 2 /\ Raised(points)
      /\ (tidy => Rising(points))
  BY DEF EditorInv
<1>2. \A i \in 1..Len(points) - 1 : points[i].speed <= points[i + 1].speed
  <2>1. Len(points) \in Nat
    BY <1>1, LenProperties
  <2>2. \A i \in 1..Len(points) - 1 :
          i \in 1..Len(points) /\ i + 1 \in 1..Len(points) /\ i <= i + 1
    BY <2>1
  <2> QED
    BY <1>1, <2>2 DEF Raised
<1>3. \A s \in Low - 1..High : Interpolate(points, s) <= Interpolate(points, s + 1)
  <2>1. \A s \in Low - 1..High : s \in Int
    BY EditorAssumption
  <2> QED
    BY <1>1, <2>1, InterpolateRises
<1>4. tidy => /\ Normalize(points) = points
              /\ Interpolate(points, High) = Last(points).speed
  BY <1>1, RegularStays, LastDegree
<1> QED
  BY <1>1, <1>2, <1>3, <1>4 DEF CurveSound

(* However points are stored, inserted, dragged and deleted, the curve on  *)
(* show never asks for less of a warmer sensor, and one the program stores *)
(* is the one the daemon makes of it (fan.rs normalize_fan_points and      *)
(* interpolate_fan, paint.rs insert_point and move_point).                 *)
THEOREM CurveIsSound == EditorSpec => []CurveSound
<1>1. EditorInit => EditorInv
  BY EditorStarts
<1>2. EditorInv /\ [EditorNext]_editorVars => EditorInv'
  BY EditorKeeps
<1>3. EditorInv => CurveSound
  BY SoundIs
<1> QED
  BY <1>1, <1>2, <1>3, PTL DEF EditorSpec
=============================================================================
