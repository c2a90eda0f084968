------------------------------ MODULE FanCurve -------------------------------
(***************************************************************************)
(* The fan curve algorithm of crates/victus-core/src/fan.rs: LoopState     *)
(* without the fields about the hardware.  Every sample moves a smoothed   *)
(* temperature (EMA) per sensor; a sensor's demand follows the curve of    *)
(* the active signature with a hysteresis band; the overheat latch raises  *)
(* the target to a floor until the sensors stayed cool for the cooldown.   *)
(*                                                                         *)
(* A curve maps an EMA to what interpolate_fan(points, rounded_temp(ema))  *)
(* returns, so the grid of EMA values may be as fine as one likes.  How    *)
(* far one sample moves the EMA depends on the smoothing factor: any value *)
(* of the grid on the way to the sample.                                   *)
(***************************************************************************)
EXTENDS Integers

CONSTANTS
  Grid,         (* the largest EMA                                           *)
  Temps,        (* the EMA values and samples                                *)
  Hysteresis,   (* CURVE_HYSTERESIS_C                                        *)
  Threshold,    (* OVERHEAT_THRESHOLD_C                                      *)
  Release,      (* OVERHEAT_RELEASE_C                                        *)
  Floor,        (* OVERHEAT_MIN_FAN_PCT                                      *)
  Cooldown,     (* OVERHEAT_COOLDOWN_S, in ticks                             *)
  Shapes,       (* curve signatures                                          *)
  Curve         (* the demand of a shape's curve for a sensor, by EMA        *)

Sensors == {"cpu", "gpu"}
Percent == 0..100

None == -1                (* an absent temperature, demand or deadline *)
NoShape == "no curve"     (* no curve signature yet                     *)

Monotone(f) == \A s, t \in 0..(Grid + Hysteresis) : s <= t => f[s] <= f[t]

(* normalize_fan_points makes speeds grow with temperature                 *)
ASSUME CurveAssumption ==
  /\ NoShape \notin Shapes
  /\ Grid \in Nat /\ Temps \subseteq 0..Grid
  /\ Hysteresis \in Nat /\ Threshold \in Nat /\ Release \in Nat
  /\ Release < Threshold
  /\ Floor \in Percent /\ Cooldown \in Nat
  /\ Curve \in [Shapes -> [Sensors -> [0..(Grid + Hysteresis) -> Percent]]]
  /\ \A shape \in Shapes, s \in Sensors : Monotone(Curve[shape][s])

Samples == [Sensors -> Temps \cup {None}]

VARIABLES
  ema,       (* ema_cpu, ema_gpu                                             *)
  demand,    (* cpu_demand, gpu_demand                                       *)
  shape,     (* curve_signature                                              *)
  hot,       (* cpu_overheating, gpu_overheating                             *)
  active,    (* overheat_active                                              *)
  clear,     (* ticks left until overheat_clear_at                           *)
  calm       (* history: ticks since a sensor was last overheating           *)

curveVars == <<ema, demand, shape, hot, active, clear, calm>>

-----------------------------------------------------------------------------
Larger(a, b) == IF a > b THEN a ELSE b
Smaller(a, b) == IF a < b THEN a ELSE b

(* compute_ewma: the first sample as it is, later ones part of the way     *)
Blend(old, sample) ==
  IF old = None \/ old = sample
  THEN {sample}
  ELSE {t \in Temps : (old < t /\ t <= sample) \/ (sample <= t /\ t < old)}

(* hysteretic_curve_target: rising heat may only raise the demand, falling *)
(* heat may only lower it, and lowers it a band later.                     *)
Follow(curve, old, new, held) ==
  IF old = None \/ held = None THEN curve[new]
  ELSE IF new > old THEN Larger(held, curve[new])
  ELSE IF new < old THEN Smaller(held, curve[new + Hysteresis])
  ELSE held

(* Faulty: the threshold itself does not count as overheating.            *)
SensorOverheatAbove(was, temp) ==
  IF temp = None THEN was
  ELSE IF was THEN temp > Release
  ELSE temp > Threshold

(* sensor_overheat: a lost sensor keeps its verdict                        *)
SensorOverheat(was, temp) ==
  IF temp = None THEN was
  ELSE IF was THEN temp > Release
  ELSE temp >= Threshold

HasTarget == \E s \in Sensors : demand[s] # None

(* The merged target of update_curve_target, the overheat floor included.  *)
Target ==
  LET merged == Larger(demand["cpu"], demand["gpu"])
  IN  IF active THEN Larger(merged, Floor) ELSE merged

-----------------------------------------------------------------------------
CurveInit ==
  /\ ema = [s \in Sensors |-> None]
  /\ demand = [s \in Sensors |-> None]
  /\ shape = NoShape
  /\ hot = [s \in Sensors |-> FALSE]
  /\ active = FALSE
  /\ clear = None
  /\ calm = 0

(* reset_algorithm *)
ResetAlgorithm ==
  /\ ema' = [s \in Sensors |-> None]
  /\ demand' = [s \in Sensors |-> None]
  /\ shape' = NoShape
  /\ hot' = [s \in Sensors |-> FALSE]
  /\ active' = FALSE
  /\ clear' = None
  /\ calm' = 0

Overheating == \E s \in Sensors : hot[s]

(* Faulty: a relapse keeps the deadline that runs.                         *)
TripKeepingDeadline ==
  /\ active' = TRUE /\ calm' = 0
  /\ UNCHANGED clear

Trip ==
  /\ active' = TRUE /\ calm' = 0
  /\ clear' = None

(* The deadline is set by the first poll that finds every sensor cool.     *)
TicksLeft == IF clear = None THEN Cooldown ELSE clear

CoolOff ==
  /\ active' = (active /\ TicksLeft > 0)
  /\ clear' = IF active' THEN TicksLeft ELSE None
  /\ UNCHANGED calm

(* update_overheat *)
UpdateOverheat ==
  /\ hot' = [s \in Sensors |-> SensorOverheat(hot[s], ema'[s])]
  /\ \/ Overheating' /\ Trip
     \/ ~Overheating' /\ CoolOff

(* Faulty: switching curves keeps the demand of a sensor without a sample. *)
HeldStale(s, new) == demand[s]

(* reset_curve_hysteresis: demands belong to the curve they came from.     *)
Held(s, new) == IF new = shape THEN demand[s] ELSE None

(* One poll with a curve: update_curve_target after the signature check.   *)
(* Without any demand the overheat latch is not looked at.                 *)
Evaluate(new, sample) ==
  /\ ema' \in [Sensors -> Temps \cup {None}]
  /\ \A s \in Sensors :
       IF sample[s] = None THEN ema'[s] = ema[s]
                           ELSE ema'[s] \in Blend(ema[s], sample[s])
  /\ demand' = [s \in Sensors |->
                  IF sample[s] = None THEN Held(s, new)
                  ELSE Follow(Curve[new][s], ema[s], ema'[s], Held(s, new))]
  /\ shape' = new
  /\ IF HasTarget' THEN UpdateOverheat
                   ELSE UNCHANGED <<hot, active, clear, calm>>

(* Time passes between polls. *)
Elapse ==
  /\ clear' = IF clear > 0 THEN clear - 1 ELSE clear
  /\ calm' = IF active /\ calm < Cooldown THEN calm + 1 ELSE calm
  /\ UNCHANGED <<ema, demand, shape, hot, active>>

CurveNext ==
  \/ \E new \in Shapes, sample \in Samples : Evaluate(new, sample)
  \/ ResetAlgorithm
  \/ Elapse

CurveSpec == CurveInit /\ [][CurveNext]_curveVars

-----------------------------------------------------------------------------
(* Properties *)

(* Every variable has its type. *)
CurveTypeOK ==
  /\ ema \in [Sensors -> Temps \cup {None}]
  /\ demand \in [Sensors -> Percent \cup {None}]
  /\ shape \in Shapes \cup {NoShape}
  /\ hot \in [Sensors -> BOOLEAN]
  /\ active \in BOOLEAN
  /\ clear \in 0..Cooldown \cup {None}
  /\ calm \in 0..Cooldown

(* However the temperatures rise and fall, sensors drop out and curves are *)
(* switched, a demand lies between what the active curve asks for at the   *)
(* smoothed temperature and what it asks for one hysteresis band above.    *)
WithinBand ==
  \A s \in Sensors : demand[s] # None =>
    /\ ema[s] # None /\ shape \in Shapes
    /\ Curve[shape][s][ema[s]] <= demand[s]
    /\ demand[s] <= Curve[shape][s][ema[s] + Hysteresis]

(* A smoothed temperature at the threshold holds the fans at or above the  *)
(* overheat floor, also when its sensor drops out or its curve changes and *)
(* the other sensor alone makes the target.                                *)
OverheatFloor ==
  (\E s \in Sensors : ema[s] >= Threshold) /\ HasTarget => Target >= Floor

(* The floor is given up only after every sensor stayed below the release  *)
(* temperature for the whole cooldown, counted anew after each relapse.    *)
CooldownHeld == [][active /\ ~active' /\ shape' # NoShape => calm = Cooldown]_curveVars
=============================================================================
