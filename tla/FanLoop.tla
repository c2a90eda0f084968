------------------------------- MODULE FanLoop -------------------------------
(***************************************************************************)
(* The fan half of the daemon: the fan policy of                           *)
(* crates/victus-hubd/src/runtime.rs, the one second loop that drives the  *)
(* curve (FanController::poll_once of crates/victus-core/src/fan.rs) and   *)
(* the hwmon files both of them write.  A policy change is applied to the  *)
(* hardware at once; the loop notices it at its next poll.  Every action   *)
(* is atomic under the runtime lock.  Any hardware call may fail until the *)
(* hardware heals, and clients may send raw fan commands at any time.      *)
(***************************************************************************)
EXTENDS FanCurve

CONSTANTS
  Readings,     (* what the two temperature sensors may read                 *)
  Seeds,        (* what pwm1 may read back, in percent                       *)
  MinChange     (* min_fan_change_pct                                        *)

ASSUME LoopAssumption ==
  /\ Readings \subseteq Samples
  /\ Seeds \subseteq Percent \cup {None}
  /\ MinChange \in Nat

MAX == "max"
MANUAL == "manual"
AUTO == "auto"
Modes == {MAX, MANUAL, AUTO}

NoPreset == "none"
Presets == {NoPreset, AUTO, MAX}

(* pct_to_pwm, for a target within 0..100                                  *)
ToPwm(pct) == (pct * 255) \div 100

Own == -1           (* targets the daemon did not choose *)
Pwms == 0..255 \cup {Own}

VARIABLES
  supported, (* the board has a pwm1 file                                    *)
  enabled,   (* custom_enabled of the saved fan policy                       *)
  preset,    (* manual_preset of the saved fan policy                        *)
  selected,  (* the curves that the policy and the power profile select      *)
  suspended, (* between prepare_sleep and resume                             *)
  was,       (* LoopState.was_custom                                         *)
  force,     (* LoopState.force_write                                        *)
  last,      (* LoopState.last_written_pct                                   *)
  mode,      (* pwm1_enable, as the driver holds it                          *)
  pwm,       (* pwm1 and pwm2, where they agree and the daemon wrote them    *)
  healthy,   (* history: hardware calls no longer fail                       *)
  modeLost,  (* history: the last call to set the mode failed, or a raw      *)
             (* command changed it since                                     *)
  speedLost, (* history: likewise for the speed                              *)
  unseen     (* history: the policy left the curve behind the loop's back    *)

policy == <<enabled, preset, selected>>
loopVars == <<was, force, last>>
hardware == <<mode, pwm>>
histories == <<modeLost, speedLost, unseen>>
vars == <<supported, policy, suspended, loopVars, hardware, healthy, histories,
          curveVars>>

-----------------------------------------------------------------------------
(* active_curve_drives_fans *)
CurveDriven == enabled /\ preset = NoPreset /\ supported

(* fan_enable_mode, an unsupported curve falling back to the EC            *)
Wanted ==
  IF preset = MAX THEN MAX
  ELSE IF preset = AUTO \/ ~enabled \/ ~supported THEN AUTO
  ELSE MANUAL

(* pwm_enable: the driver enters MANUAL at the speeds the fans turn at     *)
(* now, and takes a repeated MANUAL for nothing.                           *)
PwmEnable(m, ok) ==
  \/ /\ ok
     /\ mode' = m
     /\ pwm' = IF m = MANUAL /\ mode = MANUAL THEN pwm ELSE Own
  \/ /\ ~ok /\ ~healthy
     /\ UNCHANGED hardware

(* Faulty: the mode is applied also while the machine sleeps.              *)
ApplyFanModeAsleep ==
  \E ok \in BOOLEAN : PwmEnable(Wanted', ok) /\ modeLost' = ~ok

(* apply_fan_mode: a failure is logged, nobody retries it.                 *)
ApplyFanMode ==
  \/ suspended' /\ UNCHANGED <<hardware, modeLost>>
  \/ ~suspended' /\ \E ok \in BOOLEAN : PwmEnable(Wanted', ok) /\ modeLost' = ~ok

(* Faulty: the overheat latch survives.                                    *)
OnSuspendKeepingLatch ==
  /\ was' = FALSE /\ force' = FALSE /\ last' = None
  /\ ema' = [s \in Sensors |-> None]
  /\ demand' = [s \in Sensors |-> None]
  /\ shape' = NoShape
  /\ speedLost' = FALSE /\ unseen' = FALSE
  /\ UNCHANGED <<hot, active, clear, calm>>

(* on_suspend, on_manual_preset and on_leave_custom *)
OnSuspend ==
  /\ was' = FALSE /\ force' = FALSE /\ last' = None
  /\ ResetAlgorithm
  /\ speedLost' = FALSE /\ unseen' = FALSE

-----------------------------------------------------------------------------
Init ==
  /\ supported \in BOOLEAN
  /\ enabled \in BOOLEAN /\ preset \in Presets /\ selected \in Shapes
  /\ suspended = FALSE
  /\ was = FALSE /\ force = FALSE /\ last = None
  /\ mode = Wanted /\ pwm = Own
  /\ healthy = FALSE
  /\ modeLost = FALSE /\ speedLost = FALSE /\ unseen = FALSE
  /\ CurveInit

(* set_fan_config and initialize_state *)
SetFanConfig ==
  /\ enabled' \in BOOLEAN /\ preset' \in Presets /\ selected' \in Shapes
  /\ UNCHANGED <<supported, suspended, loopVars, healthy, speedLost, curveVars>>
  /\ ApplyFanMode
  /\ unseen' = (unseen \/ (was /\ ~suspended /\ Wanted' # MANUAL))

(* complete_profile: another power profile has curves of its own.          *)
CompleteProfile ==
  /\ selected' \in Shapes
  /\ UNCHANGED <<supported, enabled, preset, suspended, loopVars, hardware,
                 healthy, histories, curveVars>>

PrepareSleep ==
  /\ suspended' = TRUE
  /\ \E ok \in BOOLEAN : PwmEnable(AUTO, ok) /\ modeLost' = ~ok
  /\ UNCHANGED <<supported, policy, loopVars, healthy, speedLost, unseen, curveVars>>

(* Faulty: the loop state is carried over the sleep.                       *)
ResumeKeepingLoop ==
  /\ suspended' = FALSE
  /\ UNCHANGED <<supported, policy, healthy, loopVars, curveVars, speedLost, unseen>>
  /\ ApplyFanMode

(* resume, and the start of a daemon that loads the saved policy *)
Resume ==
  /\ suspended' = FALSE
  /\ UNCHANGED <<supported, policy, healthy>>
  /\ OnSuspend
  /\ ApplyFanMode

(* fan-auto, fan-max, fan-manual and fan-pwm from a client *)
RawCommand ==
  /\ \/ \E m \in Modes : PwmEnable(m, TRUE)
     \/ mode' = MANUAL /\ pwm' = Own
  /\ modeLost' = TRUE /\ speedLost' = TRUE
  /\ UNCHANGED <<supported, policy, suspended, loopVars, healthy, unseen, curveVars>>

-----------------------------------------------------------------------------
(* fan_poll *)

(* Asleep, under a preset, or with a curve the board cannot follow. *)
PollIdle ==
  /\ suspended \/ preset # NoPreset \/ (enabled /\ ~supported)
  /\ OnSuspend
  /\ UNCHANGED <<supported, policy, suspended, hardware, healthy, modeLost>>

(* The curve was switched off: request_auto, whose failure is ignored.     *)
PollLeaves ==
  /\ ~suspended /\ preset = NoPreset /\ ~enabled /\ was
  /\ \E ok \in BOOLEAN : PwmEnable(AUTO, ok) /\ modeLost' = ~ok
  /\ OnSuspend
  /\ UNCHANGED <<supported, policy, suspended, healthy>>

(* on_enter_custom with the speed read back, then request_manual, whose    *)
(* failure is ignored.  The algorithm is already reset (EntersFresh).      *)
ForceNow == was => force
LastNow(seed) == IF was THEN last ELSE seed
ModeNow(took) == IF ~was /\ took THEN MANUAL ELSE mode
PwmNow(took) == IF ~was /\ took /\ mode # MANUAL THEN Own ELSE pwm

(* The dead band: a small change is not worth a write.                     *)
SmallChange(seed) ==
  /\ LastNow(seed) # None /\ ~ForceNow
  /\ Target' - LastNow(seed) <= MinChange /\ LastNow(seed) - Target' <= MinChange

Hold(seed, took) ==
  /\ HasTarget' => SmallChange(seed)
  /\ force' = ForceNow /\ last' = LastNow(seed)
  /\ mode' = ModeNow(took) /\ pwm' = PwmNow(took)
  /\ modeLost' = IF was THEN modeLost ELSE ~took
  /\ UNCHANGED <<speedLost, unseen>>

(* write_pwm puts the driver into MANUAL and sets both fans.               *)
WriteTarget(seed) ==
  /\ HasTarget' /\ ~SmallChange(seed)
  /\ force' = FALSE /\ last' = Target'
  /\ mode' = MANUAL /\ pwm' = ToPwm(Target')
  /\ modeLost' = FALSE /\ speedLost' = FALSE /\ unseen' = FALSE

(* It stops at the first file that rejects its write: the mode, the first  *)
(* fan or the second.                                                      *)
WriteFails(seed, took) ==
  /\ HasTarget' /\ ~SmallChange(seed) /\ ~healthy
  /\ force' = ForceNow /\ last' = LastNow(seed)
  /\ \/ mode' = ModeNow(took) /\ pwm' = PwmNow(took)
     \/ mode' = MANUAL /\ pwm' = IF ModeNow(took) = MANUAL THEN PwmNow(took) ELSE Own
     \/ mode' = MANUAL /\ pwm' = Own
  /\ modeLost' = TRUE /\ speedLost' = TRUE
  /\ UNCHANGED unseen

PollDrives(sample) ==
  /\ ~suspended /\ CurveDriven
  /\ was' = TRUE
  /\ Evaluate(selected, sample)
  /\ UNCHANGED <<supported, policy, suspended, healthy>>
  /\ \E seed \in Seeds, took \in BOOLEAN :
       /\ ~was /\ healthy => took
       /\ Hold(seed, took) \/ WriteTarget(seed) \/ WriteFails(seed, took)

Poll == PollIdle \/ PollLeaves \/ \E sample \in Readings : PollDrives(sample)

-----------------------------------------------------------------------------
Second ==
  /\ Elapse
  /\ UNCHANGED <<supported, policy, suspended, loopVars, hardware, healthy,
                 histories>>

Heal ==
  /\ ~healthy
  /\ healthy' = TRUE
  /\ UNCHANGED <<supported, policy, suspended, loopVars, hardware, histories,
                 curveVars>>

Next ==
  \/ SetFanConfig
  \/ CompleteProfile
  \/ PrepareSleep
  \/ Resume
  \/ RawCommand
  \/ Poll
  \/ Second
  \/ Heal

Spec == Init /\ [][Next]_vars

(* The loop thread polls about once a second. *)
FairSpec == Spec /\ WF_vars(Poll)

-----------------------------------------------------------------------------
(* Properties *)

(* Every variable has its type. *)
TypeOK ==
  /\ supported \in BOOLEAN /\ enabled \in BOOLEAN /\ suspended \in BOOLEAN
  /\ preset \in Presets /\ selected \in Shapes
  /\ was \in BOOLEAN /\ force \in BOOLEAN
  /\ last \in Percent \cup {None}
  /\ mode \in Modes /\ pwm \in Pwms
  /\ healthy \in BOOLEAN /\ modeLost \in BOOLEAN
  /\ speedLost \in BOOLEAN /\ unseen \in BOOLEAN

(* However sleep, presets, a curve switched off and polls follow each      *)
(* other, a loop that does not drive the fans holds no EMA, demand or      *)
(* overheat verdict from before (fan.rs on_suspend), so a poll enters the  *)
(* curve as if it were the first.                                          *)
EntersFresh ==
  ~was => /\ ema = [s \in Sensors |-> None]
          /\ demand = [s \in Sensors |-> None]
          /\ shape = NoShape
          /\ hot = [s \in Sensors |-> FALSE]
          /\ ~active /\ clear = None /\ calm = 0

(* Policy changes, polls and sleep in any order leave the hardware in the  *)
(* mode the policy asks for, in AUTO during sleep, unless the last call    *)
(* failed or a raw command intervened.                                     *)
ModeAgrees == ~modeLost => mode = IF suspended THEN AUTO ELSE Wanted

Driving == was /\ ~force /\ ~suspended /\ CurveDriven

(* Past its first write the fans hold the speed the loop believes it       *)
(* wrote, unless a write failed since, a raw command intervened or the     *)
(* policy left the curve and came back between two polls.                  *)
InStep == Driving /\ ~speedLost /\ ~unseen => mode = MANUAL /\ pwm = ToPwm(last)

(* While overheating is active the speed last written reaches the floor,   *)
(* up to the dead band, whatever the curves ask for.                       *)
FloorWritten == was /\ ~force /\ active /\ ~speedLost => last + MinChange >= Floor

(* A hot sensor holds the target at the floor, the target is written, so   *)
(* that the fans run at the floor up to the dead band, and the floor is    *)
(* given up only after a whole cooldown without a relapse (fan.rs          *)
(* update_overheat, control_tick).                                         *)
FloorKept == [](OverheatFloor /\ FloorWritten) /\ CooldownHeld
=============================================================================
