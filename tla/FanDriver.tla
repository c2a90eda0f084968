------------------------------ MODULE FanDriver ------------------------------
(***************************************************************************)
(* The hwmon fan control of kernel/hp-wmi/hp-wmi.c: the mode and PWM       *)
(* targets the driver caches, the firmware state they are meant to hold,   *)
(* the keep-alive work that renews it before the firmware's own watchdog   *)
(* returns the fans to automatic control, and the deferred AUTO restore    *)
(* that a failed switch to MANUAL leaves behind.                           *)
(*                                                                         *)
(* Any WMI call may fail.  A failed call has no effect on the firmware; a  *)
(* transaction stops at the first failed call.  Time passes in ticks: a    *)
(* due work item and a due watchdog run before the next tick.              *)
(***************************************************************************)
EXTENDS Integers

CONSTANTS
  Fans,             (* hwmon PWM channels: the CPU fan and the GPU fan       *)
  Speeds,           (* fan speed targets, after the clamp to the fan table   *)
  Delay,            (* KEEP_ALIVE_DELAY_SECS, in ticks                       *)
  Retry,            (* KEEP_ALIVE_RETRY_DELAY_SECS, in ticks                 *)
  FirmwareTimeout   (* the firmware's fallback timeout, in ticks             *)

ASSUME DriverAssumption ==
  /\ 0 \in Speeds
  /\ Retry \in Nat \ {0} /\ Delay \in Nat /\ FirmwareTimeout \in Nat
  /\ Retry <= Delay /\ Delay < FirmwareTimeout

MAX == "max"
MANUAL == "manual"
AUTO == "auto"
Modes == {MAX, MANUAL, AUTO}

(* What loading the driver finds out about the board: an RPM reader        *)
(* (fan_profile), a usable fan table with it (fan_control_available), a    *)
(* valid platform profile, and whether its profile setter triggers the     *)
(* user-defined state (victus_s boards).                                   *)
Boards == {b \in [control: BOOLEAN, reader: BOOLEAN,
                  profile: BOOLEAN, victusS: BOOLEAN] : b.control => b.reader}

Idle == -1          (* the delayed work is not scheduled *)

Unset == [fan \in Fans |-> 0]       (* devm_kzalloc *)

Firmware == [user: BOOLEAN, max: BOOLEAN,
             speed: [Fans -> Speeds], age: 0..FirmwareTimeout]

VARIABLES
  board,     (* what hp_wmi_setup_fan_settings and profile setup found       *)
  mode,      (* priv->mode                                                   *)
  pwm,       (* priv->cpu_pwm, priv->gpu_pwm                                 *)
  pending,   (* priv->auto_restore_pending                                   *)
  timer,     (* ticks until keep_alive_dwork is due, or Idle                 *)
  running,   (* the work has been dequeued and waits for priv->lock          *)
  fw,        (* the firmware: user-defined fan state, max override, targets, *)
             (* and the ticks since the state was last triggered             *)
  healthy,   (* history: WMI calls no longer fail                            *)
  late,      (* history: ticks of retry granted since the last renewal       *)
  overtaken  (* history: the accepted setting replaced a pending restore     *)

vars == <<board, mode, pwm, pending, timer, running, fw, healthy, late, overtaken>>

-----------------------------------------------------------------------------
(* WMI transactions: the set of outcomes, each a verdict and the firmware. *)

Active(f) == f.user \/ f.max

Triggered(f) == [user |-> TRUE, max |-> f.max, speed |-> f.speed, age |-> 0]

Success(f) == [ok |-> TRUE, fw |-> f]
Failures(S) == IF healthy THEN {} ELSE {[ok |-> FALSE, fw |-> f] : f \in S}

(* hp_wmi_fan_speed_max_set(1), after the trigger where it is supported    *)
ApplyMax(f) ==
  LET g == IF board.control THEN Triggered(f) ELSE f
  IN  {Success([user |-> g.user, max |-> TRUE, speed |-> g.speed, age |-> 0])}
        \cup Failures({f, g})

(* Faulty: the user-defined state is not triggered again.                  *)
FanSpeedSetUntriggered(f, p) ==
  LET off == [f EXCEPT !.user = TRUE, !.max = FALSE]
  IN  {Success([off EXCEPT !.speed = p])} \cup Failures({f, off})

(* hp_wmi_fan_speed_set: trigger, max override off, both fan targets       *)
FanSpeedSet(f, p) ==
  LET off == [Triggered(f) EXCEPT !.max = FALSE]
  IN  {Success([off EXCEPT !.speed = p])}
        \cup Failures({f, Triggered(f), off})

(* hp_wmi_restore_auto_fans: max override off, then re-apply the profile,  *)
(* which ends the user-defined state; a max-only board, or one without a   *)
(* valid profile, stops after the first call.                              *)
RestoreAutoFans(f) ==
  LET off == [f EXCEPT !.max = FALSE]
  IN  IF board.profile /\ board.reader
      THEN {Success([off EXCEPT !.user = FALSE])} \cup Failures({f, off})
      ELSE {Success(off)} \cup Failures({f})

Apply(m, p, f) ==
  CASE m = MAX    -> ApplyMax(f)
    [] m = MANUAL -> FanSpeedSet(f, p)
    [] m = AUTO   -> RestoreAutoFans(f)

-----------------------------------------------------------------------------
Init ==
  /\ board \in Boards
  /\ mode = AUTO
  /\ pwm = Unset
  /\ pending = FALSE
  /\ timer = Idle
  /\ running = FALSE
  /\ fw \in [user: {FALSE}, max: {FALSE}, speed: {Unset}, age: {0}]
  /\ healthy = FALSE
  /\ late = 0
  /\ overtaken = FALSE

(* What a successful hp_wmi_apply_fan_settings does to the work and to the *)
(* pending flag: MAX and MANUAL re-arm, AUTO cancels and drops the flag.   *)
Applied(m) ==
  /\ timer' = IF m = AUTO THEN Idle ELSE Delay
  /\ pending' = (pending /\ m # AUTO)
  /\ overtaken' = (pending /\ m # AUTO)
  /\ late' = 0

(* The new setting was rejected while the cached mode was AUTO: undo the   *)
(* trigger now, or leave that to the work.                                 *)
Compensate(f) ==
  \E u \in RestoreAutoFans(f) :
    /\ fw' = u.fw
    /\ pending' = ~u.ok
    /\ timer' = IF u.ok THEN timer ELSE Retry
    /\ UNCHANGED <<late, overtaken>>

(* The transition out of MAX was rejected: put the override back.          *)
ReapplyMax(f) ==
  \E u \in ApplyMax(f) :
    /\ fw' = u.fw
    /\ IF u.ok THEN Applied(MAX)
               ELSE UNCHANGED <<timer, pending, overtaken, late>>

(* Faulty: a rejected setting is not rolled back.                          *)
CommitWithoutRollback(m, p) ==
  \E r \in Apply(m, p, fw) :
    /\ mode' = m /\ pwm' = p /\ fw' = r.fw
    /\ IF r.ok THEN Applied(m)
               ELSE UNCHANGED <<timer, pending, overtaken, late>>

CommitFanSettings(m, p) ==
  \E r \in Apply(m, p, fw) :
    IF r.ok
    THEN /\ mode' = m /\ pwm' = p /\ fw' = r.fw
         /\ Applied(m)
    ELSE /\ UNCHANGED <<mode, pwm>>
         /\ CASE m = MANUAL /\ mode = AUTO -> Compensate(r.fw)
              [] m # MAX /\ mode = MAX     -> ReapplyMax(r.fw)
              [] OTHER -> /\ fw' = r.fw
                          /\ UNCHANGED <<timer, pending, overtaken, late>>

(* hp_wmi_hwmon_write on pwm1_enable                                       *)
WriteMax ==
  /\ CommitFanSettings(MAX, pwm)
  /\ UNCHANGED <<board, running, healthy>>

WriteAuto ==
  /\ CommitFanSettings(AUTO, pwm)
  /\ UNCHANGED <<board, running, healthy>>

(* Entering MANUAL starts from the speeds the fans turn at now; MANUAL     *)
(* written again changes nothing.                                          *)
WriteManual ==
  /\ board.control /\ board.profile
  /\ mode # MANUAL
  /\ \E current \in [Fans -> Speeds] : CommitFanSettings(MANUAL, current)
  /\ UNCHANGED <<board, running, healthy>>

(* hp_wmi_hwmon_write on pwm1 or pwm2: one target changes, both are sent   *)
WritePwm(fan, speed) ==
  /\ board.control
  /\ mode = MANUAL
  /\ CommitFanSettings(MANUAL, [pwm EXCEPT ![fan] = speed])
  /\ UNCHANGED <<board, running, healthy>>

(* A platform profile write or a power source event, serialised by another *)
(* lock: on victus_s boards it triggers the user-defined state first; the  *)
(* thermal profile that follows ends it.                                   *)
ProfileWrite ==
  LET begun == IF board.victusS THEN Triggered(fw) ELSE fw
  IN  /\ board.profile
      /\ \/ fw' = [begun EXCEPT !.user = FALSE]
         \/ ~healthy /\ fw' \in {fw, begun}
      /\ UNCHANGED <<board, mode, pwm, pending, timer, running, healthy, late,
                 overtaken>>

-----------------------------------------------------------------------------
(* The work is due: the workqueue dequeues it, then it waits for the lock. *)
WorkStarts ==
  /\ timer = 0 /\ ~running
  /\ timer' = Idle
  /\ running' = TRUE
  /\ UNCHANGED <<board, mode, pwm, pending, fw, healthy, late, overtaken>>

(* hp_wmi_hwmon_keep_alive_handler                                         *)
RestorePending ==
  /\ pending
  /\ \E u \in RestoreAutoFans(fw) :
       /\ fw' = u.fw
       /\ pending' = ~u.ok
       /\ timer' = IF u.ok THEN timer ELSE Retry
  /\ UNCHANGED <<late, overtaken>>

StaleWork ==
  /\ ~pending /\ mode = AUTO
  /\ UNCHANGED <<fw, pending, timer, late, overtaken>>

GrantRetry == IF late + Retry < FirmwareTimeout THEN late + Retry
                                                ELSE FirmwareTimeout

(* Faulty: a failed refresh is only logged.                                *)
RefreshOnce ==
  /\ ~pending /\ mode # AUTO
  /\ \E u \in Apply(mode, pwm, fw) :
       /\ fw' = u.fw
       /\ IF u.ok THEN Applied(mode)
                  ELSE UNCHANGED <<timer, late, pending, overtaken>>

Refresh ==
  /\ ~pending /\ mode # AUTO
  /\ \E u \in Apply(mode, pwm, fw) :
       /\ fw' = u.fw
       /\ IF u.ok
          THEN Applied(mode)
          ELSE /\ timer' = Retry
               /\ late' = GrantRetry
               /\ UNCHANGED <<pending, overtaken>>

KeepAlive ==
  /\ running
  /\ running' = FALSE
  /\ RestorePending \/ StaleWork \/ Refresh
  /\ UNCHANGED <<board, mode, pwm, healthy>>

(* hp_wmi_hwmon_stop and hp_wmi_hwmon_init: the module is unloaded and     *)
(* loaded again; the firmware keeps what it was last told.                 *)
Reload ==
  /\ ~running
  /\ board' \in {b \in Boards : b.victusS = board.victusS}
  /\ mode' = AUTO
  /\ pwm' = Unset
  /\ pending' = FALSE /\ timer' = Idle /\ late' = 0 /\ overtaken' = FALSE
  /\ UNCHANGED <<running, fw, healthy>>

-----------------------------------------------------------------------------
(* The environment *)
FirmwareDue == Active(fw) /\ fw.age = FirmwareTimeout

Tick ==
  /\ timer # 0 /\ ~running /\ ~FirmwareDue
  /\ timer' = IF timer = Idle THEN Idle ELSE timer - 1
  /\ fw' = IF Active(fw) THEN [fw EXCEPT !.age = @ + 1] ELSE fw
  /\ UNCHANGED <<board, mode, pwm, pending, running, healthy, late, overtaken>>

FirmwareFallback ==
  /\ FirmwareDue
  /\ fw' = [user |-> FALSE, max |-> FALSE, speed |-> fw.speed, age |-> 0]
  /\ UNCHANGED <<board, mode, pwm, pending, timer, running, healthy, late,
                 overtaken>>

Heal ==
  /\ ~healthy
  /\ healthy' = TRUE
  /\ UNCHANGED <<board, mode, pwm, pending, timer, running, fw, late, overtaken>>

Next ==
  \/ WriteMax
  \/ WriteAuto
  \/ WriteManual
  \/ \E fan \in Fans, speed \in Speeds : WritePwm(fan, speed)
  \/ ProfileWrite
  \/ WorkStarts
  \/ KeepAlive
  \/ Reload
  \/ Tick
  \/ FirmwareFallback
  \/ Heal

Spec == Init /\ [][Next]_vars

(* Time passes, a due work item runs and the firmware acts on its timeout. *)
FairSpec == Spec /\ WF_vars(Tick) /\ WF_vars(WorkStarts)
                 /\ WF_vars(KeepAlive) /\ WF_vars(FirmwareFallback)

-----------------------------------------------------------------------------
(* Properties *)

WorkScheduled == timer # Idle \/ running

(* Every variable has its type; the work is never due later than Delay.    *)
TypeOK ==
  /\ board \in Boards
  /\ mode \in Modes
  /\ pwm \in [Fans -> Speeds]
  /\ timer \in {Idle} \cup 0..Delay
  /\ fw \in Firmware
  /\ late \in 0..FirmwareTimeout
  /\ pending \in BOOLEAN /\ running \in BOOLEAN
  /\ healthy \in BOOLEAN /\ overtaken \in BOOLEAN

(* Whatever calls fail, and however writes race with the running work, a   *)
(* MAX or MANUAL setting keeps a renewal scheduled - unless the setting    *)
(* was accepted while an AUTO restore was still owed.                      *)
RefreshScheduled == mode # AUTO /\ ~overtaken => WorkScheduled

(* An AUTO restore that a rejected MANUAL left behind is always retried:   *)
(* the flag is never set without the work that clears it.                  *)
RestoreScheduled == pending => WorkScheduled

(* What the driver still owes the firmware, a renewal or a restore, always *)
(* has its work scheduled.                                                 *)
AlwaysScheduled == RefreshScheduled /\ RestoreScheduled

(* In MANUAL mode the targets the driver remembers, and sends again on     *)
(* every renewal, are the ones the firmware last accepted, also after      *)
(* writes that failed half way.                                            *)
CommittedTargets == mode = MANUAL => fw.speed = pwm

(* The firmware's timeout can return the fans to automatic control behind  *)
(* a MAX or MANUAL setting only when renewals kept failing for the whole   *)
(* margin between the keep-alive delay and that timeout.                   *)
FallbackOnlyWhenLate ==
  FirmwareDue /\ mode # AUTO /\ ~overtaken => late >= FirmwareTimeout - Delay

(* The firmware does what the cached mode says.                            *)
Held == \/ mode = MAX /\ fw.max
        \/ mode = MANUAL /\ fw.user /\ ~fw.max

(* Once calls stop failing, a firmware that lost the MAX or MANUAL setting *)
(* (a profile switch, a timeout, a half-done transition) gets it back.     *)
Converges ==
  (healthy /\ mode # AUTO /\ ~overtaken) ~> (Held \/ mode = AUTO \/ overtaken)

(* Once calls stop failing, AUTO ends the user-defined fan state, also     *)
(* after a switch to MAX that triggered it and failed, and after a reload. *)
AutoReleases == (healthy /\ mode = AUTO) ~> (~fw.user \/ mode # AUTO)

(* The firmware ends in the driver's mode after failures of any kind.      *)
Recovers == Converges /\ AutoReleases
=============================================================================
