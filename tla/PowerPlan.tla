------------------------------ MODULE PowerPlan ------------------------------
(***************************************************************************)
(* Power limits and CPU frequency limits (crates/victus-hubd/src/main.rs,  *)
(* runtime.rs, dispatch.rs): a loop takes the saved policy under the       *)
(* runtime lock and applies it under the commands lock, again and again;   *)
(* clients write the hardware under the commands lock and save what they   *)
(* wrote under the runtime lock; the sleep hook has only the latter.       *)
(***************************************************************************)
EXTENDS Integers

CONSTANTS
  Clients,
  Policies,      (* PowerPolicy: limits and reapply interval               *)
  Enabled,       (* the policies whose limits are to be applied            *)
  Default,       (* PowerPolicy::default                                   *)
  Interval,      (* reapply_seconds of a policy, in ticks                  *)
  Frequencies,   (* pairs of a minimum and a maximum frequency             *)
  None,
  Other          (* hardware limits that nobody asked for                  *)

ASSUME PowerAssumption ==
  /\ Enabled \subseteq Policies
  /\ Default \in Policies \ Enabled
  /\ Interval \in [Policies -> Nat \ {0}]

Never == -1                        (* last_power_apply = 0.0 *)
Limits == Frequencies \cup {None}  (* Option of cpu_frequency *)

NoPlan == [policy |-> Default, frequency |-> None]
Plans == [policy : Policies, frequency : Limits]

Nothing == [kind |-> "nothing"]
Commands ==
  [kind : {"power"}, policy : Policies]
    \cup [kind : {"frequency"}, frequency : Limits]

VARIABLES
  power,        (* DaemonState.power                                         *)
  frequency,    (* DaemonState.cpu_frequency                                 *)
  initialized,  (* DaemonState.initialized                                   *)
  suspended,    (* Runtime.suspended                                         *)
  age,          (* the time since last_power_apply                           *)
  phase,        (* where the loop is                                         *)
  plan,         (* what power_plan gave it                                   *)
  pending,      (* what each client has written and not yet saved; a client  *)
                (* that has something pending holds the commands lock        *)
  limits,       (* the power limits of the hardware                          *)
  scaling,      (* the frequency limits of the hardware                      *)
  excused,      (* history: which of them need not be what is saved, and why *)
  healed        (* the hardware no longer fails or changes by itself, and    *)
                (* the daemon runs on                                        *)

saved == <<power, frequency, initialized>>
loop == <<age, phase, plan>>
hardware == <<limits, scaling, excused>>
vars == <<saved, suspended, loop, pending, hardware, healed>>

Saving(kind) == \E c \in Clients : pending[c].kind = kind

(* Faulty: the lock does not cover the saving of what was written.         *)
UnlockedEarly == phase \notin {"limits", "scaling"}

(* The commands lock is free for a client.                                 *)
Unlocked ==
  /\ \A c \in Clients : pending[c] = Nothing
  /\ phase \notin {"limits", "scaling"}

-----------------------------------------------------------------------------
(* Writes to the hardware.  A failed one may have changed a part; it is    *)
(* excused until the next write succeeds.                                  *)
LimitsFail ==
  /\ ~healed
  /\ limits' \in {limits, Other}
  /\ excused' = excused \cup {"limits"}
  /\ UNCHANGED scaling

WriteLimits(p) ==
  /\ limits' = p
  /\ excused' = excused \ {"limits"}
  /\ UNCHANGED scaling

ScalingFails ==
  /\ ~healed
  /\ scaling' \in {scaling, Other}
  /\ excused' = excused \cup {"scaling"}
  /\ UNCHANGED limits

(* faults: why f is not the frequency that is saved or about to be         *)
WriteScaling(f, faults) ==
  /\ scaling' = f
  /\ excused' = (excused \ {"scaling", "crossed", "stale"}) \cup faults
  /\ UNCHANGED limits

(* A write under the runtime lock alone crosses the command of a client    *)
(* that has written and not yet saved.                                     *)
Crossing == IF Saving("frequency") THEN {"crossed"} ELSE {}

(* A limit of None is not written.                                         *)
RestoreScaling(f, faults) ==
  \/ f = None /\ UNCHANGED hardware
  \/ f # None /\ (WriteScaling(f, faults) \/ ScalingFails)

-----------------------------------------------------------------------------
(* The reapply loop                                                        *)

(* Faulty: limits are applied once and never again.                        *)
DueOnce == age = Never

Due == age = Never \/ age >= Interval[power]

LoopPlans ==
  /\ phase = "idle"
  /\ ~suspended /\ power \in Enabled /\ Due
  /\ phase' = "planned"
  /\ plan' = [policy |-> power, frequency |-> frequency]
  /\ age' = 0
  /\ UNCHANGED <<saved, suspended, pending, hardware, healed>>

(* Faulty: applies what was planned, whatever was saved since.             *)
ValidAwake == ~suspended

Valid == ~suspended /\ plan.policy = power

(* The loop gets the commands lock and looks at the policy again.          *)
LoopChecks ==
  /\ phase = "planned" /\ Unlocked
  /\ \/ Valid /\ phase' = "limits" /\ UNCHANGED plan
     \/ ~Valid /\ phase' = "idle" /\ plan' = NoPlan
  /\ UNCHANGED <<saved, suspended, age, pending, hardware, healed>>

LoopAppliesLimits ==
  /\ phase = "limits"
  /\ WriteLimits(plan.policy) \/ LimitsFail
  /\ phase' = "scaling"
  /\ UNCHANGED <<saved, suspended, age, plan, pending, healed>>

LoopAppliesScaling ==
  /\ phase = "scaling"
  /\ RestoreScaling(plan.frequency,
                    IF plan.frequency = frequency THEN {} ELSE {"stale"})
  /\ phase' = "idle" /\ plan' = NoPlan
  /\ UNCHANGED <<saved, suspended, age, pending, healed>>

Loop == LoopPlans \/ LoopChecks \/ LoopAppliesLimits \/ LoopAppliesScaling

(* The loop wakes once a second; time past the interval makes no           *)
(* difference.                                                             *)
Tick ==
  /\ age # Never /\ age < Interval[power]
  /\ age' = age + 1
  /\ UNCHANGED <<saved, suspended, phase, plan, pending, hardware, healed>>

-----------------------------------------------------------------------------
(* power-config: applies an enabled policy; an error ends the command.     *)
ClientAppliesPower(c, p) ==
  /\ Unlocked
  /\ \/ /\ p \in Enabled /\ LimitsFail
        /\ UNCHANGED pending
     \/ /\ IF p \in Enabled THEN WriteLimits(p) ELSE UNCHANGED hardware
        /\ pending' = [pending EXCEPT ![c] = [kind |-> "power", policy |-> p]]
  /\ UNCHANGED <<saved, suspended, loop, healed>>

SetPower(p) ==
  /\ power' = p /\ initialized' = TRUE
  /\ age' = Never
  /\ UNCHANGED frequency

ClientSavesPower(c) ==
  /\ pending[c].kind = "power"
  /\ SetPower(pending[c].policy)
  /\ pending' = [pending EXCEPT ![c] = Nothing]
  /\ UNCHANGED <<suspended, phase, plan, hardware, healed>>

(* cpu-frequency-config: None forgets the limits and leaves the hardware.  *)
ClientAppliesFrequency(c, f) ==
  /\ Unlocked
  /\ \/ /\ f # None /\ ScalingFails
        /\ UNCHANGED pending
     \/ /\ IF f = None THEN UNCHANGED hardware ELSE WriteScaling(f, {})
        /\ pending' =
             [pending EXCEPT ![c] = [kind |-> "frequency", frequency |-> f]]
  /\ UNCHANGED <<saved, suspended, loop, healed>>

ClientSavesFrequency(c) ==
  /\ pending[c].kind = "frequency"
  /\ frequency' = pending[c].frequency /\ initialized' = TRUE
  /\ pending' = [pending EXCEPT ![c] = Nothing]
  /\ UNCHANGED <<power, suspended, loop, hardware, healed>>

(* power-limits, intel-power-limits and cpu-frequency-limits: the hardware *)
(* only, behind the back of the saved state                                *)
RawCommand ==
  /\ ~healed /\ Unlocked
  /\ \/ /\ limits' \in Policies \cup {Other}
        /\ excused' = excused \cup {"limits"}
        /\ UNCHANGED scaling
     \/ /\ scaling' \in Frequencies \cup {Other}
        /\ excused' = excused \cup {"scaling"}
        /\ UNCHANGED limits
  /\ UNCHANGED <<saved, suspended, loop, pending, healed>>

-----------------------------------------------------------------------------
PrepareSleep ==
  /\ suspended' = TRUE
  /\ UNCHANGED <<saved, loop, pending, hardware, healed>>

(* Faulty: leaves the reapply timer running.                               *)
ResumeKeepingAge ==
  /\ suspended' = FALSE
  /\ RestoreScaling(frequency, Crossing)
  /\ UNCHANGED <<saved, loop, pending, healed>>

Resume ==
  /\ suspended' = FALSE
  /\ age' = Never
  /\ RestoreScaling(frequency, Crossing)
  /\ UNCHANGED <<saved, phase, plan, pending, healed>>

(* initialize_state: the desktop's settings, imported once.  A failed save *)
(* leaves the hardware changed.                                            *)
Initialize(p, f) ==
  /\ ~initialized
  /\ \/ /\ IF f = None THEN UNCHANGED hardware ELSE WriteScaling(f, Crossing)
        /\ power' = p /\ frequency' = f /\ initialized' = TRUE
        /\ age' = Never
     \/ /\ f # None /\ ~healed
        /\ scaling' \in {scaling, f, Other}
        /\ excused' = excused \cup {"scaling"}
        /\ UNCHANGED <<limits, saved, age>>
  /\ UNCHANGED <<suspended, phase, plan, pending, healed>>

(* Any other setting that is saved ends the wait for an import.            *)
SettingSaved ==
  /\ initialized' = TRUE
  /\ UNCHANGED <<power, frequency, suspended, loop, pending, hardware, healed>>

(* The daemon ends at any moment; a new one reads the saved state.         *)
Restart ==
  /\ ~healed
  /\ suspended' = FALSE
  /\ age' = Never /\ phase' = "idle" /\ plan' = NoPlan
  /\ pending' = [c \in Clients |-> Nothing]
  /\ RestoreScaling(frequency, {})
  /\ UNCHANGED <<saved, healed>>

-----------------------------------------------------------------------------
(* The firmware or a desktop program changes the limits.                   *)
Drift ==
  /\ ~healed
  /\ \/ /\ limits' = Other /\ excused' = excused \cup {"limits"}
        /\ UNCHANGED scaling
     \/ /\ scaling' = Other /\ excused' = excused \cup {"scaling"}
        /\ UNCHANGED limits
  /\ UNCHANGED <<saved, suspended, loop, pending, healed>>

Heal ==
  /\ healed' = TRUE
  /\ UNCHANGED <<saved, suspended, loop, pending, hardware>>

Init ==
  /\ power \in Policies /\ frequency \in Limits /\ initialized \in BOOLEAN
  /\ ~initialized => power = Default /\ frequency = None
  /\ suspended = FALSE
  /\ age = Never /\ phase = "idle" /\ plan = NoPlan
  /\ pending = [c \in Clients |-> Nothing]
  /\ limits = Other
  /\ \/ scaling = Other /\ excused = {"scaling"}
     \/ scaling = frequency /\ frequency # None /\ excused = {}
  /\ healed = FALSE

Saves == \E c \in Clients : ClientSavesPower(c) \/ ClientSavesFrequency(c)

Next ==
  \/ Loop \/ Tick
  \/ \E c \in Clients, p \in Policies : ClientAppliesPower(c, p)
  \/ \E c \in Clients, f \in Limits : ClientAppliesFrequency(c, f)
  \/ Saves
  \/ RawCommand
  \/ PrepareSleep \/ Resume
  \/ \E p \in Policies, f \in Limits : Initialize(p, f)
  \/ SettingSaved \/ Restart \/ Drift \/ Heal

Spec == Init /\ [][Next]_vars

(* The loop never ends, and a client that has written goes on to save.     *)
FairSpec == Spec /\ WF_vars(Loop) /\ WF_vars(Tick) /\ WF_vars(Saves)

-----------------------------------------------------------------------------
(* What the variables hold; the timer never runs past the interval of the  *)
(* policy in force.                                                        *)
TypeOK ==
  /\ power \in Policies /\ frequency \in Limits /\ initialized \in BOOLEAN
  /\ suspended \in BOOLEAN
  /\ age \in Nat \cup {Never} /\ age <= Interval[power]
  /\ phase \in {"idle", "planned", "limits", "scaling"}
  /\ plan \in Plans
  /\ pending \in [Clients -> Commands \cup {Nothing}]
  /\ limits \in Policies \cup {Other}
  /\ scaling \in Frequencies \cup {Other}
  /\ excused \subseteq {"limits", "scaling", "crossed", "stale"}
  /\ healed \in BOOLEAN

(* Between its second look at the policy and its write the loop works for  *)
(* the policy in force: no client and no import saves another meanwhile.   *)
PlanIsCurrent ==
  phase = "limits" => power \in Enabled /\ plan.policy = power

(* Limits other than those of the policy in force are about to be applied, *)
(* however commands, sleep and the loop interleave: the next turn of the   *)
(* loop has them due, or this turn carries them.                           *)
AppliedOrDue ==
  power \in Enabled /\ ~suspended
    /\ "limits" \notin excused /\ ~Saving("power")
  => \/ limits = power
     \/ age = Never
     \/ phase \in {"planned", "limits"} /\ plan.policy = power

(* Concurrent commands, sleep and restarts leave the saved frequency in    *)
(* force, but for resume crossing the command of a client and a stale plan *)
(* of the loop.                                                            *)
FrequencyAgrees ==
  excused \cap {"scaling", "crossed", "stale"} = {}
    /\ ~Saving("frequency") /\ frequency # None
  => scaling = frequency

(* An enabled policy and its frequency are in force in the end and stay    *)
(* so, whatever failed, drifted or crossed before.                         *)
Settled ==
  healed /\ ~suspended /\ power \in Enabled
    /\ \A c \in Clients : pending[c] = Nothing

Converges ==
  <>[]Settled
    => <>[](limits = power /\ (frequency # None => scaling = frequency))
=============================================================================
