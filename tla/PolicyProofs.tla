---------------------------- MODULE PolicyProofs ----------------------------
(***************************************************************************)
(* PowerPlan for any clients, policies, intervals and frequencies: the     *)
(* types, that the loop works for the policy in force, that a policy is    *)
(* applied or due, and that the saved frequency is in force. Then          *)
(* UiSession, the window's side of every policy: what is on show is what   *)
(* the daemon has or will be told.                                         *)
(***************************************************************************)
EXTENDS PowerPlan, UiSession, SequenceTheorems, TLAPS

(* The commands lock: the loop has it alone, or one client at most.        *)
Exclusive ==
  /\ phase \in {"limits", "scaling"} => \A c \in Clients : pending[c] = Nothing
  /\ \A c, d \in Clients :
       pending[c] # Nothing /\ pending[d] # Nothing => c = d

(* Before anything was saved no limits are to be applied, so the loop      *)
(* never plans; and what it plans is enabled.                              *)
PlanEnabled ==
  /\ ~initialized => power \notin Enabled
  /\ phase \in {"planned", "limits"} => plan.policy \in Enabled

(* A policy saved after the loop has planned has reset the timer.          *)
Overtaken == phase = "planned" /\ plan.policy # power => age = Never

(* What a client is about to save is what the hardware has.                *)
WrittenIsSaved ==
  \A c \in Clients :
    pending[c].kind = "frequency" /\ pending[c].frequency # None
      /\ excused \cap {"scaling", "crossed", "stale"} = {}
    => scaling = pending[c].frequency

IInv ==
  /\ TypeOK /\ Exclusive
  /\ PlanEnabled /\ Overtaken /\ PlanIsCurrent
  /\ AppliedOrDue
  /\ WrittenIsSaved /\ FrequencyAgrees

-----------------------------------------------------------------------------
(* What a write of the frequency limits leaves in the hardware.            *)
LEMMA RestoreTypes ==
  ASSUME TypeOK, NEW f \in Limits, NEW faults \in SUBSET {"crossed", "stale"},
         RestoreScaling(f, faults)
  PROVE  /\ limits' \in Policies \cup {Other}
         /\ scaling' \in Frequencies \cup {Other}
         /\ excused' \subseteq {"limits", "scaling", "crossed", "stale"}
BY DEF RestoreScaling, WriteScaling, ScalingFails, TypeOK, Limits, hardware

LEMMA CrossingTypes == Crossing \in SUBSET {"crossed", "stale"}
BY DEF Crossing

LEMMA NextTypes ==
  ASSUME TypeOK, [Next]_vars
  PROVE  TypeOK'
<1> USE PowerAssumption DEF TypeOK, saved, loop, hardware
<1>0. NoPlan \in Plans /\ [c \in Clients |-> Nothing] \in [Clients -> Commands \cup {Nothing}]
  BY DEF NoPlan, Plans, Limits
<1>1. CASE LoopPlans
  BY <1>1 DEF LoopPlans, Plans, Never
<1>2. CASE LoopChecks
  BY <1>0, <1>2 DEF LoopChecks
<1>3. CASE LoopAppliesLimits
  BY <1>3 DEF LoopAppliesLimits, WriteLimits, LimitsFail, Plans
<1>4. CASE LoopAppliesScaling
  <2>1. PICK faults \in SUBSET {"crossed", "stale"} :
          RestoreScaling(plan.frequency, faults)
    BY <1>4 DEF LoopAppliesScaling
  <2>2. plan.frequency \in Limits
    BY DEF Plans
  <2> QED
    BY <1>0, <1>4, <2>1, <2>2, RestoreTypes DEF LoopAppliesScaling
<1>5. CASE Tick
  BY <1>5 DEF Tick, Never
<1>6. ASSUME NEW c \in Clients, NEW p \in Policies, ClientAppliesPower(c, p)
      PROVE  TypeOK'
  <2>1. [kind |-> "power", policy |-> p] \in Commands
    BY DEF Commands
  <2>2. pending' \in [Clients -> Commands \cup {Nothing}]
    BY <1>6, <2>1 DEF ClientAppliesPower
  <2> QED
    BY <1>6, <2>2 DEF ClientAppliesPower, WriteLimits, LimitsFail
<1>7. ASSUME NEW c \in Clients, NEW f \in Limits, ClientAppliesFrequency(c, f)
      PROVE  TypeOK'
  <2>1. [kind |-> "frequency", frequency |-> f] \in Commands
    BY DEF Commands
  <2>2. pending' \in [Clients -> Commands \cup {Nothing}]
    BY <1>7, <2>1 DEF ClientAppliesFrequency
  <2>3. /\ limits' \in Policies \cup {Other}
        /\ scaling' \in Frequencies \cup {Other}
        /\ excused' \subseteq {"limits", "scaling", "crossed", "stale"}
    BY <1>7 DEF ClientAppliesFrequency, WriteScaling, ScalingFails, Limits
  <2> QED
    BY <1>7, <2>2, <2>3 DEF ClientAppliesFrequency
<1>8. ASSUME NEW c \in Clients, ClientSavesPower(c)
      PROVE  TypeOK'
  <2>1. pending[c].policy \in Policies
    BY <1>8 DEF ClientSavesPower, Commands, Nothing
  <2>2. pending' \in [Clients -> Commands \cup {Nothing}]
    BY <1>8 DEF ClientSavesPower
  <2> QED
    BY <1>8, <2>1, <2>2 DEF ClientSavesPower, SetPower, Never
<1>9. ASSUME NEW c \in Clients, ClientSavesFrequency(c)
      PROVE  TypeOK'
  <2>1. pending[c].frequency \in Limits
    BY <1>9 DEF ClientSavesFrequency, Commands, Nothing
  <2>2. pending' \in [Clients -> Commands \cup {Nothing}]
    BY <1>9 DEF ClientSavesFrequency
  <2> QED
    BY <1>9, <2>1, <2>2 DEF ClientSavesFrequency
<1>10. CASE RawCommand
  BY <1>10 DEF RawCommand
<1>11. CASE PrepareSleep
  BY <1>11 DEF PrepareSleep
<1>12. CASE Resume
  <2>1. RestoreScaling(frequency, Crossing)
    BY <1>12 DEF Resume
  <2>2. /\ limits' \in Policies \cup {Other}
        /\ scaling' \in Frequencies \cup {Other}
        /\ excused' \subseteq {"limits", "scaling", "crossed", "stale"}
    BY <2>1, CrossingTypes, RestoreTypes
  <2>3. /\ age' = Never /\ suspended' = FALSE
        /\ UNCHANGED <<power, frequency, initialized, phase, plan, pending, healed>>
    BY <1>12 DEF Resume
  <2>4. suspended' \in BOOLEAN
    BY <2>3
  <2> QED
    BY <2>2, <2>3, <2>4 DEF Never
<1>13. ASSUME NEW p \in Policies, NEW f \in Limits, Initialize(p, f)
       PROVE  TypeOK'
  <2>1. /\ limits' \in Policies \cup {Other}
        /\ scaling' \in Frequencies \cup {Other}
        /\ excused' \subseteq {"limits", "scaling", "crossed", "stale"}
    BY <1>13, CrossingTypes DEF Initialize, WriteScaling, Limits
  <2>2. power' \in Policies /\ frequency' \in Limits /\ initialized' \in BOOLEAN
    BY <1>13 DEF Initialize
  <2>3. age' = Never \/ (age' = age /\ power' = power)
    BY <1>13 DEF Initialize
  <2> QED
    BY <1>13, <2>1, <2>2, <2>3 DEF Initialize, Never
<1>14. CASE Restart
  <2>1. RestoreScaling(frequency, {})
    BY <1>14 DEF Restart
  <2>2. /\ limits' \in Policies \cup {Other}
        /\ scaling' \in Frequencies \cup {Other}
        /\ excused' \subseteq {"limits", "scaling", "crossed", "stale"}
    BY <2>1, RestoreTypes
  <2>3. /\ age' = Never /\ suspended' = FALSE /\ phase' = "idle"
        /\ plan' = NoPlan /\ pending' = [c \in Clients |-> Nothing]
        /\ UNCHANGED <<power, frequency, initialized, healed>>
    BY <1>14 DEF Restart
  <2>4. suspended' \in BOOLEAN
    BY <2>3
  <2> QED
    BY <1>0, <2>2, <2>3, <2>4 DEF Never
<1>15. CASE Drift
  BY <1>15 DEF Drift
<1>16. CASE Heal
  BY <1>16 DEF Heal
<1>17. CASE SettingSaved
  BY <1>17 DEF SettingSaved
<1>18. CASE UNCHANGED vars
  BY <1>18 DEF vars
<1> QED
  BY <1>1, <1>2, <1>3, <1>4, <1>5, <1>6, <1>7, <1>8, <1>9, <1>10, <1>11,
     <1>12, <1>13, <1>14, <1>15, <1>16, <1>17, <1>18
  DEF Next, Loop, Saves

-----------------------------------------------------------------------------
(* Each step keeps the commands lock exclusive.                            *)
LEMMA NextExclusive ==
  ASSUME TypeOK, Exclusive, [Next]_vars
  PROVE  Exclusive'
<1> USE DEF Exclusive, TypeOK, saved, loop, hardware
<1>1. CASE LoopPlans
  BY <1>1 DEF LoopPlans
<1>2. CASE LoopChecks
  BY <1>2 DEF LoopChecks, Unlocked
<1>3. CASE LoopAppliesLimits
  BY <1>3 DEF LoopAppliesLimits
<1>4. CASE LoopAppliesScaling
  BY <1>4 DEF LoopAppliesScaling
<1>5. CASE Tick
  BY <1>5 DEF Tick
<1>6. ASSUME NEW c \in Clients, NEW p \in Policies, ClientAppliesPower(c, p)
      PROVE  Exclusive'
  <2>1. /\ phase \notin {"limits", "scaling"} /\ phase' = phase
        /\ \A d \in Clients : pending[d] = Nothing
        /\ \A d \in Clients \ {c} : pending'[d] = pending[d]
    BY <1>6 DEF ClientAppliesPower, Unlocked
  <2> QED
    BY <2>1
<1>7. ASSUME NEW c \in Clients, NEW f \in Limits, ClientAppliesFrequency(c, f)
      PROVE  Exclusive'
  <2>1. /\ phase \notin {"limits", "scaling"} /\ phase' = phase
        /\ \A d \in Clients : pending[d] = Nothing
        /\ \A d \in Clients \ {c} : pending'[d] = pending[d]
    BY <1>7 DEF ClientAppliesFrequency, Unlocked
  <2> QED
    BY <2>1
<1>8. ASSUME NEW c \in Clients, ClientSavesPower(c)
      PROVE  Exclusive'
  BY <1>8 DEF ClientSavesPower
<1>9. ASSUME NEW c \in Clients, ClientSavesFrequency(c)
      PROVE  Exclusive'
  BY <1>9 DEF ClientSavesFrequency
<1>10. CASE RawCommand
  BY <1>10 DEF RawCommand
<1>11. CASE PrepareSleep
  BY <1>11 DEF PrepareSleep
<1>12. CASE Resume
  BY <1>12 DEF Resume
<1>13. ASSUME NEW p \in Policies, NEW f \in Limits, Initialize(p, f)
       PROVE  Exclusive'
  BY <1>13 DEF Initialize
<1>14. CASE Restart
  BY <1>14 DEF Restart
<1>15. CASE Drift
  BY <1>15 DEF Drift
<1>16. CASE Heal
  BY <1>16 DEF Heal
<1>17. CASE SettingSaved
  BY <1>17 DEF SettingSaved
<1>18. CASE UNCHANGED vars
  BY <1>18 DEF vars
<1> QED
  BY <1>1, <1>2, <1>3, <1>4, <1>5, <1>6, <1>7, <1>8, <1>9, <1>10, <1>11,
     <1>12, <1>13, <1>14, <1>15, <1>16, <1>17, <1>18
  DEF Next, Loop, Saves

PlanParts == PlanEnabled /\ Overtaken /\ PlanIsCurrent /\ AppliedOrDue

(* Each step keeps the plan current and the policy applied or due.         *)
LEMMA NextPlan ==
  ASSUME TypeOK, Exclusive, PlanParts, [Next]_vars
  PROVE  PlanParts'
<1> USE DEF PlanParts, PlanEnabled, Overtaken, PlanIsCurrent, AppliedOrDue,
            Saving, saved, loop, hardware
<1>0. Default \notin Enabled
  BY PowerAssumption
<1>1. CASE LoopPlans
  BY <1>1 DEF LoopPlans
<1>2. CASE LoopChecks
  BY <1>2 DEF LoopChecks, Valid
<1>3. CASE LoopAppliesLimits
  BY <1>3 DEF LoopAppliesLimits, WriteLimits, LimitsFail
<1>4. CASE LoopAppliesScaling
  <2>1. limits' = limits /\ ("limits" \in excused <=> "limits" \in excused')
    BY <1>4 DEF LoopAppliesScaling, RestoreScaling, WriteScaling, ScalingFails
  <2> QED
    BY <1>4, <2>1 DEF LoopAppliesScaling
<1>5. CASE Tick
  BY <1>5 DEF Tick
<1>6. ASSUME NEW c \in Clients, NEW p \in Policies, ClientAppliesPower(c, p)
      PROVE  PlanParts'
  <2>1. \/ "limits" \in excused'
        \/ pending'[c].kind = "power"
    BY <1>6 DEF ClientAppliesPower, LimitsFail, TypeOK
  <2>2. UNCHANGED <<power, frequency, initialized, suspended, age, phase, plan>>
    BY <1>6 DEF ClientAppliesPower
  <2>3. phase # "limits"
    BY <1>6 DEF ClientAppliesPower, Unlocked
  <2> QED
    BY <2>1, <2>2, <2>3
<1>7. ASSUME NEW c \in Clients, NEW f \in Limits, ClientAppliesFrequency(c, f)
      PROVE  PlanParts'
  <2>1. limits' = limits /\ ("limits" \in excused <=> "limits" \in excused')
    BY <1>7 DEF ClientAppliesFrequency, WriteScaling, ScalingFails
  <2>2. UNCHANGED <<power, frequency, initialized, suspended, age, phase, plan>>
    BY <1>7 DEF ClientAppliesFrequency
  <2>3. \A d \in Clients : pending[d].kind # "power"
    BY <1>7 DEF ClientAppliesFrequency, Unlocked, Nothing
  <2> QED
    BY <2>1, <2>2, <2>3
<1>8. ASSUME NEW c \in Clients, ClientSavesPower(c)
      PROVE  PlanParts'
  <2>1. phase # "limits"
    BY <1>8 DEF ClientSavesPower, Exclusive, Nothing
  <2> QED
    BY <1>8, <2>1 DEF ClientSavesPower, SetPower
<1>9. ASSUME NEW c \in Clients, ClientSavesFrequency(c)
      PROVE  PlanParts'
  <2>1. Saving("power") => Saving("power")'
    BY <1>9 DEF ClientSavesFrequency, TypeOK
  <2> QED
    BY <1>9, <2>1 DEF ClientSavesFrequency
<1>10. CASE RawCommand
  BY <1>10 DEF RawCommand
<1>11. CASE PrepareSleep
  BY <1>11 DEF PrepareSleep
<1>12. CASE Resume
  BY <1>12 DEF Resume
<1>13. ASSUME NEW p \in Policies, NEW f \in Limits, Initialize(p, f)
       PROVE  PlanParts'
  <2>1. \/ initialized' = TRUE /\ age' = Never
        \/ /\ UNCHANGED <<power, initialized, age, limits>>
           /\ "limits" \in excused <=> "limits" \in excused'
    BY <1>13 DEF Initialize
  <2>2. phase # "limits" /\ UNCHANGED <<suspended, phase, plan, pending>>
    BY <1>13 DEF Initialize
  <2> QED
    BY <2>1, <2>2
<1>14. CASE Restart
  BY <1>14 DEF Restart
<1>15. CASE Drift
  BY <1>15 DEF Drift
<1>16. CASE Heal
  BY <1>16 DEF Heal
<1>17. CASE SettingSaved
  BY <1>17 DEF SettingSaved
<1>18. CASE UNCHANGED vars
  BY <1>18 DEF vars
<1> QED
  BY <1>1, <1>2, <1>3, <1>4, <1>5, <1>6, <1>7, <1>8, <1>9, <1>10, <1>11,
     <1>12, <1>13, <1>14, <1>15, <1>16, <1>17, <1>18
  DEF Next, Loop, Saves

-----------------------------------------------------------------------------
ScalingParts == WrittenIsSaved /\ FrequencyAgrees

Unexcused == excused \cap {"scaling", "crossed", "stale"} = {}

(* A write of f is excused, or leaves f in the hardware; None writes       *)
(* nothing.                                                                *)
LEMMA RestoreWrites ==
  ASSUME NEW f, NEW faults, RestoreScaling(f, faults)
  PROVE  /\ Unexcused' /\ f # None => scaling' = f /\ faults \cap {"crossed", "stale"} = {}
         /\ f = None => UNCHANGED <<scaling, excused>>
BY DEF RestoreScaling, WriteScaling, ScalingFails, Unexcused, hardware

(* Each step keeps the saved frequency in force.                           *)
LEMMA NextScaling ==
  ASSUME TypeOK, Exclusive, ScalingParts, [Next]_vars
  PROVE  ScalingParts'
<1> USE DEF ScalingParts, WrittenIsSaved, FrequencyAgrees, Saving,
            saved, loop, hardware
<1>1. CASE LoopPlans
  BY <1>1 DEF LoopPlans
<1>2. CASE LoopChecks
  BY <1>2 DEF LoopChecks
<1>3. CASE LoopAppliesLimits
  <2>1. scaling' = scaling /\ (Unexcused' => Unexcused)
    BY <1>3 DEF LoopAppliesLimits, WriteLimits, LimitsFail, Unexcused
  <2> QED
    BY <1>3, <2>1 DEF LoopAppliesLimits, Unexcused
<1>4. CASE LoopAppliesScaling
  <2>1. \A c \in Clients : pending'[c].kind # "frequency"
    BY <1>4 DEF LoopAppliesScaling, Exclusive, Nothing
  <2>2. frequency' = frequency
    BY <1>4 DEF LoopAppliesScaling
  <2>3. CASE plan.frequency = None
    <3>1. UNCHANGED <<scaling, excused>>
      BY <1>4, <2>3, RestoreWrites DEF LoopAppliesScaling
    <3>2. pending' = pending
      BY <1>4 DEF LoopAppliesScaling
    <3> QED
      BY <2>1, <2>2, <3>1, <3>2
  <2>4. CASE plan.frequency # None
    <3>1. Unexcused' => scaling' = frequency
      BY <1>4, <2>4 DEF LoopAppliesScaling, RestoreScaling, WriteScaling,
                        ScalingFails, Unexcused
    <3> QED
      BY <2>1, <2>2, <3>1 DEF Unexcused
  <2> QED
    BY <2>3, <2>4
<1>5. CASE Tick
  BY <1>5 DEF Tick
<1>6. ASSUME NEW c \in Clients, NEW p \in Policies, ClientAppliesPower(c, p)
      PROVE  ScalingParts'
  <2>1. scaling' = scaling /\ frequency' = frequency /\ (Unexcused' => Unexcused)
    BY <1>6 DEF ClientAppliesPower, WriteLimits, LimitsFail, Unexcused
  <2>2. \A d \in Clients : pending[d].kind # "frequency"
    BY <1>6 DEF ClientAppliesPower, Unlocked, Nothing
  <2>3. \A d \in Clients : pending'[d].kind # "frequency"
    BY <1>6, <2>2 DEF ClientAppliesPower, TypeOK
  <2> QED
    BY <2>1, <2>2, <2>3 DEF Unexcused
<1>7. ASSUME NEW c \in Clients, NEW f \in Limits, ClientAppliesFrequency(c, f)
      PROVE  ScalingParts'
  <2>1. \A d \in Clients : pending[d] = Nothing
    BY <1>7 DEF ClientAppliesFrequency, Unlocked
  <2>2. CASE Unexcused' /\ pending' # pending
    <3>1. pending' = [pending EXCEPT ![c] =
                        [kind |-> "frequency", frequency |-> f]]
      BY <1>7, <2>2 DEF ClientAppliesFrequency
    <3>2. f # None => scaling' = f
      BY <1>7, <2>2 DEF ClientAppliesFrequency, WriteScaling, ScalingFails, Unexcused
    <3>3. pending'[c] = [kind |-> "frequency", frequency |-> f]
      BY <3>1 DEF TypeOK
    <3>4. \A d \in Clients \ {c} : pending'[d] = Nothing
      BY <2>1, <3>1
    <3> QED
      BY <3>2, <3>3, <3>4 DEF Nothing
  <2>3. CASE Unexcused' /\ pending' = pending
    <3>1. pending'[c] # [kind |-> "frequency", frequency |-> f]
      BY <2>1, <2>3 DEF Nothing
    <3>2. pending' # [pending EXCEPT ![c] = [kind |-> "frequency", frequency |-> f]]
      BY <3>1 DEF TypeOK
    <3> QED
      BY <1>7, <2>3, <3>2 DEF ClientAppliesFrequency, ScalingFails, Unexcused
  <2> QED
    BY <2>2, <2>3 DEF Unexcused
<1>8. ASSUME NEW c \in Clients, ClientSavesPower(c)
      PROVE  ScalingParts'
  <2>1. /\ pending'[c] = Nothing
        /\ \A d \in Clients \ {c} : pending'[d] = pending[d]
    BY <1>8 DEF ClientSavesPower, TypeOK
  <2>2. \A d \in Clients \ {c} : pending[d] = Nothing
    BY <1>8 DEF ClientSavesPower, Exclusive, Nothing
  <2>3. pending[c].kind = "power"
    BY <1>8 DEF ClientSavesPower
  <2>4. \A d \in Clients : pending[d].kind # "frequency" /\ pending'[d].kind # "frequency"
    BY <2>1, <2>2, <2>3 DEF Nothing
  <2> QED
    BY <1>8, <2>4 DEF ClientSavesPower, SetPower
<1>9. ASSUME NEW c \in Clients, ClientSavesFrequency(c)
      PROVE  ScalingParts'
  <2>1. /\ pending'[c] = Nothing
        /\ \A d \in Clients \ {c} : pending'[d] = pending[d]
    BY <1>9 DEF ClientSavesFrequency, TypeOK
  <2>2. \A d \in Clients \ {c} : pending[d] = Nothing
    BY <1>9 DEF ClientSavesFrequency, Exclusive, Nothing
  <2>3. \A d \in Clients : pending'[d].kind # "frequency"
    BY <2>1, <2>2 DEF Nothing
  <2>4. Unexcused /\ pending[c].frequency # None => scaling = pending[c].frequency
    BY <1>9 DEF ClientSavesFrequency, Unexcused
  <2> QED
    BY <1>9, <2>3, <2>4 DEF ClientSavesFrequency, Unexcused
<1>10. CASE RawCommand
  <2>1. UNCHANGED <<frequency, pending>>
    BY <1>10 DEF RawCommand
  <2>2. Unexcused' => Unexcused /\ scaling' = scaling
    BY <1>10 DEF RawCommand, Unexcused
  <2> QED
    BY <2>1, <2>2 DEF Unexcused
<1>11. CASE PrepareSleep
  BY <1>11 DEF PrepareSleep
<1>12. CASE Resume
  <2>1. RestoreScaling(frequency, Crossing) /\ UNCHANGED <<frequency, pending>>
    BY <1>12 DEF Resume
  <2>2. CASE frequency = None
    BY <2>1, <2>2, RestoreWrites
  <2>3. CASE frequency # None
    <3>1. Unexcused' => scaling' = frequency /\ ~Saving("frequency")
      BY <2>1, <2>3, RestoreWrites DEF Crossing
    <3> QED
      BY <2>1, <3>1 DEF Unexcused
  <2> QED
    BY <2>2, <2>3
<1>13. ASSUME NEW p \in Policies, NEW f \in Limits, Initialize(p, f)
       PROVE  ScalingParts'
  <2>1. pending' = pending
    BY <1>13 DEF Initialize
  <2>2. Unexcused' =>
          \/ f # None /\ frequency' = f /\ scaling' = f /\ ~Saving("frequency")
          \/ frequency' = None /\ UNCHANGED <<scaling, excused>>
    BY <1>13 DEF Initialize, WriteScaling, Crossing, Unexcused
  <2> QED
    BY <2>1, <2>2 DEF Unexcused
<1>14. CASE Restart
  <2>1. RestoreScaling(frequency, {}) /\ frequency' = frequency
    BY <1>14 DEF Restart
  <2>2. \A c \in Clients : pending'[c].kind # "frequency"
    BY <1>14 DEF Restart, Nothing
  <2>3. frequency # None /\ Unexcused' => scaling' = frequency
    BY <2>1, RestoreWrites
  <2> QED
    BY <2>1, <2>2, <2>3 DEF Unexcused
<1>15. CASE Drift
  <2>1. UNCHANGED <<frequency, pending>>
    BY <1>15 DEF Drift
  <2>2. Unexcused' => Unexcused /\ scaling' = scaling
    BY <1>15 DEF Drift, Unexcused
  <2> QED
    BY <2>1, <2>2 DEF Unexcused
<1>16. CASE Heal
  BY <1>16 DEF Heal
<1>17. CASE SettingSaved
  BY <1>17 DEF SettingSaved
<1>18. CASE UNCHANGED vars
  BY <1>18 DEF vars
<1> QED
  BY <1>1, <1>2, <1>3, <1>4, <1>5, <1>6, <1>7, <1>8, <1>9, <1>10, <1>11,
     <1>12, <1>13, <1>14, <1>15, <1>16, <1>17, <1>18
  DEF Next, Loop, Saves

-----------------------------------------------------------------------------
LEMMA InitIInv == Init => IInv
<1> SUFFICES ASSUME Init PROVE IInv
  OBVIOUS
<1> USE PowerAssumption DEF Init
<1>1. TypeOK
  <2>1. suspended \in BOOLEAN /\ healed \in BOOLEAN
    OBVIOUS
  <2>2. age <= Interval[power]
    BY DEF Never
  <2>3. plan \in Plans
    BY DEF NoPlan, Plans, Limits
  <2> QED
    BY <2>1, <2>2, <2>3 DEF TypeOK, Limits
<1>2. \A c \in Clients : pending[c].kind = "nothing" /\ pending[c] = Nothing
  BY DEF Nothing
<1>3. Exclusive
  BY <1>2 DEF Exclusive
<1>4. PlanEnabled /\ Overtaken /\ PlanIsCurrent /\ AppliedOrDue
  BY DEF PlanEnabled, Overtaken, PlanIsCurrent, AppliedOrDue
<1>5. WrittenIsSaved /\ FrequencyAgrees
  BY <1>2 DEF WrittenIsSaved, FrequencyAgrees
<1> QED
  BY <1>1, <1>3, <1>4, <1>5 DEF IInv

(* IInv holds of every behaviour of the power limits.                      *)
THEOREM PowerInvariant == Spec => []IInv
<1>1. IInv /\ [Next]_vars => IInv'
  BY NextTypes, NextExclusive, NextPlan, NextScaling
  DEF IInv, PlanParts, ScalingParts
<1> QED
  BY InitIInv, <1>1, PTL DEF Spec

(* The saved state, the loop, the commands and the hardware have their     *)
(* types, and the timer of the loop never passes the interval in force.    *)
THEOREM PowerTypes == Spec => []TypeOK
<1>1. IInv => TypeOK
  BY DEF IInv
<1> QED
  BY PowerInvariant, <1>1, PTL

(* The loop never applies a policy that was replaced, or any when the      *)
(* policy in force is off.                                                 *)
THEOREM LoopAppliesCurrent == Spec => []PlanIsCurrent
<1>1. IInv => PlanIsCurrent
  BY DEF IInv
<1> QED
  BY PowerInvariant, <1>1, PTL

(* An enabled policy that is not in force is due or on its way.            *)
THEOREM PolicyIsApplied == Spec => []AppliedOrDue
<1>1. IInv => AppliedOrDue
  BY DEF IInv
<1> QED
  BY PowerInvariant, <1>1, PTL

(* The saved frequency is in force unless something failed, drifted or     *)
(* crossed.                                                                *)
THEOREM FrequencyIsKept == Spec => []FrequencyAgrees
<1>1. IInv => FrequencyAgrees
  BY DEF IInv
<1> QED
  BY PowerInvariant, <1>1, PTL

-----------------------------------------------------------------------------
(* UiSession: what is on the way, and what it leaves behind.               *)

(* A thread keeps its request, whose value suits its kind.                 *)
ThreadTypes(t) ==
  /\ t \in Threads /\ t.revision <= Len(log)
  /\ t.value \in IF t.kind = "power" THEN Values ELSE Profiles

(* What each variable holds.                                               *)
WindowTypes ==
  /\ log \in Seq(Settings) /\ Len(log) \in 1..MaxRevision
  /\ model \in Settings
  /\ form \in Values /\ applied \in Values
  /\ events \in Seq(Events) /\ batch \in Seq(Events)
  /\ forwarded \in 0..Len(log) /\ shown \in 0..Len(log)
  /\ \A t \in threads : ThreadTypes(t)
  /\ lightDue \in BOOLEAN /\ fanDue \in BOOLEAN /\ drag \in BOOLEAN /\ unsent \in BOOLEAN
  /\ moves \in Nat

(* Every state on the way was published, and a power policy on the way is  *)
(* one.                                                                    *)
Tells(e) ==
  IF e.event = "state" THEN e.revision \in 1..Len(log)
  ELSE e.kind = "power" => e.value \in Values

(* All that the stream and the main thread have not handed over tells      *)
(* true.                                                                   *)
OnTheWay ==
  /\ \A i \in DOMAIN events : Tells(events[i])
  /\ \A i \in DOMAIN batch : Tells(batch[i])

(* A point is only dragged in the custom mode.                             *)
DragsCustom == drag => model.fan.mode = "custom"

(* The profile shown is that of the last state applied.                    *)
ProfileShown == shown > 0 => model.profile = log[shown].profile

(* Once the newest state is applied, the rest is shown too, but for what   *)
(* waits, is dragged or was never sent.                                    *)
NewestShown ==
  shown = Len(log) /\ ~unsent =>
    /\ model.flag = Current.flag
    /\ lightDue \/ model.light = Current.light
    /\ fanDue \/ drag \/ model.fan = Current.fan

(* A state at least as new as e's is in queue q.                           *)
NewsIn(q) == \E i \in DOMAIN q : q[i].event = "state" /\ q[i].revision >= forwarded

(* No state is in queue q.                                                 *)
NoNewsIn(q) == \A i \in DOMAIN q : q[i].event # "state"

(* What the stream has forwarded was applied or is on the way; a new       *)
(* window has not yet been told of anything.                               *)
Forwarded ==
  \/ shown >= forwarded
  \/ NewsIn(events) \/ NewsIn(batch)
  \/ /\ forwarded < Len(log) /\ shown = 0
     /\ NoNewsIn(events) /\ NoNewsIn(batch)
     /\ \A t \in threads : t.step = "fetched" => t.revision > forwarded

(* The inductive invariant. That the newest state is shown holds only      *)
(* because a state forwarded is not lost on its way.                       *)
WindowInv ==
  /\ WindowTypes /\ OnTheWay /\ DragsCustom /\ ProfileShown /\ NewestShown
  /\ Forwarded /\ FileFollows

-----------------------------------------------------------------------------
(* A setting is a record of its five fields, whichever of them is edited.  *)
LEMMA EditLightOf ==
  ASSUME NEW s \in Settings, NEW v \in Values
  PROVE  LET n == [s EXCEPT !.light = v]
         IN  /\ n \in Settings /\ n.light = v /\ n.fan = s.fan /\ n.power = s.power
             /\ n.profile = s.profile /\ n.flag = s.flag
  BY DEF Settings

(* Each setting is edited on its own.                                      *)
LEMMA EditFanOf ==
  ASSUME NEW s \in Settings, NEW f \in Fans
  PROVE  LET n == [s EXCEPT !.fan = f]
         IN  /\ n \in Settings /\ n.light = s.light /\ n.fan = f /\ n.power = s.power
             /\ n.profile = s.profile /\ n.flag = s.flag
  BY DEF Settings

(* The power policy.                                                       *)
LEMMA EditPowerOf ==
  ASSUME NEW s \in Settings, NEW v \in Values
  PROVE  LET n == [s EXCEPT !.power = v]
         IN  /\ n \in Settings /\ n.light = s.light /\ n.fan = s.fan /\ n.power = v
             /\ n.profile = s.profile /\ n.flag = s.flag
  BY DEF Settings

(* The power profile.                                                      *)
LEMMA EditProfileOf ==
  ASSUME NEW s \in Settings, NEW p \in Profiles
  PROVE  [s EXCEPT !.profile = p] \in Settings
  BY DEF Settings

(* A switch.                                                               *)
LEMMA EditFlagOf ==
  ASSUME NEW s \in Settings, NEW b \in BOOLEAN
  PROVE  LET n == [s EXCEPT !.flag = b]
         IN  /\ n \in Settings /\ n.light = s.light /\ n.fan = s.fan /\ n.power = s.power
             /\ n.profile = s.profile /\ n.flag = b
  BY DEF Settings

(* The fields of the settings.                                             *)
LEMMA FieldsOf ==
  ASSUME NEW s \in Settings
  PROVE  /\ s.light \in Values /\ s.fan \in Fans /\ s.power \in Values
         /\ s.profile \in Profiles /\ s.flag \in BOOLEAN
  BY DEF Settings

(* The curve and the mode of a fan policy.                                 *)
LEMMA EditFansOf ==
  ASSUME NEW f \in Fans
  PROVE  /\ \A v \in Values : [f EXCEPT !.curve = v] \in Fans /\ [f EXCEPT !.curve = v].mode = f.mode
         /\ \A m \in {"auto", "leaving", "custom"} : [f EXCEPT !.mode = m] \in Fans
  BY DEF Fans

(* What the daemon publishes comes after what it has published.            *)
Grows == 
  /\ log' \in Seq(Settings) /\ Len(log') \in Len(log)..MaxRevision
  /\ \A i \in 1..Len(log) : log'[i] = log[i]

(* A published state is put after those there are.                         *)
LEMMA PublishGrows ==
  ASSUME WindowTypes, NEW states \in Seq(Settings), Publishes(states)
  PROVE  Grows /\ Len(log') = Len(log) + Len(states)
<1>1. log' = log \o states /\ Len(log) + Len(states) =< MaxRevision /\ log \in Seq(Settings)
  BY DEF Publishes, WindowTypes
<1>2. MaxRevision \in Nat /\ Len(log) \in Nat /\ Len(states) \in Nat
  BY <1>1, UiAssumption
<1> QED
  BY <1>1, <1>2, ConcatProperties DEF Grows

(* A request publishes when it is granted, and nothing otherwise.          *)
LEMMA PushGrows ==
  ASSUME WindowTypes, NEW states \in Seq(Settings), NEW ok \in BOOLEAN, Push(states, ok)
  PROVE  Grows /\ (ok /\ states # <<>> => Len(log') > Len(log))
<1>1. PICK n \in 0..Len(states) : (ok => n = Len(states)) /\ Publishes(SubSeq(states, 1, n))
  BY DEF Push
<1>2. SubSeq(states, 1, n) \in Seq(Settings) /\ Len(SubSeq(states, 1, n)) = n
  OBVIOUS
<1>3. Grows /\ Len(log') = Len(log) + n
  BY <1>1, <1>2, PublishGrows
<1>4. states # <<>> => Len(states) > 0
  OBVIOUS
<1> QED
  BY <1>1, <1>3, <1>4

(* The state in force is the last one published.                           *)
LEMMA CurrentIs == WindowTypes => Current \in Settings /\ Current = log[Len(log)]
<1> SUFFICES ASSUME WindowTypes PROVE Current \in Settings /\ Current = log[Len(log)]
  OBVIOUS
<1>1. log \in Seq(Settings) /\ Len(log) \in 1..MaxRevision /\ MaxRevision \in Nat
  BY UiAssumption DEF WindowTypes
<1>2. Len(log) \in 1..Len(log)
  BY <1>1
<1> QED
  BY <1>1, <1>2, ElementOfSeq DEF Current, Last

(* One state pushed: when the daemon took it, the log has grown.           *)
LEMMA PushOne ==
  ASSUME WindowTypes, NEW s \in Settings, NEW ok \in BOOLEAN, Push(<<s>>, ok)
  PROVE  Grows /\ (ok => Len(log') > Len(log))
<1>1. <<s>> \in Seq(Settings) /\ <<s>> # <<>>
  OBVIOUS
<1> QED
  BY <1>1, PushGrows

(* Nothing published, nothing forgotten.                                   *)
LEMMA SameGrows ==
  ASSUME WindowTypes, log' = log
  PROVE  Grows
<1>1. log \in Seq(Settings) /\ Len(log) \in 1..MaxRevision /\ MaxRevision \in Nat
  BY UiAssumption DEF WindowTypes
<1> QED
  BY <1>1 DEF Grows

(* What a push of each kind does to the log.                               *)
LEMMA FlushLightGrows ==
  ASSUME WindowTypes, FlushLight
  PROVE  Grows /\ (~unsent' => Len(log') > Len(log))
<1>1. PICK ok \in BOOLEAN :
        Push(<<[Current EXCEPT !.light = model.light]>>, ok) /\ unsent' = (unsent \/ ~ok)
  BY DEF FlushLight
<1>2. [Current EXCEPT !.light = model.light] \in Settings
  BY CurrentIs, FieldsOf, EditLightOf DEF WindowTypes
<1> QED
  BY <1>1, <1>2, PushOne

(* What the fan page still had to send is sent, or known not to be.        *)
LEMMA FlushFanGrows ==
  ASSUME WindowTypes, FlushFan
  PROVE  Grows /\ (~unsent' => Len(log') > Len(log))
<1>1. PICK ok \in BOOLEAN :
        Push(<<[Current EXCEPT !.fan = model.fan]>>, ok) /\ unsent' = (unsent \/ ~ok)
  BY DEF FlushFan
<1>2. [Current EXCEPT !.fan = model.fan] \in Settings
  BY CurrentIs, FieldsOf, EditFanOf DEF WindowTypes
<1> QED
  BY <1>1, <1>2, PushOne

(* A switch: sent, or known not to be; nothing else is edited.             *)
LEMMA SwitchGrows ==
  ASSUME WindowTypes, Switch
  PROVE  /\ Grows /\ (~unsent' => Len(log') > Len(log))
         /\ model' = model \/ model' = [model EXCEPT !.flag = ~model.flag]
         /\ unsent' \in BOOLEAN
<1>1. PICK ok \in BOOLEAN :
        /\ Push(<<[Current EXCEPT !.flag = ~model.flag]>>, ok) /\ unsent' = (unsent \/ ~ok)
        /\ model' = IF ok THEN [model EXCEPT !.flag = ~model.flag] ELSE model
  BY DEF Switch
<1>2. [Current EXCEPT !.flag = ~model.flag] \in Settings
  BY CurrentIs, FieldsOf, EditFlagOf DEF WindowTypes
<1> QED
  BY <1>1, <1>2, PushOne DEF WindowTypes

(* Another fan mode, in the same way.                                      *)
LEMMA SelectFanModeGrows ==
  ASSUME WindowTypes, SelectFanMode
  PROVE  /\ Grows /\ (~unsent' => Len(log') > Len(log))
         /\ model' = model \/ \E f \in Fans : model' = [model EXCEPT !.fan = f]
         /\ unsent' \in BOOLEAN
<1>1. PICK mode \in {"auto", "custom"}, ok \in BOOLEAN :
        LET steps == FanModeSteps(model.fan, mode)
        IN  /\ Push([i \in DOMAIN steps |-> [Current EXCEPT !.fan = steps[i]]], ok)
            /\ model' = IF ok THEN [model EXCEPT !.fan = Last(steps)] ELSE model
            /\ unsent' = (unsent \/ ~ok)
  BY DEF SelectFanMode
<1> DEFINE steps == FanModeSteps(model.fan, mode)
           states == [i \in DOMAIN steps |-> [Current EXCEPT !.fan = steps[i]]]
<1>2. /\ [model.fan EXCEPT !.mode = "leaving"] \in Fans
      /\ [model.fan EXCEPT !.mode = mode] \in Fans
  BY FieldsOf, EditFansOf DEF WindowTypes
<1>3. steps \in Seq(Fans) /\ DOMAIN steps = 1..2 /\ Len(steps) = 2 /\ steps[1] \in Fans /\ steps[2] \in Fans
  BY <1>2 DEF FanModeSteps
<1>4. Last(steps) \in Fans
  BY <1>3 DEF Last
<1> HIDE DEF steps
<1>5. \A i \in 1..2 : [Current EXCEPT !.fan = steps[i]] \in Settings
  BY <1>3, CurrentIs, EditFanOf
<1>6. states \in Seq(Settings) /\ states # <<>>
  <2>1. states \in [1..2 -> Settings]
    BY <1>3, <1>5
  <2>2. states \in Seq(Settings) /\ Len(states) = 2
    BY <2>1, IsASeq
  <2> QED
    BY <2>2, EmptySeq
<1>7. Push(states, ok) /\ unsent' = (unsent \/ ~ok)
      /\ model' = IF ok THEN [model EXCEPT !.fan = Last(steps)] ELSE model
  BY <1>1 DEF steps
<1> HIDE DEF states
<1> QED
  BY <1>4, <1>6, <1>7, PushGrows DEF WindowTypes

(* What a thread is.                                                       *)
LEMMA ThreadIs ==
  ASSUME WindowTypes, NEW t \in threads
  PROVE  /\ t.id \in 1..MaxThreads /\ t.ok \in BOOLEAN /\ t.kind \in Kinds
         /\ t.value \in IF t.kind = "power" THEN Values ELSE Profiles
         /\ t.revision \in 1..Len(log)
<1>1. ThreadTypes(t) /\ Len(log) \in Nat
  BY DEF WindowTypes
<1> QED
  BY <1>1 DEF ThreadTypes, Threads, Revisions

(* The threads, one at a time.                                             *)
LEMMA ThreadsAre == WindowTypes => \A t \in threads : ThreadTypes(t)
  BY DEF WindowTypes

(* One request of a thread is taken or not.                                *)
LEMMA AskedGrows ==
  ASSUME WindowTypes, NEW t \in threads, Asked(t)
  PROVE  /\ Grows /\ (log' = log \/ Len(log') > Len(log))
         /\ \E ok \in BOOLEAN :
              threads' = (threads \ {t}) \cup {[t EXCEPT !.step = "answers", !.ok = ok]}
<1> DEFINE s == IF t.kind = "profile" THEN [Current EXCEPT !.profile = t.value]
                                      ELSE [Current EXCEPT !.power = t.value]
<1>1. PICK ok \in BOOLEAN :
        /\ Push(<<s>>, ok)
        /\ threads' = (threads \ {t}) \cup {[t EXCEPT !.step = "answers", !.ok = ok]}
  BY DEF Asked
<1>2. s \in Settings
  <2>1. t.kind \in Kinds /\ t.value \in IF t.kind = "power" THEN Values ELSE Profiles
    BY ThreadIs
  <2>2. CASE t.kind = "profile"
    BY <2>1, <2>2, CurrentIs, EditProfileOf DEF Kinds
  <2>3. CASE t.kind = "power"
    BY <2>1, <2>3, CurrentIs, EditPowerOf DEF Kinds
  <2> QED
    BY <2>1, <2>2, <2>3 DEF Kinds
<1> HIDE DEF s
<1>3. PICK n \in 0..Len(<<s>>) : Publishes(SubSeq(<<s>>, 1, n))
  BY <1>1 DEF Push
<1>4. n = 0 \/ n = 1
  OBVIOUS
<1>5. /\ <<s>> \in Seq(Settings) /\ Len(<<s>>) = 1
      /\ SubSeq(<<s>>, 1, n) \in Seq(Settings) /\ Len(SubSeq(<<s>>, 1, n)) = n
  BY <1>2
<1>6. Grows /\ Len(log') = Len(log) + n
  BY <1>3, <1>5, PublishGrows
<1>7. n = 0 => log' = log
  <2>1. log \in Seq(Settings)
    BY DEF WindowTypes
  <2>2. n = 0 => SubSeq(<<s>>, 1, n) = <<>>
    BY <1>5, EmptySeq
  <2> QED
    BY <1>3, <2>1, <2>2, ConcatEmptySeq DEF Publishes
<1>8. Len(log) \in Nat
  BY DEF WindowTypes
<1>9. log' = log \/ Len(log') > Len(log)
  BY <1>4, <1>6, <1>7, <1>8
<1> QED
  BY <1>1, <1>6, <1>9

(* A state from elsewhere.                                                 *)
LEMMA ElsewhereGrows ==
  ASSUME WindowTypes, Elsewhere
  PROVE  Grows /\ Len(log') > Len(log)
<1>1. PICK s \in Settings : Publishes(<<s>>)
  BY DEF Elsewhere
<1>2. <<s>> \in Seq(Settings) /\ Len(<<s>>) = 1
  OBVIOUS
<1>3. Len(log) \in Nat
  BY DEF WindowTypes
<1>4. Grows /\ Len(log') = Len(log) + Len(<<s>>)
  BY <1>1, <1>2, PublishGrows
<1> QED
  BY <1>2, <1>3, <1>4

(* No step takes a published state back.                                   *)
LEMMA LogKeeps ==
  ASSUME WindowTypes, [WindowNext]_windowVars
  PROVE  Grows
<1>1. CASE UNCHANGED windowVars
  BY <1>1, SameGrows DEF windowVars, daemon
<1>2. CASE Elsewhere
  BY <1>2, ElsewhereGrows
<1>3. CASE Reopen \/ Forward \/ Wake \/ Deliver
  BY <1>3, SameGrows DEF Reopen, Forward, Wake, Deliver, daemon
<1>4. CASE EditLight \/ DragPoint \/ Drop \/ SelectCurve
  BY <1>4, SameGrows DEF EditLight, DragPoint, Drop, SelectCurve, daemon
<1>5. CASE EditPower \/ SelectProfile \/ ApplyPower
  BY <1>5, SameGrows DEF EditPower, SelectProfile, ApplyPower, daemon
<1>6. CASE FlushLight \/ FlushFan \/ SelectFanMode \/ Switch
  BY <1>6, FlushLightGrows, FlushFanGrows, SelectFanModeGrows, SwitchGrows
<1>7. CASE \E t \in threads : ThreadStep(t)
  <2>1. PICK t \in threads : ThreadStep(t)
    BY <1>7
  <2>2. CASE Asked(t)
    BY <2>2, AskedGrows
  <2>3. CASE Answered(t) \/ Fetch(t) \/ Fetched(t)
    BY <2>3, SameGrows DEF Answered, Fetch, Fetched, daemon
  <2> QED
    BY <2>1, <2>2, <2>3 DEF ThreadStep
<1> QED
  BY <1>1, <1>2, <1>3, <1>4, <1>5, <1>6, <1>7 DEF WindowNext

-----------------------------------------------------------------------------
(* The invariant holds of a window that has just opened.                   *)
LEMMA WindowOpens == WindowInit => WindowInv
<1> SUFFICES ASSUME WindowInit PROVE WindowInv
  OBVIOUS
<1> USE UiAssumption DEF WindowInit
<1>1. Start \in Settings /\ Start.light \in Values /\ Start.power \in Values
  BY FieldsOf
<1>2. log \in Seq(Settings) /\ Len(log) = 1 /\ log[1] = Start
  BY <1>1
<1>3. WindowTypes
  <2>1. Len(log) \in 1..MaxRevision /\ forwarded \in 0..Len(log) /\ shown \in 0..Len(log)
    BY <1>2
  <2>2. events \in Seq(Events) /\ batch \in Seq(Events)
    OBVIOUS
  <2>3. threads = {}
    OBVIOUS
  <2> QED
    BY <1>1, <1>2, <2>1, <2>2, <2>3 DEF WindowTypes
<1>4. OnTheWay /\ DragsCustom /\ ProfileShown /\ FileFollows
  BY DEF OnTheWay, DragsCustom, ProfileShown, FileFollows
<1>5. NewestShown
  BY <1>2 DEF NewestShown
<1>6. Forwarded
  BY DEF Forwarded
<1> QED
  BY <1>3, <1>4, <1>5, <1>6 DEF WindowInv

(* The edits and the drops of the user leave what comes in alone.          *)
UserStep ==
  \/ EditLight \/ FlushLight \/ DragPoint \/ Drop \/ SelectCurve \/ FlushFan
  \/ SelectFanMode \/ Switch \/ EditPower

(* What the user does at the window alone leaves the stream alone.         *)
LEMMA UserFrame ==
  ASSUME UserStep
  PROVE  UNCHANGED <<forwarded, events, threads, batch, shown, applied, busy>>
<1>1. CASE EditLight \/ FlushLight \/ DragPoint \/ Drop \/ SelectCurve
  BY <1>1 DEF EditLight, FlushLight, DragPoint, Drop, SelectCurve, stream, policy
<1>2. CASE FlushFan \/ SelectFanMode \/ Switch \/ EditPower
  BY <1>2 DEF FlushFan, SelectFanMode, Switch, EditPower, stream, policy
<1> QED
  BY <1>1, <1>2 DEF UserStep

(* The kinds of steps.                                                     *)
LEMMA StepKinds ==
  ASSUME [WindowNext]_windowVars
  PROVE  \/ UNCHANGED windowVars \/ Elsewhere \/ Reopen \/ Forward \/ Wake \/ Deliver
         \/ UserStep \/ SelectProfile \/ ApplyPower
         \/ \E t \in threads : Asked(t) \/ Answered(t) \/ Fetch(t) \/ Fetched(t)
  BY DEF WindowNext, UserStep, ThreadStep

(* A result or a state for the main thread is an event.                    *)
LEMMA ResultIsEvent ==
  ASSUME WindowTypes, NEW t \in threads
  PROVE  [event |-> "control", kind |-> t.kind, value |-> t.value, ok |-> t.ok] \in Events
<1>1. t.kind \in Kinds /\ t.ok \in BOOLEAN /\ t.value \in IF t.kind = "power" THEN Values ELSE Profiles
  BY ThreadIs
<1> QED
  BY <1>1 DEF Events

(* A published state can be an event.                                      *)
LEMMA StateIsEvent ==
  ASSUME WindowTypes, NEW r \in 1..Len(log)
  PROVE  [event |-> "state", revision |-> r] \in Events
<1>1. r \in 1..MaxRevision
  BY UiAssumption DEF WindowTypes
<1> QED
  BY <1>1 DEF Events, Revisions

(* The queues of the main thread hold events.                              *)
LEMMA QueuesKeep ==
  ASSUME WindowTypes, [WindowNext]_windowVars
  PROVE  events' \in Seq(Events) /\ batch' \in Seq(Events)
<1>0. events \in Seq(Events) /\ batch \in Seq(Events)
  BY DEF WindowTypes
<1>1. CASE UNCHANGED windowVars \/ Elsewhere \/ SelectProfile \/ ApplyPower \/ UserStep
  BY <1>0, <1>1, UserFrame DEF windowVars, Elsewhere, SelectProfile, ApplyPower, stream
<1>2. CASE Reopen
  BY <1>2 DEF Reopen
<1>3. CASE Forward
  <2>1. forwarded + 1 \in 1..Len(log)
    BY <1>3 DEF Forward, WindowTypes
  <2>2. [event |-> "state", revision |-> forwarded + 1] \in Events
    BY <2>1, StateIsEvent
  <2> QED
    BY <1>0, <1>3, <2>2, AppendProperties DEF Forward
<1>4. CASE Wake
  BY <1>0, <1>4 DEF Wake
<1>5. CASE Deliver
  BY <1>0, <1>5, HeadTailProperties DEF Deliver, stream
<1>6. ASSUME NEW t \in threads, Asked(t) \/ Fetch(t)
      PROVE  UNCHANGED <<events, batch>>
  BY <1>6 DEF Asked, Fetch
<1>7. ASSUME NEW t \in threads, Answered(t)
      PROVE  events' \in Seq(Events) /\ batch' = batch
  BY <1>0, <1>7, ResultIsEvent, AppendProperties DEF Answered
<1>8. ASSUME NEW t \in threads, Fetched(t)
      PROVE  events' \in Seq(Events) /\ batch' = batch
  <2>1. t.revision \in 1..Len(log)
    BY ThreadIs
  <2> QED
    BY <1>0, <1>8, <2>1, StateIsEvent, AppendProperties DEF Fetched
<1> QED
  BY <1>0, <1>1, <1>2, <1>3, <1>4, <1>5, <1>6, <1>7, <1>8, StepKinds

(* A thread starts with the request it was given.                          *)
LEMMA SubmitKeeps ==
  ASSUME WindowTypes, NEW kind \in Kinds, NEW value, Submit(kind, value),
         value \in IF kind = "power" THEN Values ELSE Profiles
  PROVE  \A t \in threads' : ThreadTypes(t)
<1>1. PICK id \in 1..MaxThreads :
        threads' = threads \cup
          {[id |-> id, kind |-> kind, value |-> value, step |-> "asks",
            ok |-> FALSE, revision |-> 1]}
  BY DEF Submit
<1>2. 1 \in Revisions /\ 1 <= Len(log) /\ value \in Values \cup Profiles
  BY UiAssumption DEF WindowTypes, Revisions
<1>3. ThreadTypes([id |-> id, kind |-> kind, value |-> value, step |-> "asks",
                   ok |-> FALSE, revision |-> 1])
  BY <1>2 DEF ThreadTypes, Threads
<1> QED
  BY <1>1, <1>3, ThreadsAre

(* A thread keeps its request from step to step.                           *)
LEMMA AdvanceKeeps ==
  ASSUME WindowTypes, NEW t \in threads, NEW b \in BOOLEAN, NEW r \in 1..Len(log)
  PROVE  /\ ThreadTypes([t EXCEPT !.step = "answers", !.ok = b])
         /\ ThreadTypes([t EXCEPT !.step = "fetches"])
         /\ ThreadTypes([t EXCEPT !.step = "fetched", !.revision = r])
<1>1. ThreadTypes(t) /\ r \in Revisions /\ r <= Len(log)
  BY ThreadsAre, UiAssumption DEF WindowTypes, Revisions
<1>2. t \in Threads
  BY <1>1 DEF ThreadTypes
<1>3. LET u == [t EXCEPT !.step = "answers", !.ok = b]
      IN  u \in Threads /\ u.kind = t.kind /\ u.value = t.value /\ u.revision = t.revision
  BY <1>2 DEF Threads
<1>4. LET u == [t EXCEPT !.step = "fetches"]
      IN  u \in Threads /\ u.kind = t.kind /\ u.value = t.value /\ u.revision = t.revision
  BY <1>2 DEF Threads
<1>5. LET u == [t EXCEPT !.step = "fetched", !.revision = r]
      IN  u \in Threads /\ u.kind = t.kind /\ u.value = t.value /\ u.revision = r
  BY <1>1, <1>2 DEF Threads
<1> QED
  BY <1>1, <1>3, <1>4, <1>5 DEF ThreadTypes

(* So do all of them, whatever the step.                                   *)
LEMMA ThreadsKeep ==
  ASSUME WindowTypes, [WindowNext]_windowVars
  PROVE  \A t \in threads' : ThreadTypes(t)
<1>1. CASE UNCHANGED windowVars \/ Elsewhere \/ Forward \/ Wake \/ Deliver \/ UserStep
  <2>1. threads' = threads
    BY <1>1, UserFrame DEF windowVars, Elsewhere, Forward, Wake, Deliver, stream
  <2> QED
    BY <2>1, ThreadsAre
<1>2. CASE Reopen
  BY <1>2 DEF Reopen
<1>3. CASE SelectProfile
  <2>1. PICK p \in Profiles : Submit("profile", p)
    BY <1>3 DEF SelectProfile
  <2> QED
    BY <2>1, SubmitKeeps DEF Kinds
<1>4. CASE ApplyPower
  BY <1>4, SubmitKeeps DEF ApplyPower, Kinds, WindowTypes
<1>5. ASSUME NEW t \in threads, Asked(t) \/ Answered(t) \/ Fetch(t) \/ Fetched(t)
      PROVE  \A u \in threads' : ThreadTypes(u)
  <2>0. Len(log) \in 1..Len(log)
    BY UiAssumption DEF WindowTypes
  <2>1. CASE Asked(t)
    <3>1. PICK ok \in BOOLEAN :
            threads' = (threads \ {t}) \cup {[t EXCEPT !.step = "answers", !.ok = ok]}
      BY <2>1 DEF Asked
    <3> QED
      BY <2>0, <3>1, AdvanceKeeps, ThreadsAre
  <2>2. CASE Answered(t)
    BY <2>0, <2>2, AdvanceKeeps, ThreadsAre DEF Answered
  <2>3. CASE Fetch(t)
    BY <2>0, <2>3, AdvanceKeeps, ThreadsAre DEF Fetch
  <2>4. CASE Fetched(t)
    BY <2>4, ThreadsAre DEF Fetched
  <2> QED
    BY <1>5, <2>1, <2>2, <2>3, <2>4
<1> QED
  BY <1>1, <1>2, <1>3, <1>4, <1>5, StepKinds

(* A control that reports a power policy reports one.                      *)
LEMMA ResultTells ==
  ASSUME WindowTypes, NEW t \in threads
  PROVE  Tells([event |-> "control", kind |-> t.kind, value |-> t.value, ok |-> t.ok])
<1>1. t.value \in IF t.kind = "power" THEN Values ELSE Profiles
  BY ThreadIs
<1> QED
  BY <1>1 DEF Tells

(* A published state tells true.                                           *)
LEMMA StateTells ==
  ASSUME NEW r \in 1..Len(log)
  PROVE  Tells([event |-> "state", revision |-> r])
  BY DEF Tells

(* A queue still tells of published states when more were published, and   *)
(* when one more of them is appended.                                      *)
LEMMA AppendTells ==
  ASSUME NEW q \in Seq(Events), NEW e \in Events, Tells(e), \A i \in DOMAIN q : Tells(q[i])
  PROVE  \A i \in DOMAIN Append(q, e) : Tells(Append(q, e)[i])
<1> SUFFICES ASSUME NEW i \in DOMAIN Append(q, e) PROVE Tells(Append(q, e)[i])
  OBVIOUS
<1>1. i \in 1..Len(q) + 1 /\ Len(q) \in Nat
  OBVIOUS
<1>2. (i \in DOMAIN q /\ Append(q, e)[i] = q[i]) \/ Append(q, e)[i] = e
  BY <1>1
<1> QED
  BY <1>2

(* What is left of a queue tells true.                                     *)
LEMMA TailTells ==
  ASSUME NEW q \in Seq(Events), q # <<>>, \A i \in DOMAIN q : Tells(q[i])
  PROVE  Tells(Head(q)) /\ \A i \in DOMAIN Tail(q) : Tells(Tail(q)[i])
<1>1. Len(q) \in Nat /\ Len(q) > 0 /\ 1 \in DOMAIN q /\ Head(q) = q[1]
  OBVIOUS
<1>2. \A i \in DOMAIN Tail(q) : i + 1 \in DOMAIN q /\ Tail(q)[i] = q[i + 1]
  BY <1>1
<1> QED
  BY <1>1, <1>2

(* What was true of the events stays true of them.                         *)
LEMMA StillTells ==
  ASSUME WindowTypes, Grows, NEW e, Tells(e)
  PROVE  Tells(e)'
<1>1. Len(log) \in Nat /\ Len(log') \in Nat /\ Len(log) <= Len(log')
  BY DEF WindowTypes, Grows
<1> QED
  BY <1>1 DEF Tells

(* What is on the way goes on telling true: published states stay          *)
(* published.                                                              *)
LEMMA OnTheWayKeeps ==
  ASSUME WindowTypes, OnTheWay, [WindowNext]_windowVars, Grows
  PROVE  OnTheWay'
<1> DEFINE AllTell(q) == \A i \in DOMAIN q : Tells(q[i])
<1>0. /\ events \in Seq(Events) /\ batch \in Seq(Events)
      /\ AllTell(events) /\ AllTell(batch) /\ AllTell(<<>>)
  BY DEF WindowTypes, OnTheWay
<1> HIDE DEF AllTell
<1> SUFFICES AllTell(events') /\ AllTell(batch')
  BY StillTells DEF OnTheWay, AllTell
<1>1. CASE UNCHANGED windowVars \/ Elsewhere \/ SelectProfile \/ ApplyPower \/ UserStep
  BY <1>0, <1>1, UserFrame DEF windowVars, Elsewhere, SelectProfile, ApplyPower, stream
<1>2. CASE Reopen
  BY <1>0, <1>2 DEF Reopen
<1>3. CASE Forward
  <2>1. forwarded + 1 \in 1..Len(log)
    BY <1>3 DEF Forward, WindowTypes
  <2>2. AllTell(Append(events, [event |-> "state", revision |-> forwarded + 1]))
    BY <1>0, <2>1, StateTells, StateIsEvent, AppendTells DEF AllTell
  <2> QED
    BY <1>0, <1>3, <2>2 DEF Forward
<1>4. CASE Wake
  BY <1>0, <1>4 DEF Wake
<1>5. CASE Deliver
  BY <1>0, <1>5, TailTells DEF AllTell, Deliver, stream
<1>6. ASSUME NEW t \in threads, Asked(t) \/ Fetch(t)
      PROVE  UNCHANGED <<events, batch>>
  BY <1>6 DEF Asked, Fetch
<1>7. ASSUME NEW t \in threads, Answered(t)
      PROVE  AllTell(events') /\ batch' = batch
  <2>1. AllTell(Append(events, [event |-> "control", kind |-> t.kind,
                                value |-> t.value, ok |-> t.ok]))
    BY <1>0, ResultIsEvent, ResultTells, AppendTells DEF AllTell
  <2> QED
    BY <1>7, <2>1 DEF Answered
<1>8. ASSUME NEW t \in threads, Fetched(t)
      PROVE  AllTell(events') /\ batch' = batch
  <2>1. t.revision \in 1..Len(log)
    BY ThreadIs
  <2>2. AllTell(Append(events, [event |-> "state", revision |-> t.revision]))
    BY <1>0, <2>1, StateTells, StateIsEvent, AppendTells DEF AllTell
  <2> QED
    BY <1>8, <2>2 DEF Fetched
<1> QED
  BY <1>0, <1>1, <1>2, <1>3, <1>4, <1>5, <1>6, <1>7, <1>8, StepKinds

-----------------------------------------------------------------------------
(* What an event does to the window: an outdated state nothing, a state as *)
(* new as the one shown takes its place, a result shows its power policy   *)
(* at most.                                                                *)
Ignored == UNCHANGED <<model, shown, drag, form, applied, file, unsent>>

(* A state as new as the one shown.                                        *)
Taken(r) ==
  LET light == IF lightDue THEN model.light ELSE log[r].light
      fan == IF fanDue \/ drag THEN model.fan ELSE log[r].fan
  IN  /\ shown <= r /\ shown' = r
      /\ model' = [log[r] EXCEPT !.light = light, !.fan = fan]
      /\ drag' = (drag /\ log[r].profile = model.profile)
      /\ form' \in {form, log[r].power} /\ applied' = log[r].power
      /\ file' = IF ~lightDue /\ light # model.light THEN light ELSE file
      /\ unsent' = (drag # drag' \/ (unsent /\ (lightDue \/ fanDue \/ drag)))

(* The result of a request.                                                *)
Reported ==
  /\ UNCHANGED <<shown, drag, form, file, unsent>>
  /\ \/ UNCHANGED <<model, applied>>
     \/ \E v \in Values : model' = [model EXCEPT !.power = v] /\ applied' = v

(* An event that is delivered does one of the three.                       *)
LEMMA Delivery ==
  ASSUME WindowTypes, OnTheWay, Deliver
  PROVE  /\ log' = log /\ UNCHANGED <<forwarded, events, threads, lightDue, fanDue, moves>>
         /\ batch # <<>> /\ batch' = Tail(batch)
         /\ \/ /\ Head(batch).event = "state" /\ Head(batch).revision \in 1..Len(log)
               /\ \/ Head(batch).revision < shown /\ Ignored
                  \/ Taken(Head(batch).revision)
            \/ Head(batch).event # "state" /\ Reported
<1> DEFINE e == Head(batch)
<1>1. /\ log' = log /\ UNCHANGED <<forwarded, events, threads, lightDue, fanDue, moves>>
      /\ batch # <<>> /\ batch' = Tail(batch)
  BY DEF Deliver, daemon, stream
<1>2. Tells(e)
  BY <1>1, TailTells DEF WindowTypes, OnTheWay
<1>3. CASE e.event = "state"
  <2>1. ShowState(e.revision) /\ e.revision \in 1..Len(log)
    BY <1>2, <1>3 DEF Deliver, Tells
  <2> DEFINE r == e.revision
  <2> HIDE DEF r
  <2>2. ShowState(r) /\ r \in 1..Len(log)
    BY <2>1 DEF r
  <2>3. Len(log) \in Nat /\ shown \in 0..Len(log)
    BY DEF WindowTypes
  <2>4. (r < shown /\ Ignored) \/ Taken(r)
    <3>1. CASE r < shown
      BY <2>2, <3>1 DEF ShowState, Outdated, Ignored
    <3>2. CASE ~(r < shown)
      <4>1. shown <= r
        BY <2>2, <2>3, <3>2
      <4> QED
        BY <2>2, <3>2, <4>1 DEF ShowState, Outdated, Keeps, Taken
    <3> QED
      BY <3>1, <3>2
  <2> QED
    BY <1>1, <1>3, <2>1, <2>4 DEF r
<1>4. CASE e.event # "state"
  <2>1. ShowResult(e) /\ UNCHANGED <<shown, drag, form, file, unsent>>
    BY <1>4 DEF Deliver
  <2>2. e.kind = "power" => e.value \in Values
    BY <1>2, <1>4 DEF Tells
  <2>3. Reported
    BY <2>1, <2>2 DEF ShowResult, Reported
  <2> QED
    BY <1>1, <1>4, <2>3
<1> QED
  BY <1>3, <1>4

(* The state that takes the place of the one shown.                        *)
LEMMA TakenModel ==
  ASSUME WindowTypes, NEW r \in 1..Len(log), Taken(r)
  PROVE  /\ model' \in Settings /\ log[r] \in Settings
         /\ model'.light = IF lightDue THEN model.light ELSE log[r].light
         /\ model'.fan = IF fanDue \/ drag THEN model.fan ELSE log[r].fan
         /\ model'.power = log[r].power
         /\ model'.profile = log[r].profile /\ model'.flag = log[r].flag
<1> DEFINE light == IF lightDue THEN model.light ELSE log[r].light
           fan == IF fanDue \/ drag THEN model.fan ELSE log[r].fan
<1>1. log[r] \in Settings /\ model \in Settings
  BY ElementOfSeq DEF WindowTypes
<1>2. light \in Values /\ fan \in Fans
  BY <1>1, FieldsOf
<1>3. model' = [log[r] EXCEPT !.light = light, !.fan = fan]
  BY DEF Taken
<1> HIDE DEF light, fan
<1>4. /\ model' \in Settings /\ model'.light = light /\ model'.fan = fan
      /\ model'.power = log[r].power
      /\ model'.profile = log[r].profile /\ model'.flag = log[r].flag
  BY <1>1, <1>2, <1>3 DEF Settings
<1> QED
  BY <1>1, <1>4 DEF light, fan

(* A result leaves the model's other fields alone.                         *)
LEMMA ReportedModel ==
  ASSUME WindowTypes, Reported
  PROVE  /\ model' \in Settings /\ model'.light = model.light /\ model'.fan = model.fan
         /\ model'.profile = model.profile /\ model'.flag = model.flag
<1>0. model \in Settings
  BY DEF WindowTypes
<1>1. CASE UNCHANGED model
  BY <1>0, <1>1
<1>2. ASSUME NEW v \in Values, model' = [model EXCEPT !.power = v]
      PROVE  /\ model' \in Settings /\ model'.light = model.light /\ model'.fan = model.fan
             /\ model'.profile = model.profile /\ model'.flag = model.flag
  BY <1>0, <1>2, EditPowerOf
<1> QED
  BY <1>1, <1>2 DEF Reported

(* The fields of the model that each step of the user edits.               *)
LEMMA EditsModel ==
  ASSUME WindowTypes, UserStep
  PROVE  /\ model' \in Settings /\ model'.profile = model.profile
         /\ model'.light = model.light \/ (EditLight /\ lightDue')
<1>0. model \in Settings /\ model.fan \in Fans
  BY FieldsOf DEF WindowTypes
<1>1. CASE EditLight
  <2>1. PICK v \in Values : model' = [model EXCEPT !.light = v]
    BY <1>1 DEF EditLight
  <2> QED
    BY <1>0, <1>1, <2>1, EditLightOf DEF EditLight
<1>2. CASE DragPoint
  <2>1. PICK v \in Values : model' = [model EXCEPT !.fan.curve = v]
    BY <1>2 DEF DragPoint
  <2>2. [model.fan EXCEPT !.curve = v] \in Fans
    BY <1>0, EditFansOf
  <2>3. model' = [model EXCEPT !.fan = [model.fan EXCEPT !.curve = v]]
    BY <1>0, <2>1 DEF Settings
  <2> QED
    BY <1>0, <2>2, <2>3, EditFanOf
<1>3. CASE SelectFanMode
  <2>1. model' = model \/ \E f \in Fans : model' = [model EXCEPT !.fan = f]
    BY <1>3, SelectFanModeGrows
  <2>2. CASE model' = model
    BY <1>0, <2>2
  <2>3. ASSUME NEW f \in Fans, model' = [model EXCEPT !.fan = f]
        PROVE  model' \in Settings /\ model'.profile = model.profile /\ model'.light = model.light
    BY <1>0, <2>3 DEF Settings
  <2> QED
    BY <2>1, <2>2, <2>3
<1>4. CASE Switch
  <2>1. \/ model' = model
        \/ \E b \in BOOLEAN : model' = [model EXCEPT !.flag = b]
    BY <1>4, SwitchGrows
  <2>2. CASE model' = model
    BY <1>0, <2>2
  <2>3. ASSUME NEW b \in BOOLEAN, model' = [model EXCEPT !.flag = b]
        PROVE  model' \in Settings /\ model'.profile = model.profile /\ model'.light = model.light
    BY <1>0, <2>3 DEF Settings
  <2> QED
    BY <2>1, <2>2, <2>3
<1>5. CASE FlushLight \/ Drop \/ SelectCurve \/ FlushFan \/ EditPower
  BY <1>0, <1>5 DEF FlushLight, Drop, SelectCurve, FlushFan, EditPower
<1> QED
  BY <1>1, <1>2, <1>3, <1>4, <1>5 DEF UserStep

(* The steps that leave the window's own state alone.                      *)
LEMMA OtherSteps ==
  ASSUME [WindowNext]_windowVars
  PROVE  \/ Reopen \/ Deliver \/ UserStep
         \/ /\ UNCHANGED <<model, shown, applied, file, form, lightDue, fanDue, drag, unsent>>
            /\ \/ UNCHANGED <<windowVars>> \/ Elsewhere \/ Forward \/ Wake \/ SelectProfile \/ ApplyPower
               \/ \E t \in threads : Asked(t) \/ Answered(t) \/ Fetch(t) \/ Fetched(t)
<1>1. CASE UNCHANGED windowVars \/ Elsewhere \/ Forward \/ Wake
  BY <1>1 DEF windowVars, Elsewhere, Forward, Wake, edits, policy
<1>2. CASE SelectProfile \/ ApplyPower
  BY <1>2 DEF SelectProfile, ApplyPower, edits
<1>3. CASE \E t \in threads : Asked(t) \/ Answered(t) \/ Fetch(t) \/ Fetched(t)
  BY <1>3 DEF Asked, Answered, Fetch, Fetched, edits, policy
<1> QED
  BY <1>1, <1>2, <1>3, StepKinds

-----------------------------------------------------------------------------
(* The variables keep their types.                                         *)
LEMMA ModelKeeps ==
  ASSUME WindowTypes, OnTheWay, [WindowNext]_windowVars
  PROVE  model' \in Settings
<1>0. model \in Settings
  BY DEF WindowTypes
<1>1. CASE Reopen
  BY <1>1, CurrentIs DEF Reopen
<1>2. CASE Deliver
  <2>1. CASE Head(batch).event = "state" /\ Head(batch).revision \in 1..Len(log)
             /\ Taken(Head(batch).revision)
    BY <2>1, TakenModel
  <2>2. CASE Ignored
    BY <1>0, <2>2 DEF Ignored
  <2>3. CASE Reported
    BY <2>3, ReportedModel
  <2> QED
    BY <1>2, <2>1, <2>2, <2>3, Delivery
<1>3. CASE UserStep
  BY <1>3, EditsModel
<1>4. CASE UNCHANGED model
  BY <1>0, <1>4
<1> QED
  BY <1>1, <1>2, <1>3, <1>4, OtherSteps

(* The power page shows policies.                                          *)
LEMMA PolicyKeeps ==
  ASSUME WindowTypes, OnTheWay, [WindowNext]_windowVars
  PROVE  form' \in Values /\ applied' \in Values
<1>0. form \in Values /\ applied \in Values
  BY DEF WindowTypes
<1>1. CASE Reopen
  BY <1>1, CurrentIs, FieldsOf DEF Reopen
<1>2. CASE Deliver
  <2>1. CASE Head(batch).revision \in 1..Len(log) /\ Taken(Head(batch).revision)
    <3>1. log[Head(batch).revision] \in Settings
      BY <2>1, ElementOfSeq DEF WindowTypes
    <3> QED
      BY <1>0, <2>1, <3>1, FieldsOf DEF Taken
  <2>2. CASE Ignored
    BY <1>0, <2>2 DEF Ignored
  <2>3. CASE Reported
    BY <1>0, <2>3 DEF Reported
  <2> QED
    BY <1>2, <2>1, <2>2, <2>3, Delivery
<1>3. CASE UserStep
  <2>1. applied' = applied
    BY <1>3, UserFrame
  <2>2. CASE EditLight \/ FlushLight \/ DragPoint \/ Drop \/ SelectCurve
    BY <1>0, <2>1, <2>2 DEF EditLight, FlushLight, DragPoint, Drop, SelectCurve, policy
  <2>3. CASE FlushFan \/ SelectFanMode \/ Switch \/ EditPower
    BY <1>0, <2>1, <2>3 DEF FlushFan, SelectFanMode, Switch, EditPower, policy
  <2> QED
    BY <1>3, <2>2, <2>3 DEF UserStep
<1>4. CASE UNCHANGED <<form, applied>>
  BY <1>0, <1>4
<1> QED
  BY <1>1, <1>2, <1>3, <1>4, OtherSteps

(* The revisions stay among those published.                               *)
LEMMA CountersKeep ==
  ASSUME WindowTypes, OnTheWay, [WindowNext]_windowVars, Grows
  PROVE  forwarded' \in 0..Len(log') /\ shown' \in 0..Len(log') /\ moves' \in Nat
<1>0. /\ Len(log) \in Nat /\ Len(log') \in Nat /\ 1 <= Len(log) /\ Len(log) <= Len(log')
      /\ forwarded \in 0..Len(log) /\ shown \in 0..Len(log) /\ moves \in Nat
  BY UiAssumption DEF WindowTypes, Grows
<1>1. CASE Reopen
  BY <1>0, <1>1 DEF Reopen
<1>2. CASE Deliver
  BY <1>0, <1>2, Delivery DEF Ignored, Taken, Reported
<1>3. CASE UserStep
  <2>1. forwarded' = forwarded /\ shown' = shown
    BY <1>3, UserFrame
  <2>2. CASE EditLight \/ FlushLight \/ DragPoint \/ Drop \/ SelectCurve
    BY <1>0, <2>1, <2>2 DEF EditLight, FlushLight, DragPoint, Drop, SelectCurve, UserMoves
  <2>3. CASE FlushFan \/ SelectFanMode \/ Switch \/ EditPower
    BY <1>0, <2>1, <2>3 DEF FlushFan, SelectFanMode, Switch, EditPower, UserMoves
  <2> QED
    BY <1>3, <2>2, <2>3 DEF UserStep
<1>4. CASE UNCHANGED windowVars \/ Elsewhere \/ Forward \/ Wake
  BY <1>0, <1>4 DEF windowVars, stream, Elsewhere, Forward, Wake
<1>5. CASE SelectProfile \/ ApplyPower
  BY <1>0, <1>5 DEF SelectProfile, ApplyPower, UserMoves
<1>6. ASSUME NEW t \in threads, Asked(t) \/ Answered(t) \/ Fetch(t) \/ Fetched(t)
      PROVE  UNCHANGED <<forwarded, shown, moves>>
  BY <1>6 DEF Asked, Answered, Fetch, Fetched
<1>7. CASE UNCHANGED <<forwarded, shown, moves>>
  BY <1>0, <1>7
<1> QED
  BY <1>1, <1>2, <1>3, <1>4, <1>5, <1>6, <1>7, StepKinds

(* The flags stay flags.                                                   *)
LEMMA FlagsKeep ==
  ASSUME WindowTypes, OnTheWay, [WindowNext]_windowVars
  PROVE  lightDue' \in BOOLEAN /\ fanDue' \in BOOLEAN /\ drag' \in BOOLEAN /\ unsent' \in BOOLEAN
<1>0. lightDue \in BOOLEAN /\ fanDue \in BOOLEAN /\ drag \in BOOLEAN /\ unsent \in BOOLEAN
  BY DEF WindowTypes
<1>1. CASE Reopen
  BY <1>1 DEF Reopen
<1>2. CASE Deliver
  <2>1. lightDue' = lightDue /\ fanDue' = fanDue
    BY <1>2, Delivery
  <2>2. Ignored \/ Taken(Head(batch).revision) \/ Reported
    BY <1>2, Delivery
  <2>3. CASE Ignored \/ Reported
    BY <1>0, <2>1, <2>3 DEF Ignored, Reported
  <2>4. CASE Taken(Head(batch).revision)
    <3>1. drag' \in BOOLEAN /\ unsent' \in BOOLEAN
      BY <2>4, Zenon DEF Taken
    <3> QED
      BY <1>0, <2>1, <3>1
  <2> QED
    BY <2>2, <2>3, <2>4
<1>3. CASE UserStep
  <2>1. CASE EditLight \/ FlushLight \/ DragPoint \/ Drop \/ SelectCurve
    BY <1>0, <2>1 DEF EditLight, FlushLight, DragPoint, Drop, SelectCurve
  <2>2. CASE SelectFanMode \/ Switch
    BY <1>0, <2>2, SelectFanModeGrows, SwitchGrows DEF SelectFanMode, Switch, edits
  <2>3. CASE FlushFan \/ EditPower
    BY <1>0, <2>3 DEF FlushFan, EditPower, edits
  <2> QED
    BY <1>3, <2>1, <2>2, <2>3 DEF UserStep
<1>4. CASE UNCHANGED <<lightDue, fanDue, drag, unsent>>
  BY <1>0, <1>4
<1> QED
  BY <1>1, <1>2, <1>3, <1>4, OtherSteps

(* Every variable keeps its type.                                          *)
LEMMA TypesKeep ==
  ASSUME WindowTypes, OnTheWay, [WindowNext]_windowVars, Grows
  PROVE  WindowTypes'
<1>1. log' \in Seq(Settings) /\ Len(log') \in 1..MaxRevision
  BY UiAssumption DEF WindowTypes, Grows
<1>2. Len(log) \in Nat /\ Len(log') \in Nat /\ Len(log) <= Len(log')
  BY UiAssumption DEF WindowTypes, Grows
<1>3. \A t \in threads' : t \in Threads /\ t.revision <= Len(log)
                          /\ t.value \in IF t.kind = "power" THEN Values ELSE Profiles
  BY ThreadsKeep DEF ThreadTypes
<1>4. ASSUME NEW t \in threads' PROVE t.revision <= Len(log')
  <2>1. t.revision \in Nat /\ t.revision <= Len(log)
    BY <1>3, UiAssumption DEF Threads, Revisions
  <2> QED
    BY <1>2, <2>1
<1> QED
  BY <1>1, <1>3, <1>4, ModelKeeps, PolicyKeeps, CountersKeep, FlagsKeep, QueuesKeep
  DEF WindowTypes, ThreadTypes

-----------------------------------------------------------------------------
(* A drag is over as soon as the fan is not in the custom mode.            *)
LEMMA DragsKeep ==
  ASSUME WindowTypes, OnTheWay, DragsCustom, [WindowNext]_windowVars
  PROVE  DragsCustom'
<1>0. model \in Settings /\ model.fan \in Fans
  BY FieldsOf DEF WindowTypes
<1>1. CASE Reopen
  BY <1>1 DEF Reopen, DragsCustom
<1>2. CASE Deliver
  <2>1. CASE Head(batch).revision \in 1..Len(log) /\ Taken(Head(batch).revision)
    <3>1. drag' => drag
      BY <2>1 DEF Taken
    <3>2. drag => model'.fan = model.fan
      BY <2>1, TakenModel
    <3> QED
      BY <3>1, <3>2 DEF DragsCustom
  <2>2. CASE Ignored
    BY <2>2 DEF Ignored, DragsCustom
  <2>3. CASE Reported
    <3>2. model'.fan = model.fan
      BY <2>3, ReportedModel
    <3> QED
      BY <2>3, <3>2 DEF Reported, DragsCustom
  <2> QED
    BY <1>2, <2>1, <2>2, <2>3, Delivery
<1>3. CASE UserStep
  <2>1. CASE EditLight
    <3>1. model'.fan = model.fan
      BY <1>0, <2>1, EditLightOf DEF EditLight
    <3> QED
      BY <2>1, <3>1 DEF EditLight, DragsCustom
  <2>2. CASE DragPoint
    <3>1. PICK v \in Values : model' = [model EXCEPT !.fan.curve = v]
      BY <2>2 DEF DragPoint
    <3>2. model'.fan.mode = model.fan.mode
      BY <1>0, <3>1 DEF Settings, Fans
    <3> QED
      BY <2>2, <3>2 DEF DragPoint, DragsCustom
  <2>3. CASE Drop \/ SelectCurve \/ SelectFanMode
    BY <2>3 DEF Drop, SelectCurve, SelectFanMode, DragsCustom
  <2>4. CASE Switch
    <3>1. model' = model \/ \E b \in BOOLEAN : model' = [model EXCEPT !.flag = b]
      BY <2>4, SwitchGrows
    <3>2. ASSUME NEW b \in BOOLEAN, model' = [model EXCEPT !.flag = b]
          PROVE  model'.fan = model.fan
      <4>1. [model EXCEPT !.flag = b].fan = model.fan
        BY <1>0, EditFlagOf
      <4> QED
        BY <3>2, <4>1, Zenon
    <3>3. model'.fan = model.fan
      BY <3>1, <3>2, Zenon
    <3> QED
      BY <2>4, <3>3 DEF Switch, edits, DragsCustom
  <2>5. CASE FlushLight \/ FlushFan \/ EditPower
    BY <2>5 DEF FlushLight, FlushFan, EditPower, edits, DragsCustom
  <2> QED
    BY <1>3, <2>1, <2>2, <2>3, <2>4, <2>5 DEF UserStep
<1>4. CASE UNCHANGED <<model, drag>>
  BY <1>4 DEF DragsCustom
<1> QED
  BY <1>1, <1>2, <1>3, <1>4, OtherSteps

(* The profile shown is only ever taken with a state.                      *)
LEMMA ProfileKeeps ==
  ASSUME WindowTypes, OnTheWay, ProfileShown, [WindowNext]_windowVars, Grows
  PROVE  ProfileShown'
<1>0. /\ shown \in 0..Len(log) /\ Len(log) \in Nat /\ model \in Settings
      /\ \A i \in 1..Len(log) : log'[i] = log[i]
  BY DEF WindowTypes, Grows
<1>1. CASE Reopen
  BY <1>1 DEF Reopen, ProfileShown
<1>2. CASE Deliver
  <2>1. CASE Head(batch).revision \in 1..Len(log) /\ Taken(Head(batch).revision)
    BY <1>0, <2>1, TakenModel DEF Taken, ProfileShown
  <2>2. CASE UNCHANGED <<model, shown>>
    BY <1>0, <2>2 DEF ProfileShown
  <2>3. CASE Reported
    <3>2. model'.profile = model.profile
      BY <2>3, ReportedModel
    <3> QED
      BY <1>0, <2>3, <3>2 DEF Reported, ProfileShown
  <2> QED
    BY <1>2, <2>1, <2>2, <2>3, Delivery DEF Ignored
<1>3. CASE UserStep
  <2>1. model'.profile = model.profile /\ shown' = shown
    BY <1>3, EditsModel, UserFrame
  <2> QED
    BY <1>0, <2>1 DEF ProfileShown
<1>4. CASE UNCHANGED <<model, shown>>
  BY <1>0, <1>4 DEF ProfileShown
<1> QED
  BY <1>1, <1>2, <1>3, <1>4, OtherSteps

(* The file takes what the model takes.                                    *)
LEMMA FileKeeps ==
  ASSUME WindowTypes, OnTheWay, FileFollows, [WindowNext]_windowVars
  PROVE  FileFollows'
<1>0. model \in Settings
  BY DEF WindowTypes
<1>1. CASE Reopen
  BY <1>1 DEF Reopen, FileFollows
<1>2. CASE Deliver
  <2>0. lightDue' = lightDue
    BY <1>2, Delivery
  <2>1. CASE Head(batch).revision \in 1..Len(log) /\ Taken(Head(batch).revision)
    <3>1. model'.light = IF lightDue THEN model.light ELSE log[Head(batch).revision].light
      BY <2>1, TakenModel
    <3> QED
      BY <2>0, <2>1, <3>1 DEF Taken, FileFollows
  <2>2. CASE Ignored
    BY <2>0, <2>2 DEF Ignored, FileFollows
  <2>3. CASE Reported
    <3>2. model'.light = model.light
      BY <2>3, ReportedModel
    <3> QED
      BY <2>0, <2>3, <3>2 DEF Reported, FileFollows
  <2> QED
    BY <1>2, <2>1, <2>2, <2>3, Delivery
<1>3. CASE UserStep
  <2>1. model'.light = model.light \/ lightDue'
    BY <1>3, EditsModel
  <2>2. CASE EditLight \/ FlushLight
    BY <2>2 DEF EditLight, FlushLight, FileFollows
  <2>3. CASE DragPoint \/ Drop \/ SelectCurve \/ FlushFan
    BY <2>1, <2>3 DEF DragPoint, Drop, SelectCurve, FlushFan, FileFollows
  <2>4. CASE SelectFanMode \/ Switch \/ EditPower
    BY <2>1, <2>4 DEF SelectFanMode, Switch, EditPower, edits, FileFollows
  <2> QED
    BY <1>3, <2>2, <2>3, <2>4 DEF UserStep
<1>4. CASE UNCHANGED <<model, file, lightDue>>
  BY <1>4 DEF FileFollows
<1> QED
  BY <1>1, <1>2, <1>3, <1>4, OtherSteps

(* A step that publishes leaves the window behind; one that publishes      *)
(* nothing leaves the newest state what it was.                            *)
LEMMA LeftBehind ==
  ASSUME WindowTypes, Grows, shown' = shown, Len(log') > Len(log)
  PROVE  NewestShown'
<1>1. shown \in 0..Len(log) /\ Len(log) \in Nat /\ Len(log') \in Nat
  BY DEF WindowTypes, Grows
<1> QED
  BY <1>1 DEF NewestShown

(* The newest state stays shown: an edit is either published at once,      *)
(* waits, or is known unsent.                                              *)
LEMMA NewestKeeps ==
  ASSUME WindowTypes, OnTheWay, DragsCustom, NewestShown, [WindowNext]_windowVars, Grows
  PROVE  NewestShown'
<1>0. /\ shown \in 0..Len(log) /\ Len(log) \in 1..MaxRevision /\ MaxRevision \in Nat
      /\ Len(log') \in Nat /\ Len(log) <= Len(log')
      /\ model \in Settings /\ model.fan \in Fans
  BY FieldsOf, UiAssumption DEF WindowTypes, Grows
<1>1. CASE Reopen
  <2>1. shown' = 0 /\ Len(log') = Len(log)
    BY <1>1 DEF Reopen
  <2> QED
    BY <1>0, <2>1 DEF NewestShown
<1>2. CASE Deliver
  <2>0. log' = log /\ lightDue' = lightDue /\ fanDue' = fanDue
    BY <1>2, Delivery
  <2>1. CASE Head(batch).revision \in 1..Len(log) /\ Taken(Head(batch).revision)
    <3> DEFINE r == Head(batch).revision
    <3>1. /\ model'.light = IF lightDue THEN model.light ELSE log[r].light
          /\ model'.fan = IF fanDue \/ drag THEN model.fan ELSE log[r].fan
          /\ model'.flag = log[r].flag /\ shown' = r
      BY <2>1, TakenModel DEF Taken
    <3>2. ~unsent' => drag' = drag
      BY <2>1 DEF Taken
    <3> HIDE DEF r
    <3>3. CASE r = Len(log) /\ ~unsent'
      <4>1. Current = log[r] /\ Current' = Current
        BY <2>0, <3>3 DEF Current, Last
      <4> QED
        BY <2>0, <3>1, <3>2, <3>3, <4>1 DEF NewestShown
    <3> QED
      BY <2>0, <3>1, <3>3 DEF NewestShown
  <2>2. CASE Ignored
    BY <2>0, <2>2 DEF Ignored, NewestShown, Current
  <2>3. CASE Reported
    <3>1. /\ model'.light = model.light /\ model'.fan = model.fan /\ model'.flag = model.flag
      BY <2>3, ReportedModel
    <3> QED
      BY <2>0, <2>3, <3>1 DEF Reported, NewestShown, Current
  <2> QED
    BY <1>2, <2>1, <2>2, <2>3, Delivery
<1>3. CASE UserStep
  <2>0. shown' = shown
    BY <1>3, UserFrame
  <2>1. CASE EditLight
    <3>1. model'.fan = model.fan /\ model'.flag = model.flag
      BY <1>0, <2>1, EditLightOf DEF EditLight
    <3> QED
      BY <2>0, <2>1, <3>1 DEF EditLight, NewestShown, Current, daemon
  <2>2. CASE DragPoint
    <3>1. PICK v \in Values : model' = [model EXCEPT !.fan.curve = v]
      BY <2>2 DEF DragPoint
    <3>2. model'.light = model.light /\ model'.flag = model.flag
      BY <1>0, <3>1 DEF Settings
    <3> QED
      BY <2>0, <2>2, <3>2 DEF DragPoint, NewestShown, Current, daemon
  <2>3. CASE Drop
    <3>1. fanDue'
      BY <2>3 DEF Drop, DragsCustom
    <3> QED
      BY <2>0, <2>3, <3>1 DEF Drop, NewestShown, Current, daemon
  <2>4. CASE SelectCurve
    BY <2>4 DEF SelectCurve, NewestShown
  <2>5. CASE EditPower
    BY <2>0, <2>5 DEF EditPower, NewestShown, Current, daemon, edits
  <2>6. CASE FlushLight \/ FlushFan \/ SelectFanMode \/ Switch
    <3>1. ~unsent' => Len(log') > Len(log)
      BY <2>6, FlushLightGrows, FlushFanGrows, SelectFanModeGrows, SwitchGrows
    <3>2. CASE unsent'
      BY <3>2 DEF NewestShown
    <3>3. CASE ~unsent'
      BY <2>0, <3>1, <3>3, LeftBehind
    <3> QED
      BY <3>2, <3>3
  <2> QED
    BY <1>3, <2>1, <2>2, <2>3, <2>4, <2>5, <2>6 DEF UserStep
<1>4. CASE /\ UNCHANGED <<model, shown, lightDue, fanDue, drag, unsent>>
           /\ log' = log
  BY <1>4 DEF NewestShown, Current
<1>5. CASE UNCHANGED shown /\ Len(log') > Len(log)
  BY <1>5, LeftBehind
<1>6. ASSUME UNCHANGED windowVars \/ Elsewhere \/ Forward \/ Wake \/ SelectProfile \/ ApplyPower
      PROVE  log' = log \/ Len(log') > Len(log)
  <2>1. CASE Elsewhere
    BY <2>1, ElsewhereGrows
  <2> QED
    BY <1>6, <2>1 DEF windowVars, Forward, Wake, SelectProfile, ApplyPower, daemon
<1>7. ASSUME NEW t \in threads, Asked(t) \/ Answered(t) \/ Fetch(t) \/ Fetched(t)
      PROVE  log' = log \/ Len(log') > Len(log)
  <2>1. CASE Asked(t)
    BY <2>1, AskedGrows
  <2> QED
    BY <1>7, <2>1 DEF Answered, Fetch, Fetched, daemon
<1> QED
  BY <1>1, <1>2, <1>3, <1>4, <1>5, <1>6, <1>7, OtherSteps

(* An event at the end of a queue keeps the news that are in it.           *)
LEMMA AppendNews ==
  ASSUME NEW q \in Seq(Events), NEW e
  PROVE  /\ NewsIn(q) => NewsIn(Append(q, e))
         /\ e.event = "state" /\ e.revision >= forwarded => NewsIn(Append(q, e))
         /\ NoNewsIn(q) /\ e.event # "state" => NoNewsIn(Append(q, e))
<1>1. /\ Len(q) \in Nat /\ DOMAIN Append(q, e) = 1..(Len(q) + 1)
      /\ Append(q, e)[Len(q) + 1] = e /\ \A i \in 1..Len(q) : Append(q, e)[i] = q[i]
  OBVIOUS
<1>2. NewsIn(q) => NewsIn(Append(q, e))
  BY <1>1 DEF NewsIn
<1>3. e.event = "state" /\ e.revision >= forwarded => NewsIn(Append(q, e))
  <2>1. Len(q) + 1 \in DOMAIN Append(q, e)
    BY <1>1
  <2> QED
    BY <1>1, <2>1 DEF NewsIn
<1>4. NoNewsIn(q) /\ e.event # "state" => NoNewsIn(Append(q, e))
  BY <1>1 DEF NoNewsIn
<1> QED
  BY <1>2, <1>3, <1>4

(* The first event of a queue is the news, or they are behind it.          *)
LEMMA TailNews ==
  ASSUME NEW q \in Seq(Events), q # <<>>
  PROVE  /\ NewsIn(q) => \/ Head(q).event = "state" /\ Head(q).revision >= forwarded
                         \/ NewsIn(Tail(q))
         /\ NoNewsIn(q) => Head(q).event # "state" /\ NoNewsIn(Tail(q))
<1>1. /\ Len(q) \in Nat /\ Len(q) > 0 /\ Head(q) = q[1] /\ DOMAIN q = 1..Len(q)
      /\ DOMAIN Tail(q) = 1..(Len(q) - 1) /\ \A i \in 1..(Len(q) - 1) : Tail(q)[i] = q[i + 1]
  OBVIOUS
<1>2. ASSUME NewsIn(q)
      PROVE  (Head(q).event = "state" /\ Head(q).revision >= forwarded) \/ NewsIn(Tail(q))
  <2>1. PICK i \in 1..Len(q) : q[i].event = "state" /\ q[i].revision >= forwarded
    BY <1>1, <1>2 DEF NewsIn
  <2>2. CASE i = 1
    BY <1>1, <2>1, <2>2
  <2>3. CASE i # 1
    <3>1. i - 1 \in DOMAIN Tail(q) /\ Tail(q)[i - 1] = q[i]
      BY <1>1, <2>1, <2>3
    <3> QED
      BY <2>1, <3>1 DEF NewsIn
  <2> QED
    BY <2>2, <2>3
<1>3. ASSUME NoNewsIn(q)
      PROVE  Head(q).event # "state" /\ NoNewsIn(Tail(q))
  BY <1>1, <1>3 DEF NoNewsIn
<1> QED
  BY <1>2, <1>3

(* What the stream has forwarded stays forwarded while nothing is taken    *)
(* from a queue and nothing new is looked up.                              *)
LEMMA ForwardedFrame ==
  ASSUME WindowTypes, Forwarded, Grows, UNCHANGED <<forwarded, events, batch, shown>>,
         \A t \in threads' : t.step = "fetched" => t \in threads \/ t.revision = Len(log)
  PROVE  Forwarded'
<1>1. forwarded \in Nat /\ Len(log) \in Nat /\ Len(log') \in Nat /\ Len(log) <= Len(log')
  BY DEF WindowTypes, Grows
<1>2. \/ shown >= forwarded
      \/ NewsIn(events) \/ NewsIn(batch)
      \/ /\ forwarded < Len(log) /\ shown = 0 /\ NoNewsIn(events) /\ NoNewsIn(batch)
         /\ \A t \in threads : t.step = "fetched" => t.revision > forwarded
  BY DEF Forwarded
<1>3. CASE shown >= forwarded
  BY <1>3 DEF Forwarded
<1>4. CASE NewsIn(events) \/ NewsIn(batch)
  BY <1>4 DEF Forwarded, NewsIn
<1>5. CASE /\ forwarded < Len(log) /\ shown = 0 /\ NoNewsIn(events) /\ NoNewsIn(batch)
           /\ \A t \in threads : t.step = "fetched" => t.revision > forwarded
  <2>1. forwarded' < Len(log') /\ shown' = 0 /\ NoNewsIn(events') /\ NoNewsIn(batch')
    BY <1>1, <1>5
  <2>2. \A t \in threads' : t.step = "fetched" => t.revision > forwarded'
    BY <1>1, <1>5
  <2> QED
    BY <2>1, <2>2 DEF Forwarded, NoNewsIn
<1> QED
  BY <1>2, <1>3, <1>4, <1>5

(* What was forwarded stays applied or on the way.                         *)
LEMMA ForwardedKeeps ==
  ASSUME WindowTypes, OnTheWay, Forwarded, [WindowNext]_windowVars, Grows
  PROVE  Forwarded'
<1>0. /\ events \in Seq(Events) /\ batch \in Seq(Events) /\ forwarded \in Nat
      /\ shown \in Nat /\ Len(log) \in Nat /\ 1 <= Len(log)
  BY UiAssumption DEF WindowTypes
<1> DEFINE Fresh == /\ forwarded < Len(log) /\ shown = 0 /\ NoNewsIn(events) /\ NoNewsIn(batch)
                    /\ \A t \in threads : t.step = "fetched" => t.revision > forwarded
<1>a. shown >= forwarded \/ NewsIn(events) \/ NewsIn(batch) \/ Fresh
  BY DEF Forwarded
<1>1. CASE UNCHANGED windowVars \/ Elsewhere \/ UserStep
  <2>1. UNCHANGED <<forwarded, events, batch, shown, threads>>
    BY <1>1, UserFrame DEF windowVars, Elsewhere, stream
  <2> QED
    BY <2>1, ForwardedFrame
<1>2. CASE SelectProfile \/ ApplyPower
  <2>1. PICK kind \in Kinds : \E value \in Values \cup Profiles : Submit(kind, value)
    BY <1>2 DEF SelectProfile, ApplyPower, Kinds, WindowTypes
  <2>2. \A t \in threads' : t.step = "fetched" => t \in threads
    BY <2>1 DEF Submit
  <2>3. UNCHANGED <<forwarded, events, batch, shown>>
    BY <1>2 DEF SelectProfile, ApplyPower
  <2> QED
    BY <2>2, <2>3, ForwardedFrame
<1>3. CASE Reopen
  BY <1>0, <1>3 DEF Reopen, Forwarded, NoNewsIn
<1>4. CASE Forward
  <2> DEFINE e == [event |-> "state", revision |-> forwarded + 1]
  <2>1. e.event = "state" /\ e.revision = forwarded + 1
    OBVIOUS
  <2> HIDE DEF e
  <2>2. events' = Append(events, e) /\ forwarded' = forwarded + 1
    BY <1>4 DEF Forward, e
  <2>3. /\ DOMAIN Append(events, e) = 1..(Len(events) + 1) /\ Len(events) + 1 \in 1..(Len(events) + 1)
        /\ Append(events, e)[Len(events) + 1] = e
    BY <1>0
  <2>4. NewsIn(events)'
    BY <1>0, <2>1, <2>2, <2>3 DEF NewsIn
  <2> QED
    BY <2>4 DEF Forwarded
<1>5. CASE Wake
  <2>1. batch' = events /\ events' = <<>> /\ batch = <<>>
        /\ UNCHANGED <<forwarded, threads, shown>> /\ log' = log
    BY <1>5 DEF Wake, Idle, daemon
  <2>2. ~NewsIn(batch)
    BY <2>1 DEF NewsIn
  <2>3. CASE shown >= forwarded
    BY <2>1, <2>3 DEF Forwarded
  <2>4. CASE NewsIn(events)
    BY <2>1, <2>4 DEF Forwarded, NewsIn
  <2>5. CASE Fresh
    BY <2>1, <2>5 DEF Forwarded, NoNewsIn
  <2> QED
    BY <1>a, <2>2, <2>3, <2>4, <2>5
<1>6. CASE Deliver
  <2>1. /\ log' = log /\ UNCHANGED <<forwarded, events, threads>>
        /\ batch # <<>> /\ batch' = Tail(batch)
    BY <1>6, Delivery
  <2>2. CASE shown' >= forwarded
    BY <2>1, <2>2 DEF Forwarded
  <2>3. CASE NewsIn(events) \/ NewsIn(Tail(batch))
    BY <2>1, <2>3 DEF Forwarded, NewsIn
  <2>4. CASE Fresh /\ Head(batch).event # "state"
    <3>1. shown' = 0
      BY <1>6, <2>4, Delivery DEF Reported
    <3>2. NoNewsIn(Tail(batch))
      BY <1>0, <2>1, <2>4, TailNews
    <3> QED
      BY <2>1, <2>4, <3>1, <3>2 DEF Forwarded, NoNewsIn
  <2>5. shown' >= shown
    <3>1. CASE Head(batch).revision \in 1..Len(log) /\ Taken(Head(batch).revision)
      BY <1>0, <3>1 DEF Taken
    <3>2. CASE Ignored \/ Reported
      BY <1>0, <3>2 DEF Ignored, Reported
    <3> QED
      BY <1>6, <3>1, <3>2, Delivery
  <2>6. CASE Head(batch).event = "state" /\ Head(batch).revision >= forwarded
    <3>1. Head(batch).revision \in 1..Len(log)
      BY <1>6, <2>6, Delivery
    <3>2. CASE Head(batch).revision < shown /\ Ignored
      BY <1>0, <2>1, <2>6, <3>1, <3>2 DEF Ignored, Forwarded
    <3>3. CASE Taken(Head(batch).revision)
      BY <2>1, <2>6, <3>3 DEF Taken, Forwarded
    <3> QED
      BY <1>6, <2>6, <3>2, <3>3, Delivery
  <2>7. CASE shown >= forwarded
    <3>1. shown' \in Nat
      BY CountersKeep, <1>0, <2>1
    <3>2. shown' >= forwarded
      BY <1>0, <2>5, <2>7, <3>1
    <3> QED
      BY <2>1, <3>2 DEF Forwarded
  <2> QED
    BY <1>0, <1>a, <2>1, <2>3, <2>4, <2>6, <2>7, TailNews
<1>7. ASSUME NEW t \in threads, Asked(t) \/ Fetch(t)
      PROVE  Forwarded'
  <2>1. UNCHANGED <<forwarded, events, batch, shown>>
    BY <1>7 DEF Asked, Fetch
  <2>2. CASE Asked(t)
    <3>1. PICK ok \in BOOLEAN :
            threads' = (threads \ {t}) \cup {[t EXCEPT !.step = "answers", !.ok = ok]}
      BY <2>2 DEF Asked
    <3>2. [t EXCEPT !.step = "answers", !.ok = ok].step = "answers"
      <4>1. t \in Threads
        BY ThreadsAre DEF ThreadTypes
      <4> QED
        BY <4>1 DEF Threads
    <3>3. \A u \in threads' : u.step = "fetched" => u \in threads
      BY <3>1, <3>2
    <3> QED
      BY <2>1, <3>3, ForwardedFrame
  <2>3. CASE Fetch(t)
    <3>1. [t EXCEPT !.step = "fetched", !.revision = Len(log)].revision = Len(log)
      <4>1. t \in Threads
        BY ThreadsAre DEF ThreadTypes
      <4> QED
        BY <4>1 DEF Threads
    <3>2. \A u \in threads' : u \in threads \/ u.revision = Len(log)
      BY <2>3, <3>1 DEF Fetch
    <3> QED
      BY <2>1, <3>2, ForwardedFrame
  <2> QED
    BY <1>7, <2>2, <2>3
<1>8. ASSUME NEW t \in threads, Answered(t)
      PROVE  Forwarded'
  <2> DEFINE e == [event |-> "control", kind |-> t.kind, value |-> t.value, ok |-> t.ok]
  <2>1. e.event # "state"
    OBVIOUS
  <2> HIDE DEF e
  <2>2. events' = Append(events, e) /\ UNCHANGED <<forwarded, batch, shown>> /\ log' = log
    BY <1>8 DEF Answered, daemon, e
  <2>3. \A u \in threads' : u.step = "fetched" => u \in threads
    <3>1. [t EXCEPT !.step = "fetches"].step = "fetches"
      <4>1. t \in Threads
        BY ThreadsAre DEF ThreadTypes
      <4> QED
        BY <4>1 DEF Threads
    <3> QED
      BY <1>8, <3>1 DEF Answered
  <2>4. CASE shown >= forwarded
    BY <2>2, <2>4 DEF Forwarded
  <2>5. CASE NewsIn(events)
    <3>1. NewsIn(Append(events, e))
      BY <1>0, <2>5, AppendNews
    <3> QED
      BY <2>2, <3>1 DEF Forwarded, NewsIn
  <2>6. CASE NewsIn(batch)
    BY <2>2, <2>6 DEF Forwarded, NewsIn
  <2>7. CASE Fresh
    <3>1. NoNewsIn(Append(events, e))
      BY <1>0, <2>1, <2>7, AppendNews
    <3>2. NoNewsIn(events)' /\ NoNewsIn(batch)'
      BY <2>2, <2>7, <3>1 DEF NoNewsIn
    <3>3. \A u \in threads' : u.step = "fetched" => u.revision > forwarded'
      BY <2>2, <2>3, <2>7
    <3> QED
      BY <2>2, <2>7, <3>2, <3>3 DEF Forwarded
  <2> QED
    BY <1>a, <2>4, <2>5, <2>6, <2>7
<1>9. ASSUME NEW t \in threads, Fetched(t)
      PROVE  Forwarded'
  <2> DEFINE e == [event |-> "state", revision |-> t.revision]
  <2>1. e.event = "state" /\ e.revision = t.revision
    OBVIOUS
  <2> HIDE DEF e
  <2>2. events' = Append(events, e) /\ UNCHANGED <<forwarded, batch, shown>> /\ log' = log
    BY <1>9 DEF Fetched, daemon, e
  <2>3. CASE shown >= forwarded
    BY <2>2, <2>3 DEF Forwarded
  <2>4. CASE NewsIn(events)
    <3>1. NewsIn(Append(events, e))
      BY <1>0, <2>4, AppendNews
    <3> QED
      BY <2>2, <3>1 DEF Forwarded, NewsIn
  <2>5. CASE NewsIn(batch)
    BY <2>2, <2>5 DEF Forwarded, NewsIn
  <2>6. CASE Fresh
    <3>1. t.revision > forwarded
      BY <1>9, <2>6 DEF Fetched
    <3>2. t.revision \in Nat
      BY ThreadIs, <1>0
    <3>3. e.revision >= forwarded
      BY <1>0, <2>1, <3>1, <3>2
    <3>4. NewsIn(Append(events, e))
      BY <1>0, <2>1, <3>3, AppendNews
    <3> QED
      BY <2>2, <3>4 DEF Forwarded, NewsIn
  <2> QED
    BY <1>a, <2>3, <2>4, <2>5, <2>6
<1> QED
  BY <1>1, <1>2, <1>3, <1>4, <1>5, <1>6, <1>7, <1>8, <1>9, StepKinds

-----------------------------------------------------------------------------
(* The invariant holds in every state of the window.                       *)
THEOREM WindowInvariant == WindowSpec => []WindowInv
<1>1. WindowInit => WindowInv
  BY WindowOpens
<1>2. WindowInv /\ [WindowNext]_windowVars => WindowInv'
  <2> SUFFICES ASSUME WindowInv, [WindowNext]_windowVars PROVE WindowInv'
    OBVIOUS
  <2>1. /\ WindowTypes /\ OnTheWay /\ DragsCustom /\ ProfileShown /\ NewestShown
        /\ Forwarded /\ FileFollows
    BY DEF WindowInv
  <2>2. Grows
    BY <2>1, LogKeeps
  <2>3. WindowTypes' /\ OnTheWay' /\ DragsCustom'
    BY <2>1, <2>2, TypesKeep, OnTheWayKeeps, DragsKeep
  <2>4. ProfileShown' /\ NewestShown'
    BY <2>1, <2>2, ProfileKeeps, NewestKeeps
  <2>5. Forwarded' /\ FileFollows'
    BY <2>1, <2>2, ForwardedKeeps, FileKeeps
  <2> QED
    BY <2>3, <2>4, <2>5 DEF WindowInv
<1> QED
  BY <1>1, <1>2, PTL DEF WindowSpec

(* The lighting on file is the one on show, but while an edit is held      *)
(* back.                                                                   *)
THEOREM FileIsFollowed == WindowSpec => []FileFollows
<1>1. WindowInv => FileFollows
  BY DEF WindowInv
<1> QED
  BY <1>1, WindowInvariant, PTL

(* Once all that was published is handled, the window agrees with the      *)
(* daemon: what was forwarded was applied, so the newest state was.        *)
THEOREM WindowAgrees == WindowSpec => []Agrees
<1>1. WindowInv => Agrees
  <2> SUFFICES ASSUME WindowInv, Quiet PROVE Agrees
    BY DEF Agrees
  <2>1. /\ batch = <<>> /\ events = <<>> /\ forwarded = Len(log)
        /\ shown \in 0..Len(log) /\ Len(log) \in Nat /\ 1 <= Len(log)
    BY UiAssumption DEF WindowInv, WindowTypes, Quiet
  <2>2. ~NewsIn(events) /\ ~NewsIn(batch)
    BY <2>1 DEF NewsIn
  <2>3. shown = Len(log)
    BY <2>1, <2>2 DEF WindowInv, Forwarded
  <2>4. model.profile = Current.profile
    BY <2>1, <2>3 DEF WindowInv, ProfileShown, Current, Last
  <2> QED
    BY <2>3, <2>4 DEF WindowInv, NewestShown, Agrees
<1> QED
  BY <1>1, WindowInvariant, PTL
=============================================================================
