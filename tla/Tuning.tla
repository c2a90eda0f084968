------------------------------- MODULE Tuning --------------------------------
(***************************************************************************)
(* The three ways the daemon tunes the CPU itself: the cpufreq limits      *)
(* (crates/victus-hw/src/cpufreq.rs), the Intel package power limits       *)
(* (intel_power_limits in lib.rs) and the Intel voltage offsets            *)
(* (undervolt.rs).  Each checks its request against all of the hardware    *)
(* before its first write, then writes one register after another; a write *)
(* may fail with the ones before it done.  cpufreq limits may be applied   *)
(* twice at once: resume holds the runtime lock, the power loop and the    *)
(* clients the commands lock.                                              *)
(***************************************************************************)
EXTENDS Integers, FiniteSetsExt

CONSTANTS
  CpuPolicies,      (* the cpufreq policies, numbers: in the order of the writes*)
  Speeds,        (* frequencies, positive: the hardware's range              *)
  Appliers,      (* who applies cpufreq limits                               *)
  PowerPackages, (* the powercap packages, numbers: in the order of the writes*)
  Milliwatts,    (* power limits a client may ask for                        *)
  Ranges,        (* of the limits in microwatts, 0 where there is no bound   *)
  Offsets        (* voltage offsets a client may ask for, in mV              *)

ASSUME TuningAssumption ==
  /\ CpuPolicies \subseteq Nat /\ CpuPolicies # {} /\ Speeds \subseteq Nat \ {0}
  /\ \E upper \in Speeds : \A s \in Speeds : s <= upper
  /\ PowerPackages \subseteq Nat /\ Milliwatts \subseteq Nat
  /\ Ranges \subseteq [min : Nat, max : Nat] /\ Offsets \subseteq Int

Limits == [min : Speeds, max : Speeds]
Idle == [stage |-> "idle"]

VARIABLES
  requests,   (* scaling_min_freq and scaling_max_freq as last written       *)
  jobs,       (* the cpufreq application of each applier                     *)
  crossed,    (* two have overlapped, and none has succeeded alone since     *)
  regulator,  (* the power limits and voltage offsets in force, and the range*)
              (* of the limits                                               *)
  attempt     (* the power limits or offsets under way, or their outcome     *)

frequency == <<requests, jobs, crossed>>
mailbox == <<regulator, attempt>>
tuningVars == <<frequency, mailbox>>

-----------------------------------------------------------------------------
(* The files show the requests, the kernel's minimum never past the maximum*)
Shown(p) ==
  [min |-> Min({requests[p].min, requests[p].max}), max |-> requests[p].max]

(* frequency_window: the range that all policies have in common            *)
Window ==
  LET lower == Min(Speeds)
      upper == Max(Speeds)
      minimum == Max({Shown(p).min : p \in CpuPolicies})
      maximum == Min({Shown(p).max : p \in CpuPolicies})
  IN  [min |-> minimum, max |-> Max({minimum, Min({maximum, upper})}),
       lower |-> lower, upper |-> upper]

(* Faulty: the minimum always first.                                       *)
FirstMinimum(min, max) == "min"

(* The limit that goes first: the maximum, if the minimum is past the old  *)
FirstWrite(min, max) == IF min > max THEN "max" ELSE "min"

Busy == \E b \in Appliers : jobs[b].stage = "writing"

(* validate_frequency and the hardware's range refuse before any write;    *)
(* read_policies has the maxima that choose the order.                     *)
StartFrequency(a, limits) ==
  /\ jobs[a] = Idle
  /\ limits.min <= limits.max
  /\ jobs' = [b \in Appliers |->
       IF b = a
       THEN [stage |-> "writing", limits |-> limits, policy |-> Min(CpuPolicies),
             first |-> [p \in CpuPolicies |-> FirstWrite(limits.min, Shown(p).max)],
             second |-> FALSE, alone |-> ~Busy]
       ELSE IF jobs[b] = Idle THEN Idle ELSE [jobs[b] EXCEPT !.alone = FALSE]]
  /\ crossed' = (crossed \/ Busy)
  /\ UNCHANGED <<requests, mailbox>>

Writing(job) ==
  IF job.second THEN (IF job.first[job.policy] = "min" THEN "max" ELSE "min")
  ELSE job.first[job.policy]

(* The second limit of this policy, the first of the next one, or the end  *)
Onward(job) ==
  LET later == {p \in CpuPolicies : p > job.policy}
  IN  IF ~job.second THEN [job EXCEPT !.second = TRUE]
      ELSE IF later = {} THEN [job EXCEPT !.stage = "done"]
      ELSE [job EXCEPT !.policy = Min(later), !.second = FALSE]

WriteFrequency(a) ==
  /\ jobs[a].stage = "writing"
  /\ LET job == jobs[a]
     IN  /\ requests' = [requests EXCEPT
                           ![job.policy][Writing(job)] = job.limits[Writing(job)]]
         /\ jobs' = [jobs EXCEPT ![a] = Onward(job)]
         /\ crossed' = (crossed /\ ~(job.alone /\ Onward(job).stage = "done"))
  /\ UNCHANGED mailbox

FrequencyFails(a) ==
  /\ jobs[a].stage = "writing"
  /\ jobs' = [jobs EXCEPT ![a] = [@ EXCEPT !.stage = "failed"]]
  /\ UNCHANGED <<requests, crossed, mailbox>>

(* The answer is given.                                                    *)
FrequencyOver(a) ==
  /\ jobs[a].stage \in {"done", "failed"}
  /\ jobs' = [jobs EXCEPT ![a] = Idle]
  /\ UNCHANGED <<requests, crossed, mailbox>>

-----------------------------------------------------------------------------
(* (mv * 1.024).round(), half away from zero                               *)
Encoded(mv) ==
  IF mv < 0 THEN -((-mv * 1024 + 500) \div 1000) ELSE (mv * 1024 + 500) \div 1000

(* The sign of the 11 bits of the mailbox                                  *)
Decoded(raw) == IF raw >= 1024 THEN raw - 2048 ELSE raw

(* The two domains of the mailbox, and three files of each package         *)
Voltages == [name : {"core", "cache"}, package : {0}]
PowerFiles == [name : {"pl1", "pl2", "enabled"}, package : PowerPackages]
Registers == Voltages \cup PowerFiles

NoFile == -1     (* where a package has no file enabled *)

(* validate_undervolt and validate_intel_power                             *)
Valid(plan) ==
  IF plan.kind = "offsets"
  THEN plan.core \in -250..0 /\ plan.cache \in -250..0
  ELSE plan.pl1 \in 15000..plan.pl2 /\ plan.pl2 <= 120000

(* What goes to the register: 11 bits, microwatts, or that limits apply    *)
Word(plan, r) ==
  IF plan.kind = "offsets" THEN Encoded(plan[r.name]) % 2048
  ELSE IF r.name = "enabled" THEN 1 ELSE plan[r.name] * 1000

(* The registers a plan is about, and of these the ones to write: limits   *)
(* are switched on where there is a switch and it is off.                  *)
Concerned(plan) == IF plan.kind = "offsets" THEN Voltages ELSE PowerFiles

Targets(plan) ==
  {r \in Concerned(plan) : r.name = "enabled" => regulator.value[r] \notin {NoFile, 1}}

(* writes: package by package, and in one package in this order            *)
Position == [core |-> 0, cache |-> 1, pl1 |-> 0, pl2 |-> 1, enabled |-> 2]

Earlier(q, r) ==
  \/ q.package < r.package
  \/ q.package = r.package /\ Position[q.name] < Position[r.name]

(* tolerance: what the firmware may round a power limit by, in microwatts. *)
Tolerance == 125000

(* Whether what is read back is what was asked for: the offset itself, a   *)
(* limit within the firmware's rounding, or the switch                     *)
ReadsBack(plan, r, word) ==
  IF plan.kind = "offsets" THEN Decoded(word) = Encoded(plan[r.name])
  ELSE IF r.name = "enabled" THEN word = 1
  ELSE word - plan[r.name] * 1000 \in -Tolerance..Tolerance

WithinRange(microwatts) ==
  /\ regulator.range.min > 0 => microwatts >= regulator.range.min
  /\ regulator.range.max > 0 => microwatts <= regulator.range.max

(* What is looked at before anything is written, while the registers       *)
(* answer: there is something to write, and limits are within the range.   *)
Probes(plan) ==
  /\ Targets(plan) # {}
  /\ plan.kind = "limits" =>
       WithinRange(plan.pl1 * 1000) /\ WithinRange(plan.pl2 * 1000)

StartAttempt(plan) ==
  /\ attempt.stage # "writing"
  /\ \E answers \in BOOLEAN :
       attempt' = [stage |-> IF Valid(plan) /\ answers /\ Probes(plan) THEN "writing"
                             ELSE "refused",
                   plan |-> plan, todo |-> Targets(plan), fault |-> FALSE]
  /\ UNCHANGED <<frequency, regulator>>

(* The firmware takes the word, rounds a power limit, or keeps what it has.*)
Taken(plan, r) ==
  {regulator.value[r], Word(plan, r)}
    \cup IF r.name \in {"pl1", "pl2"} THEN {Word(plan, r) - Tolerance} ELSE {}

(* The next register is written and read back; either may fail.            *)
(* fault: the firmware did not do as it was told.                          *)
WriteRegister ==
  /\ attempt.stage = "writing"
  /\ \E r \in attempt.todo :
       /\ \A q \in attempt.todo : ~Earlier(q, r)
       /\ \E word \in Taken(attempt.plan, r), answers \in BOOLEAN :
            /\ regulator' = [regulator EXCEPT !.value[r] = word]
            /\ attempt' = [attempt EXCEPT
                 !.stage = IF ~answers \/ ~ReadsBack(attempt.plan, r, word) THEN "failed"
                           ELSE IF attempt.todo = {r} THEN "ok" ELSE "writing",
                 !.todo = @ \ {r},
                 !.fault = ~answers \/ word = regulator.value[r]]
  /\ UNCHANGED frequency

TuningInit ==
  /\ requests \in [CpuPolicies -> {l \in Limits : l.min <= l.max}]
  /\ jobs = [a \in Appliers |-> Idle] /\ crossed = FALSE
  /\ \E switches \in [PowerPackages -> {NoFile, 0, 1}], range \in Ranges :
       regulator = [value |-> [r \in Registers |->
                                 IF r.name = "enabled" THEN switches[r.package] ELSE 0],
                    range |-> range]
  /\ attempt = [stage |-> "none"]

FrequencyNext ==
  \E a \in Appliers :
    \/ \E limits \in Limits : StartFrequency(a, limits)
    \/ WriteFrequency(a) \/ FrequencyFails(a) \/ FrequencyOver(a)

OffsetPlans == [kind : {"offsets"}, core : Offsets, cache : Offsets]
LimitPlans == [kind : {"limits"}, pl1 : Milliwatts, pl2 : Milliwatts]

MailboxNext(plans) ==
  \/ \E plan \in plans : StartAttempt(plan)
  \/ WriteRegister

TuningNext == FrequencyNext \/ MailboxNext(OffsetPlans \cup LimitPlans)

TuningSpec == TuningInit /\ [][TuningNext]_tuningVars

-----------------------------------------------------------------------------
(* The cpufreq minimum written is never past the maximum written, whatever *)
(* the limits before and wherever a write fails, unless two applications   *)
(* have crossed; and one that succeeds alone leaves its limits in force in *)
(* all policies, which the window shown to the user then says.             *)
LimitsOrdered ==
  /\ ~crossed => \A p \in CpuPolicies : requests[p].min <= requests[p].max
  /\ \A a \in Appliers :
       jobs[a].stage = "done" /\ jobs[a].alone =>
          /\ \A p \in CpuPolicies : requests[p] = jobs[a].limits
          /\ Window.min = jobs[a].limits.min /\ Window.max = jobs[a].limits.max

(* The register is as the plan wants it.                                   *)
Holds(plan, r, word) ==
  IF plan.kind = "offsets" THEN word = Encoded(plan[r.name]) % 2048
  ELSE IF r.name = "enabled" THEN word \in {NoFile, 1}
  ELSE word - plan[r.name] * 1000 \in -Tolerance..Tolerance

(* Voltage offsets reported as applied are in force in both domains, and   *)
(* power limits in every package and switched on, though the firmware may  *)
(* lock a register between the probe and the write, keep the old value in  *)
(* silence or round; and what the firmware takes is not reported as        *)
(* failed, for every sign and rounding.                                    *)
AppliedAsReported ==
  /\ attempt.stage = "ok" =>
       \A r \in Concerned(attempt.plan) : Holds(attempt.plan, r, regulator.value[r])
  /\ attempt.stage = "failed" => attempt.fault

(* What the daemon reports of a tuning request is what the hardware is in. *)
TuningTrue == LimitsOrdered /\ AppliedAsReported
=============================================================================
