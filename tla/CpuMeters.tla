------------------------------ MODULE CpuMeters ------------------------------
(***************************************************************************)
(* The two meters of the daemon that need an earlier sample: the package   *)
(* power from the RAPL energy counter (crates/victus-hw/src/rapl.rs) and   *)
(* the CPU usage from the ticks of /proc/stat (sensors.rs).  Every client  *)
(* that asks reads through the same samplers, so one client's sample is    *)
(* the earlier sample of the next one.  used, busy and idle keep what      *)
(* really happened since the sample before.                                *)
(***************************************************************************)
EXTENDS Integers, FiniteSetsExt

CONSTANTS
  Packages,   (* the RAPL packages, numbers: the first by name is read       *)
  EnergyRange, (* where the energy counter wraps                              *)
  MaxTicks    (* bound: the ticks between two samples, and the time          *)

ASSUME MetersAssumption ==
  /\ Packages # {} /\ Packages \subseteq Nat
  /\ EnergyRange \in Nat \ {0} /\ MaxTicks \in Nat \ {0}

None == -1
Unavailable == [kind |-> "unavailable"]
Sampling == [kind |-> "sampling"]

VARIABLES
  present,    (* the packages sysfs shows                                    *)
  counter,    (* energy_uj of each package                                   *)
  used,       (* the energy each has used since the last sample, up to EnergyRange *)
  passed,     (* the time since the last sample                              *)
  previous,   (* RaplSampler.previous: package (or None), energy and range   *)
  power,      (* the last answer, with what is true of it                    *)
  ticks,      (* idle, iowait and busy ticks since the last reading          *)
  ticked,     (* SensorSampler.previous_ticks holds a reading                *)
  usage       (* the last answer, with what is true of it                    *)

rapl == <<present, counter, used, passed, previous, power>>
stat == <<ticks, ticked, usage>>
metersVars == <<rapl, stat>>

(* rapl_package: the first package by name                                 *)
Package == Min(present)

(* max_range.or(old_max)                                                   *)
Wrap(range, old) == IF range # None THEN range ELSE old

Delta(energy, range) ==
  IF energy >= previous.energy \/ Wrap(range, previous.range) = None
  THEN energy - previous.energy
  ELSE energy - previous.energy + Wrap(range, previous.range)

(* Faulty: a package that took the place of another counts on.             *)
ComparableAlways(package) == previous.package # None

Comparable(package) == previous.package = package

PowerSample(package, energy, range) ==
  IF ~Comparable(package) THEN Sampling
  ELSE IF passed = 0 \/ Delta(energy, range) < 0 THEN Unavailable
  ELSE [kind |-> "watts", energy |-> Delta(energy, range), time |-> passed]

(* RaplSampler::read.  The range may be unreadable for this once.          *)
ReadPower(range) ==
  /\ power' = [sample |-> PowerSample(Package, counter[Package], range),
               used |-> used[Package], time |-> passed]
  /\ previous' = [package |-> Package, energy |-> counter[Package],
                  range |-> range]
  /\ used' = [p \in Packages |-> 0] /\ passed' = 0
  /\ UNCHANGED <<present, counter, stat>>

(* No package, or no energy in it: the sample before is kept.              *)
ReadPowerFails ==
  /\ power' = [sample |-> Unavailable, used |-> 0, time |-> passed]
  /\ UNCHANGED <<present, counter, used, passed, previous, stat>>

(* The package and the counter, as the kernel has them                     *)
Uses(p, amount) ==
  /\ used' = [used EXCEPT ![p] = Min({@ + amount, EnergyRange})]
  /\ counter' = [counter EXCEPT ![p] = (@ + amount) % EnergyRange]
  /\ UNCHANGED <<present, passed, previous, power, stat>>

Appears(packages) ==
  /\ present' = packages
  /\ UNCHANGED <<counter, used, passed, previous, power, stat>>

Passes ==
  /\ passed < MaxTicks
  /\ passed' = passed + 1
  /\ UNCHANGED <<present, counter, used, previous, power, stat>>

-----------------------------------------------------------------------------
Saturating(n) == IF n < 0 THEN 0 ELSE n

IdleTicks == ticks.idle + ticks.iowait

TotalDelta == Saturating(IdleTicks + ticks.busy)
IdleDelta == Saturating(IdleTicks)

(* cpu_usage: the share of the time that was not idle, as a fraction       *)
ReadUsage ==
  /\ usage' = [known |-> ticked /\ TotalDelta # 0,
               busy |-> TotalDelta - IdleDelta, total |-> TotalDelta,
               true |-> ticks]
  /\ ticked' = TRUE
  /\ ticks' = [idle |-> 0, iowait |-> 0, busy |-> 0]
  /\ UNCHANGED rapl

(* /proc/stat does not parse: the reading before is kept.                  *)
ReadUsageFails ==
  /\ usage' = [usage EXCEPT !.known = FALSE]
  /\ UNCHANGED <<ticks, ticked, rapl>>

(* proc(5): iowait may decrease.                                           *)
Ticks(idle, iowait, busy) ==
  /\ ticks' = [idle |-> ticks.idle + idle, iowait |-> ticks.iowait + iowait,
               busy |-> ticks.busy + busy]
  /\ ticks'.idle <= MaxTicks /\ ticks'.iowait \in -MaxTicks..MaxTicks
  /\ ticks'.busy <= MaxTicks
  /\ UNCHANGED <<ticked, usage, rapl>>

MetersInit ==
  /\ present \in SUBSET Packages
  /\ counter \in [Packages -> 0..EnergyRange - 1]
  /\ used = [p \in Packages |-> 0] /\ passed = 0
  /\ previous = [package |-> None, energy |-> 0, range |-> None]
  /\ power = [sample |-> Unavailable, used |-> 0, time |-> 0]
  /\ ticks = [idle |-> 0, iowait |-> 0, busy |-> 0]
  /\ ticked = FALSE
  /\ usage = [known |-> FALSE, busy |-> 0, total |-> 0, true |-> ticks]

RaplNext ==
  \/ present # {} /\ \E range \in {None, EnergyRange} : ReadPower(range)
  \/ ReadPowerFails
  \/ \E p \in Packages : \E amount \in 1..EnergyRange : Uses(p, amount)
  \/ \E packages \in SUBSET Packages : Appears(packages)
  \/ Passes

StatNext ==
  \/ ReadUsage \/ ReadUsageFails
  \/ \E idle, busy \in 0..1 : \E iowait \in -1..1 : Ticks(idle, iowait, busy)

(* Both meters of the daemon, each read whenever a client asks.            *)
MetersSpec == MetersInit /\ [][RaplNext \/ StatNext]_metersVars

-----------------------------------------------------------------------------
(* What is shown as watts is the energy the package used since the last    *)
(* sample, over the time since then: across a wrap of the counter, packages*)
(* that come and go, samples of other clients and ranges that could not be *)
(* read, unless the counter went round altogether.                         *)
PowerTrue ==
  power.sample.kind = "watts" =>
    /\ power.sample.energy >= 0 /\ power.sample.time > 0
    /\ power.used < EnergyRange =>
         power.sample.energy = power.used /\ power.sample.time = power.time

(* The usage shown is a share between nothing and all, and the true one    *)
(* when the idle ticks did not run backwards.                              *)
UsageTrue ==
  usage.known =>
    /\ usage.busy \in 0..usage.total
    /\ LET idle == usage.true.idle + usage.true.iowait
       IN  idle >= 0 => /\ usage.busy = usage.true.busy
                        /\ usage.total = usage.true.busy + idle

MetersTrue == PowerTrue /\ UsageTrue
=============================================================================
