----------------------------- MODULE GpuMonitor ------------------------------
(***************************************************************************)
(* The one NVIDIA session of the daemon (crates/victus-hubd/src/gpu.rs):   *)
(* the runtime and the fan loop tell the monitor their policy, sensor      *)
(* requests what they display, and a worker queries the GPU once a second  *)
(* while anything is wanted, or releases it and waits on a condition       *)
(* variable.  An action is what runs under one hold of a lock.             *)
(***************************************************************************)
EXTENDS Integers

CONSTANTS
  Fields,     (* what a sensor request can ask of the GPU                    *)
  Lifetime    (* of a display request and of a sample, in ticks              *)

ASSUME MonitorAssumption ==
  "temp" \in Fields /\ Lifetime \in Nat \ {0}

(* fan: the curve needs the GPU's temperature; off: queries are disabled   *)
(* or the machine sleeps, which the monitor treats alike                   *)
Policies == [fan : BOOLEAN, off : BOOLEAN]

NoSample == [fields |-> {}, age |-> 0, taken |-> FALSE]
Samples == [fields : SUBSET Fields, age : 0..Lifetime + 1, taken : BOOLEAN]

VARIABLES
  runtime,    (* the policy as the runtime's state implies it                *)
  copy,       (* the policy that the fan loop has read                       *)
  polling,    (* the fan loop has read it and not yet passed it on           *)
  policy,     (* Demand.fan, disabled and suspended                          *)
  display,    (* Demand.display                                              *)
  left,       (* the time until Demand.expires, 0 when past or None          *)
  moved,      (* Demand.revision is not the one the worker took              *)
  stopped,    (* Demand.stopped                                              *)
  worker,     (* where the worker is                                         *)
  asked,      (* the fields of the query under way                           *)
  session,    (* the NVIDIA session is open                                  *)
  sample      (* GpuMonitor.sample                                           *)

fanLoop == <<copy, polling>>
demand == <<policy, display, left, stopped>>
gpu == <<asked, session, sample>>
vars == <<runtime, fanLoop, demand, moved, worker, gpu>>

(* What the worker would ask for now.                                      *)
Wanted ==
  IF policy.off THEN {}
  ELSE (IF left = 0 THEN {} ELSE display)
         \cup (IF policy.fan THEN {"temp"} ELSE {})

(* A new revision and notify_one: only the worker ever waits.              *)
Notify ==
  /\ moved' = TRUE
  /\ worker' = IF worker \in {"parked", "waiting"} THEN "looking" ELSE worker

-----------------------------------------------------------------------------
(* Faulty: only a change of the fan's need is noticed.                     *)
PolicyOfFans(p) ==
  /\ IF p.fan # policy.fan THEN policy' = p /\ Notify
     ELSE UNCHANGED <<policy, moved, worker>>
  /\ UNCHANGED <<display, left, stopped, gpu>>

Policy(p) ==
  /\ IF p # policy THEN policy' = p /\ Notify
     ELSE UNCHANGED <<policy, moved, worker>>
  /\ UNCHANGED <<display, left, stopped, gpu>>

(* Settings, profiles, sleep and resume change the state and call          *)
(* sync_gpu_policy under one hold of the runtime lock.                     *)
RuntimeSyncs(p) ==
  /\ runtime' = p
  /\ Policy(p)
  /\ UNCHANGED fanLoop

(* The fan loop reads the policy under the runtime lock and passes it on   *)
(* after giving the lock up.                                               *)
PollReads ==
  /\ ~polling
  /\ polling' = TRUE /\ copy' = runtime
  /\ UNCHANGED <<runtime, demand, moved, worker, gpu>>

PollPasses ==
  /\ polling
  /\ polling' = FALSE
  /\ Policy(copy)
  /\ UNCHANGED <<runtime, copy>>

Expiry(fields) == IF fields = {} THEN 0 ELSE Lifetime

Display(fields) ==
  /\ display' = fields
  /\ left' = Expiry(fields)
  /\ IF fields # display \/ (fields # {} /\ left = 0) THEN Notify
     ELSE UNCHANGED <<moved, worker>>
  /\ UNCHANGED <<runtime, fanLoop, policy, stopped, gpu>>

(* stop notifies without a new revision.                                   *)
Stop ==
  /\ stopped' = TRUE
  /\ worker' = IF worker \in {"parked", "waiting"} THEN "looking" ELSE worker
  /\ UNCHANGED <<runtime, fanLoop, policy, display, left, moved, gpu>>

-----------------------------------------------------------------------------
(* The worker, between its locks                                           *)
Looks ==
  /\ worker = "looking"
  /\ \/ stopped /\ worker' = "ended" /\ UNCHANGED <<display, moved, asked>>
     \/ /\ ~stopped
        /\ display' = IF left = 0 THEN {} ELSE display
        /\ asked' = Wanted
        /\ IF Wanted = {} THEN worker' = "releasing" /\ moved' = FALSE
           ELSE worker' = "querying" /\ UNCHANGED moved
  /\ UNCHANGED <<runtime, fanLoop, policy, left, stopped, session, sample>>

Releases ==
  /\ worker = "releasing"
  /\ session' = FALSE /\ sample' = NoSample
  /\ worker' = "deciding"
  /\ UNCHANGED <<runtime, fanLoop, demand, moved, asked>>

(* Faulty: waits without comparing the revisions.                          *)
ParksAnyway == IF stopped THEN "ended" ELSE "parked"

Parks == IF stopped THEN "ended" ELSE IF moved THEN "looking" ELSE "parked"

Decides ==
  /\ worker = "deciding"
  /\ worker' = Parks
  /\ UNCHANGED <<runtime, fanLoop, demand, moved, gpu>>

(* nvidia_fields keeps no session of a GPU that sleeps.                    *)
Queries ==
  /\ worker = "querying"
  /\ session' \in BOOLEAN
  /\ sample' = [fields |-> asked, age |-> 0, taken |-> TRUE]
  /\ worker' = "resting"
  /\ UNCHANGED <<runtime, fanLoop, demand, moved, asked>>

Rests ==
  /\ worker = "resting"
  /\ worker' = IF stopped THEN "ended" ELSE "waiting"
  /\ UNCHANGED <<runtime, fanLoop, demand, moved, gpu>>

(* The one second of wait_timeout is over.                                 *)
WaitEnds ==
  /\ worker = "waiting"
  /\ worker' = "looking"
  /\ UNCHANGED <<runtime, fanLoop, demand, moved, gpu>>

Worker == Looks \/ Releases \/ Decides \/ Queries \/ Rests \/ WaitEnds

(* A condition variable may wake its waiter for no reason.                 *)
WakesSpuriously ==
  /\ worker = "parked"
  /\ worker' = "looking"
  /\ UNCHANGED <<runtime, fanLoop, demand, moved, gpu>>

Tick ==
  /\ left' = IF left = 0 THEN 0 ELSE left - 1
  /\ sample' = [sample EXCEPT !.age =
                  IF sample.taken /\ @ <= Lifetime THEN @ + 1 ELSE @]
  /\ UNCHANGED <<runtime, fanLoop, policy, display, stopped, moved, worker,
                 asked, session>>

Init ==
  /\ runtime \in Policies /\ copy = runtime /\ polling = FALSE
  /\ policy = [fan |-> FALSE, off |-> FALSE]
  /\ display = {} /\ left = 0 /\ stopped = FALSE /\ moved = FALSE
  /\ worker = "looking"
  /\ asked = {} /\ session = FALSE /\ sample = NoSample

FanLoop == PollReads \/ PollPasses

Next ==
  \/ \E p \in Policies : RuntimeSyncs(p)
  \/ FanLoop
  \/ \E fields \in SUBSET Fields : Display(fields)
  \/ Stop
  \/ Worker \/ WakesSpuriously
  \/ Tick

Spec == Init /\ [][Next]_vars

(* The worker and the fan loop run, each in a thread of its own.           *)
FairSpec == Spec /\ WF_vars(Worker) /\ WF_vars(FanLoop)

-----------------------------------------------------------------------------
(* What the variables hold.                                                *)
TypeOK ==
  /\ runtime \in Policies /\ copy \in Policies /\ policy \in Policies
  /\ polling \in BOOLEAN
  /\ display \subseteq Fields /\ left \in 0..Lifetime
  /\ moved \in BOOLEAN /\ stopped \in BOOLEAN
  /\ worker \in {"looking", "releasing", "deciding", "querying", "resting",
                 "parked", "waiting", "ended"}
  /\ asked \subseteq Fields
  /\ session \in BOOLEAN
  /\ sample \in Samples

(* No wake-up is lost: the worker waits without a timeout only when nothing*)
(* is wanted and nobody has stopped it, though demands come in between its *)
(* look at them and the wait; and then the GPU is released.                *)
ParkedIdle ==
  worker = "parked" => ~stopped /\ Wanted = {} /\ ~session /\ ~sample.taken

(* A policy the fan loop read before a change and passed on after it does  *)
(* not stay: a policy that lasts reaches the monitor and stays there.      *)
PolicyReaches ==
  \A p \in Policies : <>[](runtime = p) => <>[](policy = p)

(* A temperature that stays wanted is sampled again and again.             *)
TempServed ==
  <>[]("temp" \in Wanted /\ ~stopped)
    => []<>(sample.taken /\ "temp" \in sample.fields /\ sample.age <= Lifetime)

(* A GPU that nobody wants any more is let sleep.                          *)
GpuReleased == <>[](Wanted = {}) => <>[](~session \/ worker = "ended")

(* The worker ends after stop, wherever stop finds it.                     *)
WorkerEnds == stopped ~> worker = "ended"

(* What is asked of the monitor is done in the end: a policy that lasts,   *)
(* samples of what stays wanted, the release of what does not, and stop.   *)
WorkerServes == PolicyReaches /\ TempServed /\ GpuReleased /\ WorkerEnds
=============================================================================
