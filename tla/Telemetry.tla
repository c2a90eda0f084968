------------------------------ MODULE Telemetry ------------------------------
(***************************************************************************)
(* How the window gets its readings: a thread (crates/victus-hub/src/ui/   *)
(* host.rs) asks the daemon once a second for what the page and the open   *)
(* charts show, sleeps while nothing is shown, and is told of every change *)
(* through a generation counter under a lock; the main thread (view.rs) is *)
(* woken by a byte in a pipe and takes the last update.  The daemon        *)
(* samples only what it is asked for (sensors.rs, system.rs).              *)
(***************************************************************************)
EXTENDS Sequences, SequencesExt, FiniteSetsExt, Naturals

CONSTANTS
  Keys,        (* what the daemon can sample                                 *)
  GpuKeys,     (* the ones that a sleeping or disabled GPU does not answer   *)
  PageKeys,    (* keys_for_page: the keys of each page                       *)
  Charted,     (* the keys (request_key_for_graph) a chart may show          *)
  Hardwares,   (* what the sensors do: the ones that read, a dark GPU or not *)
  Depth        (* of the channel to the main thread                          *)

ASSUME TelemetryAssumption ==
  /\ GpuKeys \subseteq Keys /\ Charted \subseteq Keys
  /\ \A p \in DOMAIN PageKeys : PageKeys[p] \subseteq Keys
  /\ Hardwares \subseteq [gauges : SUBSET Keys, dark : BOOLEAN]
  /\ Depth \in Nat \ {0}

VARIABLES
  page, visible, quitting, charts,   (* what the main thread stores          *)
  owed,       (* it has stored and not yet called notify_sensors             *)
  changed,    (* the generation is not the one the thread took               *)
  thread,     (* where the thread is                                         *)
  job,        (* its locals: the keys to ask for (none unless active and     *)
              (* requested), what the daemon answered, and had_requests      *)
  channel,    (* the updates on their way: keys and readings                 *)
  woken,      (* a byte is in the pipe                                       *)
  up,         (* the daemon answers                                          *)
  displayed,  (* the keys its GPU monitor and samplers are asked to keep     *)
  hardware,   (* the sensors that read, and whether the GPU is dark          *)
  shown       (* Model.snapshot                                              *)

stores == <<page, visible, quitting, charts>>
ui == <<stores, owed>>
update == <<channel, woken>>
daemon == <<up, displayed, hardware>>
telemetryVars == <<ui, changed, thread, job, update, daemon, shown>>

(* What the user is looking at                                             *)
InSight == IF visible /\ ~quitting THEN PageKeys[page] \cup charts ELSE {}

-----------------------------------------------------------------------------
(* A callback of the main thread stores, and then notifies: show_page;     *)
(* reveal, hide and minimise; quit; Charts::open and remove.               *)
Stores ==
  /\ ~owed /\ ~quitting /\ owed' = TRUE
  /\ \/ page' \in DOMAIN PageKeys \ {page} /\ UNCHANGED <<visible, quitting, charts>>
     \/ visible' = ~visible /\ UNCHANGED <<page, quitting, charts>>
     \/ quitting' = TRUE /\ visible' = FALSE /\ UNCHANGED <<page, charts>>
     \/ \E k \in Charted : charts' = SymDiff(charts, {k})
                           /\ UNCHANGED <<page, visible, quitting>>
  /\ UNCHANGED <<changed, thread, job, update, daemon, shown>>

(* notify_sensors and Charts::publish                                      *)
NotifySensors ==
  /\ owed /\ owed' = FALSE
  /\ changed' = TRUE
  /\ thread' = IF thread \in {"timed", "parked"} THEN "gate" ELSE thread
  /\ UNCHANGED <<stores, job, update, daemon, shown>>

-----------------------------------------------------------------------------
(* The thread.                                                             *)
(* Under the lock: the generation, and whether the window is in sight      *)
Gate ==
  /\ thread = "gate"
  /\ thread' = IF quitting THEN "ended"
               ELSE IF visible THEN "page"
               ELSE IF job.had THEN "release" ELSE "decide"
  /\ changed' = FALSE /\ job' = [job EXCEPT !.keys = {}]
  /\ UNCHANGED <<ui, update, daemon, shown>>

LoadPage ==
  /\ thread = "page"
  /\ thread' = "keys" /\ job' = [job EXCEPT !.keys = PageKeys[page]]
  /\ UNCHANGED <<ui, changed, update, daemon, shown>>

(* sensor_request_with: the keys of the page, and those of the charts      *)
LoadKeys ==
  /\ thread = "keys"
  /\ LET keys == job.keys \cup charts
     IN  /\ job' = [job EXCEPT !.keys = keys, !.had = @ \/ keys # {}]
         /\ thread' = IF keys # {} THEN "ask"
                      ELSE IF job.had THEN "release" ELSE "decide"
  /\ UNCHANGED <<ui, changed, update, daemon, shown>>

(* A sensor that reads nothing, or nothing sensible, is unavailable.       *)
Gauge(k) == IF k \in hardware.gauges THEN "value" ELSE "unavailable"

(* fill_gpu: a GPU that is dark answers so, without being touched.         *)
GpuReading(k) == IF hardware.dark THEN "dark" ELSE Gauge(k)

Reading(k) == IF k \in GpuKeys THEN GpuReading(k) ELSE Gauge(k)

(* SensorSnapshot::default: what was not asked for looks unavailable.      *)
Blank == [k \in Keys |-> "unavailable"]

(* SensorSampler::read                                                     *)
Sampled(keys) == [k \in Keys |-> IF k \in keys THEN Reading(k) ELSE Blank[k]]

(* The daemon samples the keys of the request and no other, and keeps them *)
(* on display; a call that fails has reached it or not.                    *)
Ask ==
  /\ thread = "ask"
  /\ \/ /\ up /\ thread' = "answered" /\ displayed' = job.keys
        /\ job' = [job EXCEPT !.answer = Sampled(job.keys)]
     \/ /\ ~up /\ thread' = "decide" /\ UNCHANGED <<job, displayed>>
  /\ UNCHANGED <<ui, changed, update, up, hardware, shown>>

(* The answer arrives: an update that finds the channel full is dropped.   *)
Answered ==
  /\ thread = "answered"
  /\ job' = [job EXCEPT !.answer = Blank]
  /\ IF up /\ Len(channel) < Depth
     THEN /\ channel' = Append(channel, [keys |-> job.keys, readings |-> job.answer])
          /\ thread' = "wake"
     ELSE thread' = "decide" /\ UNCHANGED channel
  /\ UNCHANGED <<ui, changed, woken, daemon, shown>>

WakeMain ==
  /\ thread = "wake"
  /\ woken' = TRUE /\ thread' = "decide"
  /\ UNCHANGED <<ui, changed, job, channel, daemon, shown>>

(* "sensors" without keys, once after a request: a lost call is left to    *)
(* the display's own expiry.                                               *)
Release ==
  /\ thread = "release"
  /\ thread' = "decide" /\ job' = [job EXCEPT !.had = FALSE]
  /\ displayed' = IF up THEN {} ELSE displayed
  /\ UNCHANGED <<ui, changed, update, up, hardware, shown>>

Waits ==
  IF job.keys # {} /\ visible THEN "timed" ELSE "parked"

(* Faulty: a notification that came while the thread was at work is lost.  *)
DecideBlind ==
  /\ thread = "decide"
  /\ thread' = IF quitting THEN "ended" ELSE Waits
  /\ UNCHANGED <<ui, changed, job, update, daemon, shown>>

(* Under the lock: around again if the generation moved, or the wait.        *)
Decide ==
  /\ thread = "decide"
  /\ thread' = IF quitting THEN "ended" ELSE IF changed THEN "gate" ELSE Waits
  /\ UNCHANGED <<ui, changed, job, update, daemon, shown>>

TimerExpires ==
  /\ thread = "timed" /\ thread' = "gate"
  /\ UNCHANGED <<ui, changed, job, update, daemon, shown>>

Thread ==
  Gate \/ LoadPage \/ LoadKeys \/ Ask \/ Answered \/ WakeMain \/ Release
  \/ Decide \/ TimerExpires

-----------------------------------------------------------------------------
Covers(u) == PageKeys[page] \subseteq u.keys

(* merge_snapshot: of what was asked for.                                  *)
Merged(u) == [k \in Keys |-> IF k \in u.keys THEN u.readings[k] ELSE shown[k]]

(* on_tick, for the byte or for a timer: only the last update counts, and  *)
(* only if it has what the page shows.                                     *)
OnTick ==
  /\ ~owed /\ ~quitting
  /\ woken \/ channel # <<>>
  /\ woken' \in {FALSE, woken}
  /\ channel' = <<>>
  /\ shown' = IF channel # <<>> /\ Covers(Last(channel))
              THEN Merged(Last(channel)) ELSE shown
  /\ UNCHANGED <<ui, changed, thread, job, daemon>>

(* The daemon ends or starts; three seconds pass without a request; the    *)
(* sensors change: external.                                               *)
Restarts ==
  /\ up' = ~up /\ displayed' = {}
  /\ UNCHANGED <<ui, changed, thread, job, update, hardware, shown>>

Expires ==
  /\ displayed # {} /\ thread \in {"parked", "ended"}
  /\ displayed' = {}
  /\ UNCHANGED <<ui, changed, thread, job, update, up, hardware, shown>>

Changes(h) ==
  /\ hardware' = h
  /\ UNCHANGED <<ui, changed, thread, job, update, up, displayed, shown>>

TelemetryInit ==
  /\ page \in DOMAIN PageKeys /\ visible = TRUE /\ quitting = FALSE
  /\ charts = {} /\ owed = FALSE
  /\ changed = TRUE /\ thread = "gate"
  /\ job = [keys |-> {}, answer |-> Blank, had |-> FALSE]
  /\ channel = <<>> /\ woken = FALSE
  /\ up = TRUE /\ displayed = {} /\ hardware \in Hardwares
  /\ shown = Blank

TelemetryNext ==
  \/ Stores \/ NotifySensors \/ Thread \/ OnTick \/ Restarts \/ Expires
  \/ \E h \in Hardwares : Changes(h)

-----------------------------------------------------------------------------
(* Everything the user does with the window and the world does is over.    *)
Steady == <>[][UNCHANGED <<stores, up, hardware>>]_telemetryVars

(* What is in sight is up to date: once the page, the charts, the daemon   *)
(* and the sensors stay as they are, every reading on the page and in the  *)
(* charts becomes the true one.  No notification is lost between the       *)
(* thread's reads and its wait, and no late update of another page stays.  *)
PageServed ==
  Steady /\ <>[](up /\ ~quitting) =>
    <>[](\A k \in InSight : shown[k] = Reading(k))

(* Nothing is sampled for nobody: once nothing is in sight the thread does *)
(* not even wake, and the daemon keeps nothing on display.                   *)
NothingForNobody ==
  Steady /\ <>[](InSight = {}) =>
    <>[](thread \in {"parked", "ended"} /\ displayed = {})
=============================================================================
