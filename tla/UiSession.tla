------------------------------ MODULE UiSession ------------------------------
(***************************************************************************)
(* The window of crates/victus-hub/src/ui: the model that its main thread  *)
(* shows and edits, the edits it holds back for a moment before it pushes  *)
(* them, the requests its control threads make for it, and the states of   *)
(* the daemon it is told of, by the event stream and by a control thread   *)
(* that changed the profile.  The main thread handles one callback at a    *)
(* time; a wake-up takes all events queued so far and then handles them in *)
(* turn, while the daemon, other clients and the threads go on.            *)
(*                                                                         *)
(* One value stands for the fields of a setting that are handled alike:    *)
(* light for those of the lighting, curve for the fan points and response, *)
(* flag for the three switches, power for the limits of the policy.  A     *)
(* revision is the index of a state in log; EventStream models lost states *)
(* and restarts, which this module leaves out.                             *)
(***************************************************************************)
EXTENDS Integers, Sequences, SequencesExt

CONSTANTS
  Values,       (* values of a lighting, a curve, a power policy           *)
  Profiles,     (* power profiles                                          *)
  Start,        (* the state of the daemon when the window opens           *)
  Capacity,     (* events the channel to the main thread holds             *)
  MaxRevision,  (* bound: states the daemon publishes                      *)
  MaxThreads,   (* bound: control threads alive                            *)
  MaxMoves      (* bound: things the user does                             *)

Fans == [mode : {"auto", "leaving", "custom"}, curve : Values]
Settings == [light : Values, fan : Fans, power : Values, profile : Profiles, flag : BOOLEAN]

ASSUME UiAssumption ==
  /\ Start \in Settings
  /\ Values # {} /\ Profiles # {}
  /\ Capacity \in Nat \ {0} /\ MaxRevision \in Nat \ {0} /\ MaxThreads \in Nat \ {0} /\ MaxMoves \in Nat

VARIABLES
  log,        (* the states the daemon has published; the last is its own  *)
  forwarded,  (* the last of them the event stream has brought             *)
  events,     (* the channel to the main thread                            *)
  batch,      (* the events a wake-up is handling                          *)
  model,      (* Session.model                                             *)
  shown,      (* state_revision                                            *)
  lightDue,   (* light_at: a lighting edit waits to be pushed              *)
  fanDue,     (* fan_at                                                    *)
  drag,       (* a point of the curve is being dragged                     *)
  form,       (* the power policy the sliders show: power_form             *)
  applied,    (* applied_power                                             *)
  busy,       (* the controls made insensitive until their result is in    *)
  file,       (* the lighting in victus-hub.conf                           *)
  threads,    (* control threads                                           *)
  unsent,     (* history: a push failed or a drag ended without one, so    *)
              (* the daemon does not have what is shown                    *)
  moves       (* bound: things the user has done                           *)

daemon == <<log>>
stream == <<forwarded, events, threads>>
edits == <<lightDue, fanDue, drag>>
policy == <<form, applied, busy>>
windowVars == <<daemon, stream, batch, model, shown, edits, policy, file, unsent, moves>>

Current == Last(log)
Kinds == {"profile", "power"}
Revisions == 1..MaxRevision
Events == [event : {"state"}, revision : Revisions]
            \cup [event : {"control"}, kind : Kinds, value : Values \cup Profiles, ok : BOOLEAN]
Threads == [id : 1..MaxThreads, kind : Kinds, value : Values \cup Profiles,
            step : {"asks", "answers", "fetches", "fetched"},
            ok : BOOLEAN, revision : Revisions]

(* The bound on what the daemon publishes. *)
Publishes(states) ==
  /\ Len(log) + Len(states) <= MaxRevision
  /\ log' = log \o states

-----------------------------------------------------------------------------
(* hydrate_live: the window starts from the daemon's state, and copies it. *)
WindowInit ==
  /\ log = <<Start>> /\ forwarded = 0
  /\ model = Start /\ file = Start.light /\ form = Start.power /\ applied = Start.power
  /\ shown = 0 /\ events = <<>> /\ batch = <<>> /\ busy = {} /\ threads = {}
  /\ lightDue = FALSE /\ fanDue = FALSE /\ drag = FALSE /\ unsent = FALSE /\ moves = 0

(* Another window, a hardware key or a policy of the daemon changes it.    *)
Elsewhere ==
  /\ \E s \in Settings :
       /\ s # Current /\ s.fan.mode # "leaving"
       /\ \/ s = [Current EXCEPT !.light = s.light]
          \/ s = [Current EXCEPT !.fan = s.fan]
          \/ s = [Current EXCEPT !.power = s.power]
          \/ s = [Current EXCEPT !.profile = s.profile]
          \/ s = [Current EXCEPT !.flag = s.flag]
       /\ Publishes(<<s>>)
  /\ UNCHANGED <<stream, batch, model, shown, edits, policy, file, unsent, moves>>

(* quit drops what is held back and ends the threads; a new window opens.  *)
Reopen ==
  /\ batch = <<>> /\ UNCHANGED <<log, batch>>
  /\ model' = Current /\ file' = Current.light
  /\ form' = Current.power /\ applied' = Current.power
  /\ shown' = 0 /\ forwarded' = Len(log) - 1
  /\ events' = <<>> /\ busy' = {} /\ threads' = {}
  /\ lightDue' = FALSE /\ fanDue' = FALSE /\ drag' = FALSE /\ unsent' = FALSE /\ moves' = 0

(* spawn_state_stream: the next state, once the channel has room.          *)
Forward ==
  /\ forwarded < Len(log) /\ Len(events) < Capacity
  /\ forwarded' = forwarded + 1
  /\ events' = Append(events, [event |-> "state", revision |-> forwarded + 1])
  /\ UNCHANGED <<daemon, threads, batch, model, shown, edits, policy, file, unsent, moves>>

-----------------------------------------------------------------------------
(* transact with the daemon: it takes the first of the states asked for,   *)
(* one request each, until one is refused or its answer comes too late.    *)
Push(states, ok) ==
  \E n \in 0..Len(states) :
    /\ ok => n = Len(states)
    /\ Publishes(SubSeq(states, 1, n))

(* The main thread is between two callbacks. *)
Idle == batch = <<>>

(* The user does one more thing to the idle window. *)
UserMoves == Idle /\ moves < MaxMoves /\ moves' = moves + 1

(* keyboard.rs: an edit of the lighting waits for a quarter of a second.   *)
EditLight ==
  /\ UserMoves
  /\ \E v \in Values \ {model.light} : model' = [model EXCEPT !.light = v]
  /\ lightDue' = TRUE
  /\ UNCHANGED <<daemon, stream, batch, shown, fanDue, drag, policy, file, unsent>>

(* flush_lighting: the local copy is written first, and kept if the push   *)
(* fails.                                                                  *)
FlushLight ==
  /\ Idle /\ lightDue
  /\ lightDue' = FALSE /\ file' = model.light
  /\ \E ok \in BOOLEAN :
       /\ Push(<<[Current EXCEPT !.light = model.light]>>, ok)
       /\ unsent' = (unsent \/ ~ok)
  /\ UNCHANGED <<stream, batch, model, shown, fanDue, drag, policy, moves>>

(* begin_fan_drag and update_fan_drag, in the editor of the custom mode.   *)
DragPoint ==
  /\ UserMoves /\ model.fan.mode = "custom"
  /\ \E v \in Values : model' = [model EXCEPT !.fan.curve = v]
  /\ drag' = TRUE
  /\ UNCHANGED <<daemon, stream, batch, shown, lightDue, fanDue, policy, file, unsent>>

(* end_fan_drag. *)
Drop ==
  /\ Idle /\ drag
  /\ drag' = FALSE
  /\ fanDue' = (fanDue \/ model.fan.mode = "custom")
  /\ UNCHANGED <<daemon, stream, batch, model, shown, lightDue, policy, file, unsent, moves>>

(* The link to the other curve ends a drag and schedules nothing.          *)
SelectCurve ==
  /\ Idle /\ drag
  /\ drag' = FALSE /\ unsent' = TRUE
  /\ UNCHANGED <<daemon, stream, batch, model, shown, lightDue, fanDue, policy, file, moves>>

(* flush_fan; the copy it writes, config.json, is read only by a window    *)
(* that finds a daemon not initialised.                                    *)
FlushFan ==
  /\ Idle /\ fanDue
  /\ fanDue' = FALSE
  /\ \E ok \in BOOLEAN :
       /\ Push(<<[Current EXCEPT !.fan = model.fan]>>, ok)
       /\ unsent' = (unsent \/ ~ok)
  /\ UNCHANGED <<stream, batch, model, shown, lightDue, drag, policy, file, moves>>

(* fan_mode_steps: a mode is left before another is entered.  The requests *)
(* before the last are taken as one.                                       *)
FanModeSteps(fan, mode) == <<[fan EXCEPT !.mode = "leaving"], [fan EXCEPT !.mode = mode]>>

(* apply_fan_mode: a pending curve goes with the mode, and the model       *)
(* changes only when the daemon took every step.                           *)
SelectFanMode ==
  /\ UserMoves
  /\ \E mode \in {"auto", "custom"}, ok \in BOOLEAN :
       LET steps == FanModeSteps(model.fan, mode)
       IN  /\ model.fan.mode # mode
           /\ Push([i \in DOMAIN steps |-> [Current EXCEPT !.fan = steps[i]]], ok)
           /\ model' = IF ok THEN [model EXCEPT !.fan = Last(steps)] ELSE model
           /\ unsent' = (unsent \/ ~ok)
  /\ fanDue' = FALSE /\ drag' = FALSE
  /\ UNCHANGED <<stream, batch, shown, lightDue, policy, file>>

(* bind_switch: shown at once, and taken back if the push fails.           *)
Switch ==
  /\ UserMoves
  /\ \E ok \in BOOLEAN :
       /\ Push(<<[Current EXCEPT !.flag = ~model.flag]>>, ok)
       /\ model' = IF ok THEN [model EXCEPT !.flag = ~model.flag] ELSE model
       /\ unsent' = (unsent \/ ~ok)
  /\ UNCHANGED <<stream, batch, shown, edits, policy, file>>

(* The sliders of the power page. *)
EditPower ==
  /\ UserMoves /\ form' \in Values \ {form}
  /\ UNCHANGED <<daemon, stream, batch, model, shown, edits, applied, busy, file, unsent>>

-----------------------------------------------------------------------------
(* submit_control: the control is insensitive until its result is in.      *)
Submit(kind, value) ==
  /\ kind \notin busy /\ busy' = busy \cup {kind}
  /\ \E id \in 1..MaxThreads :
       /\ \A t \in threads : t.id # id
       /\ threads' = threads \cup
            {[id |-> id, kind |-> kind, value |-> value, step |-> "asks",
              ok |-> FALSE, revision |-> 1]}

SelectProfile ==
  /\ UserMoves /\ \E p \in Profiles : Submit("profile", p)
  /\ UNCHANGED <<daemon, forwarded, events, batch, model, shown, edits, form, applied,
                 file, unsent>>

ApplyPower ==
  /\ UserMoves /\ form # applied /\ Submit("power", form)
  /\ UNCHANGED <<daemon, forwarded, events, batch, model, shown, edits, form, applied,
                 file, unsent>>

(* The daemon answers, refuses, or does not answer in time. *)
Asked(t) ==
  /\ t.step = "asks"
  /\ \E ok \in BOOLEAN :
       /\ Push(<<IF t.kind = "profile" THEN [Current EXCEPT !.profile = t.value]
                                       ELSE [Current EXCEPT !.power = t.value]>>, ok)
       /\ threads' = (threads \ {t}) \cup {[t EXCEPT !.step = "answers", !.ok = ok]}
  /\ UNCHANGED <<forwarded, events, batch, model, shown, edits, policy, file, unsent, moves>>

(* Faulty: a full channel discards the completion. *)
AnsweredOrLost(t) ==
  /\ t.step = "answers"
  /\ events' = IF Len(events) < Capacity
               THEN Append(events, [event |-> "control", kind |-> t.kind,
                                    value |-> t.value, ok |-> t.ok])
               ELSE events
  /\ threads' = (threads \ {t}) \cup
       (IF t.ok /\ t.kind = "profile" THEN {[t EXCEPT !.step = "fetches"]} ELSE {})
  /\ UNCHANGED <<daemon, forwarded, batch, model, shown, edits, policy, file, unsent, moves>>

(* EventSender::send waits for room: a completion is never discarded.  A   *)
(* new profile is looked up next.                                          *)
Answered(t) ==
  /\ t.step = "answers" /\ Len(events) < Capacity
  /\ events' = Append(events, [event |-> "control", kind |-> t.kind,
                               value |-> t.value, ok |-> t.ok])
  /\ threads' = (threads \ {t}) \cup
       (IF t.ok /\ t.kind = "profile" THEN {[t EXCEPT !.step = "fetches"]} ELSE {})
  /\ UNCHANGED <<daemon, forwarded, batch, model, shown, edits, policy, file, unsent, moves>>

(* get-state, or a failure of it. *)
Fetch(t) ==
  /\ t.step = "fetches"
  /\ \/ threads' = (threads \ {t}) \cup
                     {[t EXCEPT !.step = "fetched", !.revision = Len(log)]}
     \/ threads' = threads \ {t}
  /\ UNCHANGED <<daemon, forwarded, events, batch, model, shown, edits, policy, file, unsent, moves>>

Fetched(t) ==
  /\ t.step = "fetched" /\ Len(events) < Capacity
  /\ events' = Append(events, [event |-> "state", revision |-> t.revision])
  /\ threads' = threads \ {t}
  /\ UNCHANGED <<daemon, forwarded, batch, model, shown, edits, policy, file, unsent, moves>>

ThreadStep(t) == Asked(t) \/ Answered(t) \/ Fetch(t) \/ Fetched(t)

-----------------------------------------------------------------------------
(* deliver_events: every event queued so far. *)
Wake ==
  /\ Idle /\ events # <<>>
  /\ batch' = events /\ events' = <<>>
  /\ UNCHANGED <<daemon, forwarded, threads, model, shown, edits, policy, file, unsent, moves>>

(* Faulty: the order of arrival is trusted. *)
OutdatedNever(revision) == FALSE

(* apply_remote_state drops a state older than the one it has. *)
Outdated(revision) == revision < shown

(* Faulty: the edit under way is not kept in the file's place.             *)
KeepsQuietly(old, new) == UNCHANGED file

(* A lighting that came from elsewhere is copied to the file. *)
Keeps(old, new) == file' = IF ~lightDue /\ new # old THEN new ELSE file

(* apply_remote_state: what the user is editing stays as he left it, and a *)
(* power form he changed keeps his values.  A new profile has other        *)
(* curves: a drag ends, and its point is not pushed.                       *)
ShowState(revision) ==
  LET remote == log[revision]
      light == IF lightDue THEN model.light ELSE remote.light
      fan == IF fanDue \/ drag THEN model.fan ELSE remote.fan
  IN  IF Outdated(revision) THEN UNCHANGED <<model, shown, drag, form, applied, file, unsent>>
      ELSE /\ model' = [remote EXCEPT !.light = light, !.fan = fan]
           /\ shown' = revision
           /\ drag' = (drag /\ remote.profile = model.profile)
           /\ form' = IF form = applied THEN remote.power ELSE form
           /\ applied' = remote.power
           /\ Keeps(model.light, light)
           /\ unsent' = (drag # drag' \/ (unsent /\ (lightDue \/ fanDue \/ drag)))

(* control_result: the control is sensitive again; only a power policy     *)
(* that was taken is shown as the one in force.                            *)
ShowResult(event) ==
  LET taken == event.kind = "power" /\ event.ok
  IN  /\ busy' = busy \ {event.kind}
      /\ model' = IF taken THEN [model EXCEPT !.power = event.value] ELSE model
      /\ applied' = IF taken THEN event.value ELSE applied

Deliver ==
  /\ batch # <<>> /\ batch' = Tail(batch)
  /\ LET event == Head(batch)
     IN  IF event.event = "state"
         THEN ShowState(event.revision) /\ UNCHANGED busy
         ELSE ShowResult(event) /\ UNCHANGED <<shown, drag, form, file, unsent>>
  /\ UNCHANGED <<daemon, stream, lightDue, fanDue, moves>>

WindowNext ==
  \/ Elsewhere \/ Reopen \/ Forward \/ Wake \/ Deliver
  \/ EditLight \/ FlushLight \/ DragPoint \/ Drop \/ SelectCurve \/ FlushFan
  \/ SelectFanMode
  \/ Switch \/ EditPower \/ SelectProfile \/ ApplyPower
  \/ \E t \in threads : ThreadStep(t)

WindowSpec == WindowInit /\ [][WindowNext]_windowVars

(* The main loop handles what woke it, a request ends by its timeout, and  *)
(* a thread that waits for room gets it.                                   *)
Fairness ==
  /\ WF_windowVars(Wake) /\ WF_windowVars(Deliver)
  /\ \A i \in 1..MaxThreads :
       SF_windowVars(\E t \in threads : t.id = i /\ (Answered(t) \/ Fetched(t)))
  /\ \A i \in 1..MaxThreads :
       WF_windowVars(\E t \in threads : t.id = i /\ (Asked(t) \/ Fetch(t)))

WindowFairSpec == WindowSpec /\ Fairness

-----------------------------------------------------------------------------

(* Everything the daemon published has been handled. *)
Quiet == batch = <<>> /\ events = <<>> /\ forwarded = Len(log) /\ threads = {}

(* Once all is handled the window shows the daemon's profile, switches,    *)
(* lighting and fan policy, whatever was edited, refused, answered late or *)
(* looked up in between, but for an edit still held back, a drag under     *)
(* way, and what the daemon was never given (view.rs apply_remote_state,   *)
(* actions.rs submit_control, wiring.rs bind_switch).                      *)
Agrees ==
  Quiet =>
    /\ model.profile = Current.profile
    /\ unsent \/ /\ model.flag = Current.flag
                 /\ lightDue \/ model.light = Current.light
                 /\ fanDue \/ drag \/ model.fan = Current.fan

(* The lighting in the window's file, which a window without daemon or     *)
(* after a reset would start from, is the one on show, but while an edit   *)
(* is held back: no path that changes one leaves out the other (view.rs    *)
(* flush_lighting, apply_remote_state).  The rest of the file is left out. *)
FileFollows == ~lightDue => file = model.light

(* A control made insensitive becomes sensitive again: its result is never *)
(* lost, however full the channel is (session.rs EventSender::send,        *)
(* actions.rs control_result).                                             *)
BusyClears == \A k \in Kinds : k \in busy ~> k \notin busy
=============================================================================
