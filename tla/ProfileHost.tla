----------------------------- MODULE ProfileHost -----------------------------
(***************************************************************************)
(* The power profile as the daemon knows it and as the host runs it        *)
(* (crates/victus-hubd/src/runtime.rs, main.rs, dispatch.rs): the host     *)
(* watch reads the profile outside the runtime lock, a worker and the      *)
(* clients change it under the commands lock, and refresh_host switches to *)
(* power save on battery and back on AC.  An action ends where the code    *)
(* gives up a lock or waits for the host.                                  *)
(***************************************************************************)
EXTENDS Integers, Sequences

CONSTANT Capacity    (* of the channel to the profile worker *)

ASSUME ProfileAssumption == Capacity \in Nat \ {0}

PowerSave == 0
Balanced == 1
Profiles == 0..2
None == -1
Cycle == 3           (* ProfileRequest::Cycle, next to Select(index) *)
Requests == Profiles \cup {Cycle}

Sources == {"ac", "battery"}
Unknown == "unknown"

Idle == [by |-> "nobody", index |-> None, applied |-> FALSE]
Commands == [by : {"worker", "client"}, index : Profiles, applied : BOOLEAN]

VARIABLES
  source,     (* what feeds the machine                                      *)
  active,     (* the profile the host runs                                   *)
  profile,    (* Runtime.profile                                             *)
  noticed,    (* Runtime.on_battery                                          *)
  save,       (* battery_power_save, in the saved state                      *)
  before,     (* profile_before_battery, in the saved state                  *)
  queue,      (* requests on their way to the profile worker                 *)
  received,   (* the request the worker holds while it waits for the lock    *)
  command,    (* the profile command run under the commands lock             *)
  cache,      (* the profile cache of SysPlatform                            *)
  notified,   (* a coalesced refresh is due in the host watch                *)
  recovery,   (* profile_recovery: the last read of the watch failed         *)
  watch,      (* where the host watch is                                     *)
  seen,       (* what it read                                                *)
  usual,      (* history: the mode in force when the machine was unplugged   *)
  untouched,  (* history: since then nobody chose a mode and nothing failed  *)
  calm,       (* history: then, and at every charger event since, nothing was*)
              (* on its way and the daemon knew the profile; and the desktop *)
              (* never set one between a command's effect and its completion *)
  informed    (* history: since then the daemon was only started again when  *)
              (* nothing was on its way, and could read the profile          *)

belief == <<profile, noticed>>
saved == <<save, before>>
requests == <<queue, received>>
watcher == <<notified, recovery, watch, seen>>
histories == <<usual, untouched, calm, informed>>
vars == <<source, active, belief, saved, requests, command, cache, watcher,
          histories>>

(* Nothing is on its way inside the daemon.                                *)
Settled ==
  /\ queue = <<>> /\ received = None /\ command = Idle
  /\ ~notified /\ ~recovery /\ watch = "idle"

-----------------------------------------------------------------------------
(* The switches of refresh_host once the profile is known to be p and      *)
(* on_battery was w: the mode to remember and the profile to ask for.      *)
KeepMode(kept) == [before |-> kept, ask |-> None]

OrBalanced(p) == IF p = None THEN Balanced ELSE p

SwitchToSave(p, kept) ==
  IF OrBalanced(p) = PowerSave THEN KeepMode(kept)
  ELSE [before |-> OrBalanced(p), ask |-> PowerSave]

SwitchBack(p, kept) ==
  [before |-> None, ask |-> IF p = PowerSave THEN kept ELSE None]

HostSwitch(p, w, forced, enabled, kept) ==
  CASE ~enabled \/ (~forced /\ w = source) -> KeepMode(kept)
    [] enabled /\ source = "battery" /\ w = "battery" -> KeepMode(kept)
    [] enabled /\ source = "battery" /\ w # "battery" -> SwitchToSave(p, kept)
    [] OTHER -> SwitchBack(p, kept)

(* try_send: a full channel refuses the request.                           *)
Enqueue(request) ==
  queue' = IF request # None /\ Len(queue) < Capacity
             THEN Append(queue, request) ELSE queue

(* profile_index: the cached profile if there is one                       *)
Known == IF cache = None THEN profile ELSE cache

(* refresh_host: its on_battery was w, its battery policy is enabled and   *)
(* kept.                                                                   *)
RefreshHost(w, forced, enabled, kept) ==
  LET switch == HostSwitch(Known, w, forced, enabled, kept)
  IN  /\ profile' = Known
      /\ noticed' = source
      /\ save' = enabled
      /\ before' = switch.before
      /\ Enqueue(switch.ask)
      /\ UNCHANGED received

-----------------------------------------------------------------------------
(* The host watch: a coalesced notification, or the 30 s recovery tick     *)
(* after a failed read, reads the profile; the read may fail.              *)
WatchReads ==
  /\ watch = "idle"
  /\ \/ notified /\ notified' = FALSE
     \/ recovery /\ UNCHANGED notified
  /\ watch' = "read"
  /\ seen' \in {active, None}
  /\ recovery' = (seen' = None)
  /\ UNCHANGED <<source, active, belief, saved, requests, command, cache,
                 histories>>

WatchStores ==
  /\ watch = "read"
  /\ watch' = "stored"
  /\ cache' = IF seen = None THEN cache ELSE seen
  /\ seen' = None
  /\ UNCHANGED <<source, active, belief, saved, requests, command, notified,
                 recovery, histories>>

(* Faulty: the coalescing flag is cleared after the refresh, not before.   *)
WatchRefreshesLate ==
  /\ watch = "stored"
  /\ watch' = "idle"
  /\ notified' = FALSE
  /\ RefreshHost(noticed, FALSE, save, before)
  /\ UNCHANGED <<source, active, command, cache, recovery, seen, histories>>

WatchRefreshes ==
  /\ watch = "stored"
  /\ watch' = "idle"
  /\ RefreshHost(noticed, FALSE, save, before)
  /\ UNCHANGED <<source, active, command, cache, notified, recovery, seen,
                 histories>>

(* The profile worker, and a client's set-profile, which goes ahead only   *)
(* when nobody holds the commands lock.                                    *)
WorkerReceives ==
  /\ received = None /\ command.by # "worker" /\ queue # <<>>
  /\ received' = Head(queue)
  /\ queue' = Tail(queue)
  /\ UNCHANGED <<source, active, belief, saved, command, cache, watcher,
                 histories>>

WorkerStarts ==
  /\ received # None /\ command = Idle
  /\ command' = [by |-> "worker", applied |-> FALSE,
                 index |-> IF received = Cycle
                             THEN (OrBalanced(profile) + 1) % 3 ELSE received]
  /\ received' = None
  /\ UNCHANGED <<source, active, belief, saved, queue, cache, watcher,
                 histories>>

ClientStarts(i) ==
  /\ command = Idle
  /\ command' = [by |-> "client", applied |-> FALSE, index |-> i]
  /\ untouched' = FALSE
  /\ UNCHANGED <<source, active, belief, saved, requests, cache, watcher,
                 usual, calm, informed>>

(* apply_profile ran the host's tool: the host reports a change of profile. *)
CommandApplies ==
  /\ command # Idle /\ ~command.applied
  /\ command' = [command EXCEPT !.applied = TRUE]
  /\ active' = command.index
  /\ notified' = (notified \/ active' # active)
  /\ UNCHANGED <<source, belief, saved, requests, cache, recovery, watch, seen,
                 histories>>

(* The tool failed, perhaps after it had its effect.                       *)
CommandFails ==
  /\ command # Idle /\ ~command.applied
  /\ command' = Idle
  /\ active' \in {active, command.index}
  /\ notified' = (notified \/ active' # active)
  /\ untouched' = FALSE
  /\ UNCHANGED <<source, belief, saved, requests, cache, recovery, watch, seen,
                 usual, calm, informed>>

(* complete_profile                                                        *)
CommandCompletes ==
  /\ command.applied
  /\ command' = Idle
  /\ profile' = command.index
  /\ cache' = command.index
  /\ UNCHANGED <<source, active, noticed, saved, requests, watcher, histories>>

(* The Fn key that cycles the profiles                                     *)
CyclePressed ==
  /\ Enqueue(Cycle)
  /\ untouched' = FALSE
  /\ UNCHANGED <<source, active, belief, saved, received, command, cache,
                 watcher, usual, calm, informed>>

(* Turning the option on while on battery starts an episode of its own, as *)
(* an unplugging does.                                                     *)
BatteryEpisode(on) ==
  LET starts == on /\ ~save /\ source = "battery" /\ Settled
  IN  /\ usual' = IF starts THEN active ELSE usual
      /\ untouched' =
           (starts \/ (untouched /\ on /\ save /\ source = "battery"))
      /\ UNCHANGED <<source, active, command, cache, watcher, calm, informed>>

(* Faulty: on_battery is not reset before the refresh.                     *)
SetBatteryPowerSaveQuietly(on) ==
  /\ RefreshHost(noticed, TRUE, on, IF on THEN before ELSE None)
  /\ BatteryEpisode(on)

(* Faulty: the remembered mode is dropped when the option is turned on too. *)
SetBatteryPowerSaveAnew(on) ==
  /\ RefreshHost(Unknown, TRUE, on, None)
  /\ BatteryEpisode(on)

(* set_battery_power_save                                                  *)
SetBatteryPowerSave(on) ==
  /\ RefreshHost(Unknown, TRUE, on, IF on THEN before ELSE None)
  /\ BatteryEpisode(on)

-----------------------------------------------------------------------------
(* The host: the charger, desktop programs that set the profile, and       *)
(* systemd, which stops and starts the daemon.                             *)
Unplug ==
  /\ source = "ac"
  /\ source' = "battery"
  /\ notified' = TRUE
  /\ usual' = active
  /\ untouched' = Settled
  /\ calm' = (Settled /\ profile = active)
  /\ informed' = calm'
  /\ UNCHANGED <<active, belief, saved, requests, command, cache, recovery,
                 watch, seen>>

Replug ==
  /\ source = "battery"
  /\ source' = "ac"
  /\ notified' = TRUE
  /\ calm' = (calm /\ Settled)
  /\ UNCHANGED <<active, belief, saved, requests, command, cache, recovery,
                 watch, seen, usual, untouched, informed>>

DesktopSets(i) ==
  /\ i # active
  /\ active' = i
  /\ notified' = TRUE
  /\ untouched' = FALSE
  /\ calm' = (calm /\ ~command.applied)
  /\ UNCHANGED <<source, belief, saved, requests, command, cache, recovery,
                 watch, seen, usual, informed>>

(* The state file survives.  read_system_profile may find no answer, and   *)
(* the switch of this refresh_host is applied at once: there is no worker. *)
Restart ==
  \E read \in {active, None} :
    LET switch == HostSwitch(read, Unknown, TRUE, save, before)
    IN  /\ before' = switch.before
        /\ \/ /\ switch.ask # None
              /\ active' = switch.ask
              /\ profile' = switch.ask
              /\ UNCHANGED untouched
           \/ /\ profile' = read
              /\ untouched' = (untouched /\ switch.ask = None)
              /\ UNCHANGED active
        /\ cache' = profile'
        /\ noticed' = source
        /\ queue' = <<>> /\ received' = None /\ command' = Idle
        /\ notified' = TRUE /\ recovery' = TRUE
        /\ watch' = "idle" /\ seen' = None
        /\ informed' = (informed /\ Settled /\ read = active)
        /\ UNCHANGED <<source, save, usual, calm>>

-----------------------------------------------------------------------------
Init ==
  /\ source \in Sources
  /\ active \in Profiles
  /\ profile = active /\ cache = active
  /\ noticed = source
  /\ save = FALSE /\ before = None
  /\ queue = <<>> /\ received = None /\ command = Idle
  /\ notified = TRUE /\ recovery = TRUE
  /\ watch = "idle" /\ seen = None
  /\ usual = active /\ untouched = FALSE
  /\ calm = TRUE /\ informed = TRUE

Daemon ==
  \/ WatchReads \/ WatchStores \/ WatchRefreshes
  \/ WorkerReceives \/ WorkerStarts
  \/ CommandApplies \/ CommandFails \/ CommandCompletes

Next ==
  \/ Daemon
  \/ \E i \in Profiles : ClientStarts(i) \/ DesktopSets(i)
  \/ CyclePressed
  \/ \E on \in BOOLEAN : SetBatteryPowerSave(on)
  \/ Unplug \/ Replug
  \/ Restart

Spec == Init /\ [][Next]_vars

-----------------------------------------------------------------------------
(* What the variables hold; the mode to go back to is never power save.    *)
TypeOK ==
  /\ source \in Sources
  /\ active \in Profiles
  /\ profile \in Profiles \cup {None}
  /\ noticed \in Sources
  /\ save \in BOOLEAN
  /\ before \in {None, 1, 2}
  /\ queue \in Seq(Requests) /\ Len(queue) <= Capacity
  /\ received \in Requests \cup {None}
  /\ command \in Commands \cup {Idle}
  /\ cache \in Profiles \cup {None}
  /\ notified \in BOOLEAN /\ recovery \in BOOLEAN
  /\ watch \in {"idle", "read", "stored"}
  /\ seen \in Profiles \cup {None}
  /\ usual \in Profiles
  /\ untouched \in BOOLEAN /\ calm \in BOOLEAN /\ informed \in BOOLEAN

(* Whatever the host watch, the worker and the clients interleave, once    *)
(* all is quiet the daemon knows what feeds the machine; and it knows the  *)
(* host's profile, unless a desktop program changed that between a command *)
(* of the daemon and its completion.                                       *)
KnowsHost ==
  Settled => noticed = source /\ (calm => profile = active)

(* On battery the machine ends in power save, if the option is on, nobody  *)
(* has chosen a mode since it was unplugged and no command failed.         *)
BatterySaves ==
  Settled /\ source = "battery" /\ save /\ untouched /\ calm /\ informed
    => active = PowerSave

(* Back on AC it ends in the mode it was in when it was unplugged.         *)
ModeRestored ==
  Settled /\ source = "ac" /\ save /\ untouched /\ calm /\ informed
    => active = usual

(* refresh_host, forced or not, and a restart of the daemon keep the mode  *)
(* to go back to for as long as the machine stays on battery.              *)
SavedModeKept ==
  [][before # None /\ source' = "battery" /\ untouched' /\ calm' /\ informed'
       => before' = before]_vars

(* The mode to go back to is kept, and gone back to.                       *)
ModeReturns == SavedModeKept /\ []ModeRestored

(* What the settings page says, however soon the charger is plugged in     *)
(* again: "restore the previous mode on AC".                               *)
PreviousModeRestored ==
  Settled /\ source = "ac" /\ save /\ untouched /\ informed => active = usual

=============================================================================
