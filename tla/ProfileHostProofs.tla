-------------------------- MODULE ProfileHostProofs --------------------------
(***************************************************************************)
(* ProfileHost for a channel of any capacity: its types; that the daemon   *)
(* knows the host once nothing is on its way; and that the machine is in   *)
(* power save on battery and goes back to its mode on AC.                  *)
(***************************************************************************)
EXTENDS ProfileHost, TLAPS

(* A profile read on the way to the cache is the host's, or the host has   *)
(* changed since and said so, or the read failed and will be repeated.     *)
ReadIsFresh ==
  watch = "read" => seen = active \/ notified \/ (seen = None /\ recovery)

(* Nothing changed the profile since the command under way was applied.    *)
AppliedIsActive ==
  calm /\ command.applied => command.index = active

(* What feeds the machine is known, or the watch is about to look.         *)
SourceFollows == noticed = source \/ notified \/ watch # "idle"

(* The host's profile is known, or is on its way to the runtime, or the    *)
(* watch is about to look.                                                 *)
ProfileFollows ==
  calm =>
    \/ notified \/ recovery
    \/ watch = "read" /\ seen = active
    \/ watch = "stored" /\ cache = active
    \/ command.applied
    \/ cache = active /\ profile = active

(* The runtime's profile is the cached one, but between the store of the   *)
(* watch and its refresh; the watch holds a profile only while it reads.   *)
ProfileIsCached ==
  /\ profile = cache \/ watch = "stored"
  /\ cache = None => profile = None
  /\ watch # "read" => seen = None

(* A mode is remembered only between a noticed unplugging and a noticed    *)
(* plugging in.                                                            *)
ModeIsRemembered == before # None => save /\ noticed = "battery"

(* The battery policy's promises apply: from an unplugging in peace on.    *)
Episode == save /\ untouched /\ calm /\ informed

Remembered == IF usual = PowerSave THEN None ELSE usual

(* Whatever is on its way to the host is a request for p.                  *)
OnlyAsks(p) ==
  /\ \A i \in 1..Len(queue) : queue[i] = p
  /\ received \in {None, p}
  /\ command = Idle \/ command.index = p

Resting == queue = <<>> /\ received = None /\ command = Idle

(* Something is on its way to the host and not there yet.                  *)
Asked ==
  queue # <<>> \/ received # None \/ (command # Idle /\ ~command.applied)

(* The four stations of an episode: unplugged and not yet noticed ...      *)
Unplugged ==
  Episode /\ source = "battery" /\ noticed = "ac" =>
    /\ Resting /\ before = None
    /\ active = usual /\ cache = usual /\ seen \in {usual, None}

(* ... noticed: power save is on, or still asked for ...                   *)
Saving ==
  Episode /\ source = "battery" /\ noticed = "battery" =>
    /\ OnlyAsks(PowerSave) /\ before = Remembered
    /\ active \in {usual, PowerSave} /\ cache \in {usual, PowerSave}
    /\ seen \in {usual, PowerSave, None}
    /\ active = PowerSave \/ Asked

(* ... plugged in and not yet noticed ...                                  *)
Replugged ==
  Episode /\ source = "ac" /\ noticed = "battery" =>
    /\ Resting /\ before = Remembered
    /\ active = PowerSave /\ cache = PowerSave /\ seen \in {PowerSave, None}

(* ... noticed: the usual mode is back, or still asked for.                *)
Restoring ==
  Episode /\ source = "ac" /\ noticed = "ac" =>
    OnlyAsks(usual) /\ (active = usual \/ Asked)

EpisodeFollows ==
  /\ ProfileIsCached /\ ModeIsRemembered
  /\ Unplugged /\ Saving /\ Replugged /\ Restoring

IInv ==
  TypeOK /\ ReadIsFresh /\ AppliedIsActive /\ SourceFollows /\ ProfileFollows
    /\ EpisodeFollows

-----------------------------------------------------------------------------
(* The modes and requests that refresh_host can produce.                   *)
LEMMA SwitchTypes ==
  ASSUME NEW p \in Profiles \cup {None}, NEW w, NEW forced \in BOOLEAN,
         NEW enabled \in BOOLEAN, NEW kept \in {None, 1, 2},
         source \in Sources
  PROVE  /\ HostSwitch(p, w, forced, enabled, kept).before \in {None, 1, 2}
         /\ HostSwitch(p, w, forced, enabled, kept).ask \in Profiles \cup {None}
<1> DEFINE switch == HostSwitch(p, w, forced, enabled, kept)
           good(s) == s.before \in {None, 1, 2} /\ s.ask \in Profiles \cup {None}
<1>1. good(KeepMode(kept))
  BY DEF KeepMode, Profiles, None
<1>2. good(SwitchToSave(p, kept))
  BY <1>1 DEF SwitchToSave, OrBalanced, Balanced, PowerSave, Profiles, None
<1>3. good(SwitchBack(p, kept))
  BY DEF SwitchBack, PowerSave, Profiles, None
<1>4. \/ switch = KeepMode(kept) \/ switch = SwitchToSave(p, kept)
      \/ switch = SwitchBack(p, kept)
  BY DEF HostSwitch
<1> QED
  BY <1>1, <1>2, <1>3, <1>4

(* try_send never overfills the channel.                                   *)
LEMMA EnqueueTypes ==
  ASSUME NEW request \in Requests \cup {None}, Enqueue(request),
         queue \in Seq(Requests), Len(queue) <= Capacity
  PROVE  queue' \in Seq(Requests) /\ Len(queue') <= Capacity
<1>1. CASE request # None /\ Len(queue) < Capacity
  <2>1. request \in Requests
    BY <1>1
  <2>2. queue' = Append(queue, request)
    BY <1>1 DEF Enqueue
  <2> QED
    BY <1>1, <2>1, <2>2, ProfileAssumption
<1>2. CASE ~(request # None /\ Len(queue) < Capacity)
  BY <1>2 DEF Enqueue
<1> QED
  BY <1>1, <1>2

(* refresh_host keeps the types of what it writes.                         *)
LEMMA RefreshTypes ==
  ASSUME TypeOK, NEW w, NEW forced \in BOOLEAN, NEW enabled \in BOOLEAN,
         NEW kept \in {None, 1, 2}, RefreshHost(w, forced, enabled, kept)
  PROVE  /\ profile' = Known /\ profile' \in Profiles \cup {None}
         /\ noticed' = source
         /\ save' \in BOOLEAN
         /\ before' \in {None, 1, 2}
         /\ queue' \in Seq(Requests) /\ Len(queue') <= Capacity
         /\ received' = received
<1> DEFINE switch == HostSwitch(Known, w, forced, enabled, kept)
<1>1. Known \in Profiles \cup {None}
  BY DEF TypeOK, Known
<1>2. switch.before \in {None, 1, 2} /\ switch.ask \in Profiles \cup {None}
  BY <1>1, SwitchTypes DEF TypeOK
<1>3. /\ profile' = Known /\ noticed' = source /\ save' = enabled
      /\ before' = switch.before /\ Enqueue(switch.ask) /\ received' = received
  BY DEF RefreshHost
<1> HIDE DEF switch
<1>4. switch.ask \in Requests \cup {None}
  BY <1>2 DEF Requests
<1>5. queue' \in Seq(Requests) /\ Len(queue') <= Capacity
  BY <1>3, <1>4, EnqueueTypes DEF TypeOK
<1> QED
  BY <1>1, <1>2, <1>3, <1>5

-----------------------------------------------------------------------------
LEMMA InitIInv == Init => IInv
<1> SUFFICES ASSUME Init PROVE IInv
  OBVIOUS
<1>1. queue \in Seq(Requests) /\ Len(queue) <= Capacity
  BY ProfileAssumption DEF Init
<1>2. TypeOK
  BY <1>1 DEF Init, TypeOK
<1> QED
  BY <1>2 DEF Init, IInv, ReadIsFresh, AppliedIsActive, SourceFollows,
              ProfileFollows, Idle, EpisodeFollows, ProfileIsCached,
              ModeIsRemembered, Unplugged, Saving, Replugged, Restoring, Episode

(* Every step keeps the types.                                             *)
LEMMA NextTypes ==
  ASSUME TypeOK, [Next]_vars
  PROVE  TypeOK'
<1> USE DEF TypeOK
<1>1. CASE WatchReads
  <2>1. /\ seen' \in Profiles \cup {None} /\ recovery' \in BOOLEAN
        /\ notified' \in BOOLEAN /\ watch' \in {"idle", "read", "stored"}
    BY <1>1 DEF WatchReads
  <2> QED
    BY <1>1, <2>1
    DEF WatchReads, belief, saved, requests, histories
<1>2. CASE WatchStores
  BY <1>2 DEF WatchStores, belief, saved, requests, histories
<1>3. CASE WatchRefreshes
  <2>1. RefreshHost(noticed, FALSE, save, before)
    BY <1>3 DEF WatchRefreshes
  <2>2. /\ profile' \in Profiles \cup {None} /\ noticed' = source
        /\ save' \in BOOLEAN /\ before' \in {None, 1, 2}
        /\ queue' \in Seq(Requests) /\ Len(queue') <= Capacity
        /\ received' = received
    BY <2>1, RefreshTypes
  <2> QED
    BY <1>3, <2>2 DEF WatchRefreshes, histories
<1>4. CASE WorkerReceives
  <2>1. /\ Head(queue) \in Requests /\ Tail(queue) \in Seq(Requests)
        /\ Len(Tail(queue)) <= Capacity
    BY <1>4, ProfileAssumption DEF WorkerReceives
  <2> QED
    BY <1>4, <2>1 DEF WorkerReceives, belief, saved, watcher, histories
<1>5. CASE WorkerStarts
  <2>1. (OrBalanced(profile) + 1) % 3 \in Profiles
    BY DEF OrBalanced, Balanced, Profiles, None
  <2>2. received # Cycle => received \in Profiles
    BY <1>5 DEF WorkerStarts, Requests
  <2>3. command' \in Commands
    BY <1>5, <2>1, <2>2 DEF WorkerStarts, Commands
  <2>6. /\ UNCHANGED <<source, active, profile, noticed, save,
                    before, queue, cache>>
        /\ UNCHANGED <<notified, recovery, watch, seen, usual,
                    untouched, calm, informed>>
    BY <1>5 DEF WorkerStarts, belief, saved, watcher, histories
  <2>7. /\ save' \in BOOLEAN /\ notified' \in BOOLEAN /\ recovery' \in BOOLEAN
        /\ untouched' \in BOOLEAN /\ calm' \in BOOLEAN /\ informed' \in BOOLEAN
    BY <2>6
  <2>8. received' = None
    BY <1>5 DEF WorkerStarts
  <2> QED
    BY <2>3, <2>6, <2>7, <2>8
<1>6. ASSUME NEW i \in Profiles, ClientStarts(i)
      PROVE  TypeOK'
  <2>1. command' \in Commands
    BY <1>6 DEF ClientStarts, Commands
  <2>6. /\ UNCHANGED <<source, active, profile, noticed, save, before, queue>>
        /\ UNCHANGED <<received, cache, notified, recovery, watch, seen, usual>>
        /\ UNCHANGED <<calm, informed>> /\ untouched' = FALSE
    BY <1>6 DEF ClientStarts, belief, saved, requests, watcher
  <2>7. /\ save' \in BOOLEAN /\ notified' \in BOOLEAN /\ recovery' \in BOOLEAN
        /\ calm' \in BOOLEAN /\ informed' \in BOOLEAN
    BY <2>6
  <2>8. untouched' \in BOOLEAN
    BY <1>6 DEF ClientStarts
  <2> QED
    BY <2>1, <2>6, <2>7, <2>8
<1>7. CASE CommandApplies
  <2>1. command \in Commands
    BY <1>7 DEF CommandApplies
  <2>2. command' \in Commands /\ active' \in Profiles
    BY <1>7, <2>1 DEF CommandApplies, Commands
  <2>3. notified' \in BOOLEAN
    BY <1>7 DEF CommandApplies
  <2>6. /\ UNCHANGED <<source, profile, noticed, save, before, queue, received>>
        /\ UNCHANGED <<cache, recovery, watch, seen, usual,
                    untouched, calm, informed>>
    BY <1>7 DEF CommandApplies, belief, saved, requests, histories
  <2>7. /\ save' \in BOOLEAN /\ recovery' \in BOOLEAN /\ untouched' \in BOOLEAN
        /\ calm' \in BOOLEAN /\ informed' \in BOOLEAN
    BY <2>6
  <2>8. /\ notified' \in BOOLEAN
    BY <1>7 DEF CommandApplies
  <2> QED
    BY <2>2, <2>3, <2>6, <2>7, <2>8
<1>8. CASE CommandFails
  <2>1. command \in Commands
    BY <1>8 DEF CommandFails
  <2>2. active' \in Profiles
    BY <1>8, <2>1 DEF CommandFails, Commands
  <2>3. notified' \in BOOLEAN
    BY <1>8 DEF CommandFails
  <2>6. /\ UNCHANGED <<source, profile, noticed, save, before, queue, received>>
        /\ UNCHANGED <<cache, recovery, watch, seen, usual, calm, informed>>
    BY <1>8 DEF CommandFails, belief, saved, requests
  <2>7. /\ save' \in BOOLEAN /\ recovery' \in BOOLEAN /\ calm' \in BOOLEAN
        /\ informed' \in BOOLEAN
    BY <2>6
  <2>8. /\ notified' \in BOOLEAN /\ untouched' \in BOOLEAN
    BY <1>8 DEF CommandFails
  <2>9. command' = Idle
    BY <1>8 DEF CommandFails
  <2> QED
    BY <2>2, <2>3, <2>6, <2>7, <2>8, <2>9
<1>9. CASE CommandCompletes
  <2>1. command \in Commands
    BY <1>9 DEF CommandCompletes, Idle
  <2>2. command.index \in Profiles
    BY <2>1 DEF Commands
  <2> QED
    BY <1>9, <2>2 DEF CommandCompletes, saved, requests, watcher, histories
<1>10. CASE CyclePressed
  <2>1. Cycle \in Requests
    BY DEF Requests
  <2>2. queue' \in Seq(Requests) /\ Len(queue') <= Capacity
    BY <1>10, <2>1, EnqueueTypes DEF CyclePressed
  <2>3. /\ UNCHANGED <<source, active, profile, noticed, save, before>>
        /\ UNCHANGED <<received, command, cache, usual, calm, informed>>
        /\ UNCHANGED <<notified, recovery, watch, seen>>
    BY <1>10 DEF CyclePressed, belief, saved, watcher
  <2>4. untouched' \in BOOLEAN
    BY <1>10 DEF CyclePressed
  <2>5. /\ command' \in Commands \cup {Idle}
        /\ received' \in Requests \cup {None}
    BY <2>3
  <2>6. /\ recovery' \in BOOLEAN /\ notified' \in BOOLEAN
        /\ calm' \in BOOLEAN /\ informed' \in BOOLEAN /\ save' \in BOOLEAN
    BY <2>3
  <2> QED
    BY <2>2, <2>3, <2>4, <2>5, <2>6
<1>11. ASSUME NEW on \in BOOLEAN, SetBatteryPowerSave(on)
       PROVE  TypeOK'
  <2> DEFINE kept == IF on THEN before ELSE None
  <2>1. kept \in {None, 1, 2} /\ RefreshHost(Unknown, TRUE, on, kept)
    BY <1>11 DEF SetBatteryPowerSave
  <2>2. /\ profile' \in Profiles \cup {None} /\ noticed' = source
        /\ save' \in BOOLEAN /\ before' \in {None, 1, 2}
        /\ queue' \in Seq(Requests) /\ Len(queue') <= Capacity
        /\ received' = received
    BY <2>1, RefreshTypes
  <2>3. BatteryEpisode(on)
    BY <1>11 DEF SetBatteryPowerSave
  <2>4. usual' \in Profiles /\ untouched' \in BOOLEAN
    BY <2>3 DEF BatteryEpisode
  <2> QED
    BY <2>2, <2>3, <2>4 DEF BatteryEpisode, watcher
<1>12. CASE Unplug
  <2>1. /\ source' \in Sources /\ notified' \in BOOLEAN /\ usual' \in Profiles
        /\ untouched' \in BOOLEAN /\ calm' \in BOOLEAN /\ informed' \in BOOLEAN
    BY <1>12 DEF Unplug, Sources, Settled
  <2>6. /\ UNCHANGED <<active, profile, noticed, save, before, queue>>
        /\ UNCHANGED <<received, command, cache, recovery, watch, seen>>
    BY <1>12 DEF Unplug, belief, saved, requests
  <2>7. /\ save' \in BOOLEAN /\ recovery' \in BOOLEAN
    BY <2>6
  <2>8. /\ notified' \in BOOLEAN /\ untouched' \in BOOLEAN /\ calm' \in BOOLEAN
        /\ informed' \in BOOLEAN
    BY <1>12 DEF Unplug, Settled
  <2> QED
    BY <2>1, <2>6, <2>7, <2>8
<1>13. CASE Replug
  <2>1. source' \in Sources /\ notified' \in BOOLEAN /\ calm' \in BOOLEAN
    BY <1>13 DEF Replug, Sources, Settled
  <2>6. /\ UNCHANGED <<active, profile, noticed, save, before, queue, received>>
        /\ UNCHANGED <<command, cache, recovery, watch, seen, usual,
                    untouched, informed>>
    BY <1>13 DEF Replug, belief, saved, requests
  <2>7. /\ save' \in BOOLEAN /\ recovery' \in BOOLEAN /\ untouched' \in BOOLEAN
        /\ informed' \in BOOLEAN
    BY <2>6
  <2>8. /\ notified' \in BOOLEAN /\ calm' \in BOOLEAN
    BY <1>13 DEF Replug
  <2> QED
    BY <2>1, <2>6, <2>7, <2>8
<1>14. ASSUME NEW i \in Profiles, DesktopSets(i)
       PROVE  TypeOK'
  <2>1. active' \in Profiles /\ notified' \in BOOLEAN /\ calm' \in BOOLEAN
    BY <1>14 DEF DesktopSets
  <2>6. /\ UNCHANGED <<source, profile, noticed, save, before, queue, received>>
        /\ UNCHANGED <<command, cache, recovery, watch, seen, usual, informed>>
    BY <1>14 DEF DesktopSets, belief, saved, requests
  <2>7. /\ save' \in BOOLEAN /\ recovery' \in BOOLEAN /\ informed' \in BOOLEAN
    BY <2>6
  <2>8. /\ notified' \in BOOLEAN /\ untouched' \in BOOLEAN /\ calm' \in BOOLEAN
    BY <1>14 DEF DesktopSets
  <2> QED
    BY <2>1, <2>6, <2>7, <2>8
<1>15. CASE Restart
  <2>1. PICK read \in {active, None} :
          LET switch == HostSwitch(read, Unknown, TRUE, save, before)
          IN  /\ before' = switch.before
              /\ \/ /\ switch.ask # None
                    /\ active' = switch.ask
                    /\ profile' = switch.ask
                    /\ UNCHANGED untouched
                 \/ /\ profile' = read
                    /\ untouched' = (untouched /\ switch.ask = None)
                    /\ UNCHANGED active
              /\ cache' = profile'
              /\ noticed' = source
              /\ queue' = <<>> /\ received' = None /\ command' = Idle
              /\ notified' = TRUE /\ recovery' = TRUE
              /\ watch' = "idle" /\ seen' = None
              /\ informed' = (informed /\ Settled /\ read = active)
              /\ UNCHANGED <<source, save, usual, calm>>
    BY <1>15 DEF Restart
  <2> DEFINE switch == HostSwitch(read, Unknown, TRUE, save, before)
  <2> read \in Profiles \cup {None}
    OBVIOUS
  <2>2. switch.before \in {None, 1, 2} /\ switch.ask \in Profiles \cup {None}
    BY SwitchTypes
  <2> HIDE DEF switch
  <2>3. active' \in Profiles /\ profile' \in Profiles \cup {None}
    BY <2>1, <2>2 DEF switch
  <2>4. before' \in {None, 1, 2}
    BY <2>1, <2>2 DEF switch
  <2>5. untouched' \in BOOLEAN /\ informed' \in BOOLEAN
    BY <2>1
  <2>6. queue' \in Seq(Requests) /\ Len(queue') <= Capacity
    BY <2>1, ProfileAssumption
  <2> QED
    BY <2>1, <2>3, <2>4, <2>5, <2>6
<1>16. CASE UNCHANGED vars
  BY <1>16 DEF vars, belief, saved, requests, watcher, histories
<1> QED
  BY <1>1, <1>2, <1>3, <1>4, <1>5, <1>6, <1>7, <1>8, <1>9, <1>10, <1>11,
     <1>12, <1>13, <1>14, <1>15, <1>16 DEF Next, Daemon

(* Every step keeps the rest of the invariant.                             *)
LEMMA NextFollows ==
  ASSUME IInv, [Next]_vars
  PROVE  ReadIsFresh' /\ AppliedIsActive' /\ SourceFollows' /\ ProfileFollows'
<1> USE DEF IInv, ReadIsFresh, AppliedIsActive, SourceFollows, ProfileFollows
<1>1. CASE WatchReads
  <2>1. seen' = active \/ (seen' = None /\ recovery')
    BY <1>1 DEF WatchReads
  <2>2. /\ watch' = "read" /\ UNCHANGED <<active, command, calm>>
    BY <1>1 DEF WatchReads, histories
  <2> QED
    BY <2>1, <2>2
<1>2. CASE WatchStores
  <2>1. active # None
    BY DEF TypeOK, Profiles, None
  <2>2. /\ watch = "read" /\ watch' = "stored"
        /\ cache' = IF seen = None THEN cache ELSE seen
        /\ UNCHANGED <<active, command, notified, recovery, calm>>
    BY <1>2 DEF WatchStores, histories
  <2> QED
    BY <2>1, <2>2
<1>3. CASE WatchRefreshes
  <2>1. RefreshHost(noticed, FALSE, save, before)
    BY <1>3 DEF WatchRefreshes
  <2>2. profile' = Known /\ noticed' = source
    BY <2>1 DEF RefreshHost
  <2>3. active \in Profiles /\ (cache = active => Known = active)
    BY DEF TypeOK, Known, Profiles, None
  <2> QED
    BY <1>3, <2>2, <2>3 DEF WatchRefreshes, histories
<1>4. CASE WorkerReceives
  BY <1>4 DEF WorkerReceives, belief, watcher, histories
<1>5. CASE WorkerStarts
  BY <1>5 DEF WorkerStarts, belief, watcher, histories, Idle
<1>6. ASSUME NEW i \in Profiles, ClientStarts(i)
      PROVE  ReadIsFresh' /\ AppliedIsActive' /\ SourceFollows' /\ ProfileFollows'
  BY <1>6 DEF ClientStarts, belief, watcher, Idle
<1>7. CASE CommandApplies
  <2>1. command \in Commands
    BY <1>7 DEF CommandApplies, TypeOK
  <2>2. command'.index = command.index /\ command'.applied
    BY <1>7, <2>1 DEF CommandApplies, Commands
  <2> QED
    BY <1>7, <2>2 DEF CommandApplies, belief, histories
<1>8. CASE CommandFails
  BY <1>8 DEF CommandFails, belief, Idle
<1>9. CASE CommandCompletes
  BY <1>9 DEF CommandCompletes, watcher, histories, Idle
<1>10. CASE CyclePressed
  BY <1>10 DEF CyclePressed, belief, watcher
<1>11. ASSUME NEW on \in BOOLEAN, SetBatteryPowerSave(on)
       PROVE  ReadIsFresh' /\ AppliedIsActive' /\ SourceFollows' /\ ProfileFollows'
  <2>1. profile' = Known /\ noticed' = source
    BY <1>11 DEF SetBatteryPowerSave, RefreshHost
  <2>2. UNCHANGED <<source, active, command, cache, watcher, calm, informed>>
    BY <1>11 DEF SetBatteryPowerSave, BatteryEpisode
  <2>3. active \in Profiles /\ (cache = active => Known = active)
    BY DEF TypeOK, Known, Profiles, None
  <2> QED
    BY <2>1, <2>2, <2>3 DEF watcher
<1>12. CASE Unplug
  <2>1. calm' => command = Idle
    BY <1>12 DEF Unplug, Settled
  <2>2. notified' /\ command' = command
    BY <1>12 DEF Unplug
  <2> QED
    BY <2>1, <2>2 DEF Idle
<1>13. CASE Replug
  BY <1>13 DEF Replug
<1>14. ASSUME NEW i \in Profiles, DesktopSets(i)
       PROVE  ReadIsFresh' /\ AppliedIsActive' /\ SourceFollows' /\ ProfileFollows'
  BY <1>14 DEF DesktopSets
<1>15. CASE Restart
  BY <1>15 DEF Restart, Idle
<1>16. CASE UNCHANGED vars
  BY <1>16 DEF vars, belief, saved, requests, watcher, histories
<1> QED
  BY <1>1, <1>2, <1>3, <1>4, <1>5, <1>6, <1>7, <1>8, <1>9, <1>10, <1>11,
     <1>12, <1>13, <1>14, <1>15, <1>16 DEF Next, Daemon

(* try_send onto requests that all ask for p, of p or of nothing.          *)
LEMMA EnqueueOnly ==
  ASSUME NEW p \in Requests, NEW request \in {p, None}, Enqueue(request),
         queue \in Seq(Requests),
         \A i \in 1..Len(queue) : queue[i] = p
  PROVE  /\ \A i \in 1..Len(queue') : queue'[i] = p
         /\ queue # <<>> => queue' # <<>>
         /\ request = p /\ p # None => queue' # <<>>
<1>1. CASE request # None /\ Len(queue) < Capacity
  <2>1. queue' = Append(queue, p) /\ p \in Requests
    BY <1>1 DEF Enqueue
  <2>2. Len(queue') = Len(queue) + 1 /\ Len(queue) \in Nat
    BY <2>1
  <2>3. ASSUME NEW i \in 1..Len(queue') PROVE queue'[i] = p
    BY <2>1, <2>2, <2>3
  <2> QED
    BY <2>2, <2>3
<1>2. CASE ~(request # None /\ Len(queue) < Capacity)
  <2>1. queue' = queue
    BY <1>2 DEF Enqueue
  <2>2. ASSUME request = p, p # None PROVE queue # <<>>
    <3>1. ~(Len(queue) < Capacity) /\ Capacity \in Nat \ {0}
      BY <1>2, <2>2, ProfileAssumption
    <3>2. queue = <<>> => Len(queue) = 0
      OBVIOUS
    <3> QED
      BY <3>1, <3>2
  <2> QED
    BY <2>1, <2>2
<1> QED
  BY <1>1, <1>2

(* Nothing asked of the channel leaves it as it is.                        *)
LEMMA EnqueueNothing == Enqueue(None) => queue' = queue
  BY DEF Enqueue

(* What refresh_host makes of a charger it notices, of one it knew, and of *)
(* the option, on battery.                                                 *)
LEMMA SwitchCases ==
  ASSUME NEW p \in Profiles, NEW kept \in {None, 1, 2}, NEW forced \in BOOLEAN,
         NEW w, source \in Sources
  PROVE  /\ ~forced /\ w = source =>
              HostSwitch(p, w, forced, TRUE, kept) = KeepMode(kept)
         /\ w # source /\ source = "battery" =>
              HostSwitch(p, w, forced, TRUE, kept) = SwitchToSave(p, kept)
         /\ w # source /\ source = "ac" =>
              HostSwitch(p, w, forced, TRUE, kept) = SwitchBack(p, kept)
         /\ HostSwitch(p, w, forced, FALSE, kept) = KeepMode(kept)
  BY DEF HostSwitch, Sources

(* Every step keeps the four stations of an episode.                       *)
LEMMA NextEpisode ==
  ASSUME IInv, [Next]_vars
  PROVE  EpisodeFollows'

<1> USE DEF EpisodeFollows
<1>0. /\ TypeOK /\ ProfileIsCached /\ ModeIsRemembered
      /\ Unplugged /\ Saving /\ Replugged /\ Restoring
  BY DEF IInv
<1>t. TypeOK'
  BY <1>0, NextTypes
<1>1. CASE WatchReads
  <2>1. /\ watch' = "read" /\ seen' \in {active, None} /\ watch = "idle"
        /\ UNCHANGED <<source, active, profile, noticed, save, before, queue>>
        /\ UNCHANGED <<received, command, cache, usual, untouched, calm, informed>>
    BY <1>1 DEF WatchReads, belief, saved, requests, histories
  <2>2. ProfileIsCached' /\ ModeIsRemembered'
    BY <2>1, <1>0 DEF ProfileIsCached, ModeIsRemembered
  <2>3. Unplugged' /\ Replugged'
    BY <2>1, <1>0 DEF Unplugged, Replugged, Episode, Resting, Remembered
  <2>4. Saving'
    BY <2>1, <1>0 DEF Saving, Episode, OnlyAsks, Asked, Remembered
  <2>5. Restoring'
    BY <2>1, <1>0 DEF Restoring, Episode, OnlyAsks, Asked
  <2> QED
    BY <2>2, <2>3, <2>4, <2>5
<1>2. CASE WatchStores
  <2>1. /\ watch' = "stored" /\ seen' = None
        /\ cache' = IF seen = None THEN cache ELSE seen
        /\ UNCHANGED <<source, active, profile, noticed, save, before, queue>>
        /\ UNCHANGED <<received, command, usual, untouched, calm, informed>>
        /\ watch = "read"
    BY <1>2 DEF WatchStores, belief, saved, requests, histories
  <2>2. ProfileIsCached' /\ ModeIsRemembered'
    BY <2>1, <1>0 DEF ProfileIsCached, ModeIsRemembered
  <2>3. Unplugged' /\ Replugged'
    BY <2>1, <1>0 DEF Unplugged, Replugged, Episode, Resting, Remembered
  <2>4. Saving'
    BY <2>1, <1>0 DEF Saving, Episode, OnlyAsks, Asked, Remembered
  <2>5. Restoring'
    BY <2>1, <1>0 DEF Restoring, Episode, OnlyAsks, Asked
  <2> QED
    BY <2>2, <2>3, <2>4, <2>5
<1>3. CASE WatchRefreshes
  <2> DEFINE switch == HostSwitch(Known, noticed, FALSE, save, before)
  <2>1. /\ profile' = Known /\ noticed' = source /\ save' = save
        /\ before' = switch.before /\ Enqueue(switch.ask)
        /\ watch = "stored" /\ watch' = "idle"
        /\ UNCHANGED <<source, active, received, command, cache, seen>>
        /\ UNCHANGED <<usual, untouched, calm, informed>>
    BY <1>3 DEF WatchRefreshes, RefreshHost, histories
  <2> HIDE DEF switch
  <2>2. ProfileIsCached'
    BY <2>1, <1>0 DEF ProfileIsCached, Known
  <2>3. before \in {None, 1, 2} /\ source \in Sources /\ noticed \in Sources
        /\ usual \in Profiles /\ save \in BOOLEAN
    BY <1>0 DEF TypeOK
  <2>4. ModeIsRemembered'
    <3>1. CASE ~save \/ noticed = source
      <4>1. switch = KeepMode(before)
        BY <3>1, <2>3 DEF switch, HostSwitch
      <4> QED
        BY <3>1, <4>1, <2>1, <1>0 DEF KeepMode, ModeIsRemembered
    <3>2. CASE save /\ noticed # source /\ source = "ac"
      <4>1. switch = SwitchBack(Known, before)
        BY <3>2, <2>3 DEF switch, HostSwitch
      <4> QED
        BY <4>1, <2>1 DEF SwitchBack, ModeIsRemembered
    <3>3. CASE save /\ source = "battery"
      BY <3>3, <2>1 DEF ModeIsRemembered
    <3> QED
      BY <3>1, <3>2, <3>3, <2>3 DEF Sources
  <2>5. CASE ~Episode
    <3>1. ~Episode'
      BY <2>5, <2>1 DEF Episode
    <3> QED
      BY <3>1, <2>2, <2>4 DEF Unplugged, Saving, Replugged, Restoring
  <2>6. CASE Episode /\ noticed = source
    <3>1. switch = KeepMode(before)
      BY <2>6, <2>3 DEF switch, HostSwitch, Episode
    <3>2. before' = before /\ queue' = queue
      BY <3>1, <2>1, EnqueueNothing DEF KeepMode
    <3>3. Unplugged' /\ Replugged'
      BY <2>1, <2>6 DEF Unplugged, Replugged
    <3>4. Saving'
      BY <3>2, <2>1, <2>6, <1>0 DEF Saving, Episode, OnlyAsks, Asked, Remembered
    <3>5. Restoring'
      BY <3>2, <2>1, <2>6, <1>0 DEF Restoring, Episode, OnlyAsks, Asked
    <3> QED
      BY <3>3, <3>4, <3>5, <2>2, <2>4
  <2>7. CASE Episode /\ source = "battery" /\ noticed = "ac"
    <3>1. /\ Resting /\ before = None
          /\ active = usual /\ cache = usual /\ seen \in {usual, None}
      BY <2>7, <1>0 DEF Unplugged
    <3>2. Known = usual /\ usual # None
      BY <3>1, <2>3 DEF Known, Profiles, None
    <3>3. switch = SwitchToSave(usual, None)
      BY <3>1, <3>2, <2>7, <2>3 DEF switch, HostSwitch, Episode
    <3>4. Unplugged' /\ Replugged' /\ Restoring'
      BY <2>1, <2>7 DEF Unplugged, Replugged, Restoring
    <3>5. CASE usual = PowerSave
      <4>1. before' = None /\ queue' = queue
        BY <3>3, <3>5, <3>2, <2>1, EnqueueNothing
        DEF SwitchToSave, KeepMode, OrBalanced
      <4>2. received' = None /\ command' = Idle /\ queue' = <<>>
        BY <4>1, <3>1, <2>1 DEF Resting
      <4>3. OnlyAsks(PowerSave)'
        <5>1. Len(queue') = 0
          BY <4>2
        <5> QED
          BY <4>2, <5>1 DEF OnlyAsks
      <4>4. Remembered' = None
        BY <3>5, <2>1 DEF Remembered
      <4>5. Saving'
        BY <4>1, <4>3, <4>4, <3>1, <3>5, <2>1 DEF Saving
      <4> QED
        BY <4>5, <3>4, <2>2, <2>4
    <3>6. CASE usual # PowerSave
      <4>1. before' = usual /\ Enqueue(PowerSave)
        BY <3>3, <3>6, <3>2, <2>1 DEF SwitchToSave, OrBalanced
      <4>2. PowerSave \in Requests /\ PowerSave # None
        BY DEF PowerSave, Requests, Profiles, None
      <4>3. queue = <<>> /\ queue \in Seq(Requests) /\ Len(queue) = 0
        BY <3>1, <1>0 DEF Resting, TypeOK
      <4>4. queue' # <<>> /\ \A i \in 1..Len(queue') : queue'[i] = PowerSave
        BY <4>1, <4>2, <4>3, EnqueueOnly
      <4>5. Saving'
        BY <4>1, <4>4, <3>1, <3>6, <2>1
        DEF Saving, Resting, OnlyAsks, Asked, Remembered
      <4> QED
        BY <4>5, <3>4, <2>2, <2>4
    <3> QED
      BY <3>5, <3>6
  <2>8. CASE Episode /\ source = "ac" /\ noticed = "battery"
    <3>1. /\ Resting /\ before = Remembered
          /\ active = PowerSave /\ cache = PowerSave
      BY <2>8, <1>0 DEF Replugged
    <3>2. Known = PowerSave
      BY <3>1 DEF Known, PowerSave, None
    <3>3. switch = SwitchBack(PowerSave, Remembered)
      BY <3>1, <3>2, <2>8, <2>3 DEF switch, HostSwitch, Episode
    <3>4. Enqueue(Remembered)
      BY <3>3, <2>1 DEF SwitchBack
    <3>5. Unplugged' /\ Saving' /\ Replugged'
      BY <2>1, <2>8 DEF Unplugged, Saving, Replugged
    <3>6. queue = <<>> /\ queue \in Seq(Requests) /\ Len(queue) = 0
      BY <3>1, <1>0 DEF Resting, TypeOK
    <3>7. CASE usual = PowerSave
      <4>1. queue' = queue
        BY <3>4, <3>7, EnqueueNothing DEF Remembered
      <4>2. Restoring'
        BY <4>1, <3>1, <3>6, <3>7, <2>1 DEF Restoring, Resting, OnlyAsks
      <4> QED
        BY <4>2, <3>5, <2>2, <2>4
    <3>8. CASE usual # PowerSave
      <4>1. Enqueue(usual) /\ usual \in Requests /\ usual # None
        BY <3>4, <3>8, <2>3 DEF Remembered, Requests, Profiles, None
      <4>2. queue' # <<>> /\ \A i \in 1..Len(queue') : queue'[i] = usual
        BY <4>1, <3>6, EnqueueOnly
      <4>3. Restoring'
        BY <4>2, <3>1, <2>1 DEF Restoring, Resting, OnlyAsks, Asked
      <4> QED
        BY <4>3, <3>5, <2>2, <2>4
    <3> QED
      BY <3>7, <3>8
  <2> QED
    BY <2>3, <2>5, <2>6, <2>7, <2>8 DEF Sources
<1>4. CASE WorkerReceives
  <2>1. /\ queue # <<>> /\ received = None
        /\ received' = Head(queue) /\ queue' = Tail(queue)
        /\ UNCHANGED <<source, active, profile, noticed, save, before, command>>
        /\ UNCHANGED <<cache, watch, seen, usual, untouched, calm, informed>>
    BY <1>4 DEF WorkerReceives, belief, saved, watcher, histories
  <2>2. queue \in Seq(Requests) /\ Len(queue) \in Nat \ {0}
    BY <2>1, <1>0 DEF TypeOK
  <2>3. /\ Head(queue) = queue[1] /\ Len(Tail(queue)) = Len(queue) - 1
        /\ \A i \in 1..Len(Tail(queue)) : Tail(queue)[i] = queue[i + 1]
        /\ queue[1] \in Requests
    BY <2>2
  <2>4. ASSUME NEW p, OnlyAsks(p) PROVE OnlyAsks(p)'
    BY <2>4, <2>1, <2>2, <2>3 DEF OnlyAsks
  <2>5. received' # None
    BY <2>1, <2>3 DEF Requests, Profiles, Cycle, None
  <2>6. ProfileIsCached' /\ ModeIsRemembered'
    BY <2>1, <1>0 DEF ProfileIsCached, ModeIsRemembered
  <2>7. Unplugged' /\ Replugged'
    BY <2>1, <1>0 DEF Unplugged, Replugged, Episode, Resting
  <2>8. Saving' /\ Restoring'
    BY <2>1, <2>4, <2>5, <1>0 DEF Saving, Restoring, Episode, Asked, Remembered
  <2> QED
    BY <2>6, <2>7, <2>8
<1>5. CASE WorkerStarts
  <2>1. /\ received # None /\ command = Idle /\ received' = None
        /\ received # Cycle => command'.index = received
        /\ command'.applied = FALSE /\ command'.by = "worker"
        /\ UNCHANGED <<source, active, profile, noticed, save, before, queue>>
        /\ UNCHANGED <<cache, watch, seen, usual, untouched, calm, informed>>
    BY <1>5 DEF WorkerStarts, belief, saved, watcher, histories
  <2>2. command' # Idle
    BY <2>1 DEF Idle
  <2>3. usual # Cycle /\ PowerSave # Cycle
    BY <1>0 DEF TypeOK, Profiles, Cycle, PowerSave
  <2>4. ASSUME NEW p, p # Cycle, OnlyAsks(p) PROVE OnlyAsks(p)'
    BY <2>4, <2>1 DEF OnlyAsks
  <2>5. ProfileIsCached' /\ ModeIsRemembered'
    BY <2>1, <1>0 DEF ProfileIsCached, ModeIsRemembered
  <2>6. Unplugged' /\ Replugged'
    BY <2>1, <1>0 DEF Unplugged, Replugged, Episode, Resting
  <2>7. Saving' /\ Restoring'
    BY <2>1, <2>2, <2>3, <2>4, <1>0
    DEF Saving, Restoring, Episode, Asked, Remembered
  <2> QED
    BY <2>5, <2>6, <2>7
<1>6. ASSUME NEW i \in Profiles, ClientStarts(i) PROVE EpisodeFollows'
  <2>1. /\ UNCHANGED <<profile, noticed, save, before, cache, watch, seen>>
        /\ untouched' = FALSE
    BY <1>6 DEF ClientStarts, belief, saved, watcher
  <2> QED
    BY <2>1, <1>0 DEF ProfileIsCached, ModeIsRemembered, Episode, Unplugged,
                      Saving, Replugged, Restoring
<1>7. CASE CommandApplies
  <2>1. /\ command # Idle /\ command \in Commands
        /\ command' = [command EXCEPT !.applied = TRUE]
        /\ active' = command.index
        /\ UNCHANGED <<source, profile, noticed, save, before, queue, received>>
        /\ UNCHANGED <<cache, watch, seen, usual, untouched, calm, informed>>
    BY <1>7, <1>0 DEF CommandApplies, belief, saved, requests, histories, TypeOK
  <2>2. command'.index = command.index
    BY <2>1 DEF Commands
  <2>3. ASSUME NEW p, OnlyAsks(p) PROVE OnlyAsks(p)' /\ active' = p
    BY <2>3, <2>1, <2>2 DEF OnlyAsks
  <2>4. ProfileIsCached' /\ ModeIsRemembered'
    BY <2>1, <1>0 DEF ProfileIsCached, ModeIsRemembered
  <2>5. Unplugged' /\ Replugged'
    BY <2>1, <1>0 DEF Unplugged, Replugged, Episode, Resting
  <2>6. Saving' /\ Restoring'
    BY <2>1, <2>3, <1>0 DEF Saving, Restoring, Episode, Remembered
  <2> QED
    BY <2>4, <2>5, <2>6
<1>8. CASE CommandFails
  <2>1. /\ UNCHANGED <<profile, noticed, save, before, cache, watch, seen>>
        /\ untouched' = FALSE
    BY <1>8 DEF CommandFails, belief, saved
  <2> QED
    BY <2>1, <1>0 DEF ProfileIsCached, ModeIsRemembered, Episode, Unplugged,
                      Saving, Replugged, Restoring
<1>9. CASE CommandCompletes
  <2>1. /\ command.applied /\ command' = Idle
        /\ profile' = command.index /\ cache' = command.index
        /\ UNCHANGED <<source, active, noticed, save, before, queue, received>>
        /\ UNCHANGED <<watch, seen, usual, untouched, calm, informed>>
    BY <1>9 DEF CommandCompletes, saved, requests, watcher, histories
  <2>2. command # Idle /\ command \in Commands
    BY <2>1, <1>0 DEF Idle, TypeOK
  <2>3. calm => command.index = active
    BY <2>1 DEF IInv, AppliedIsActive
  <2>4. ASSUME NEW p, OnlyAsks(p) PROVE OnlyAsks(p)' /\ command.index = p
    BY <2>4, <2>1, <2>2 DEF OnlyAsks
  <2>5. ProfileIsCached' /\ ModeIsRemembered'
    BY <2>1, <1>0 DEF ProfileIsCached, ModeIsRemembered
  <2>6. Unplugged' /\ Replugged'
    BY <2>1, <2>2, <1>0 DEF Unplugged, Replugged, Episode, Resting
  <2>7. Saving' /\ Restoring'
    BY <2>1, <2>2, <2>3, <2>4, <1>0
    DEF Saving, Restoring, Episode, Remembered, Asked
  <2> QED
    BY <2>5, <2>6, <2>7
<1>10. CASE CyclePressed
  <2>1. /\ UNCHANGED <<profile, noticed, save, before, cache, watch, seen>>
        /\ untouched' = FALSE
    BY <1>10 DEF CyclePressed, belief, saved, watcher
  <2> QED
    BY <2>1, <1>0 DEF ProfileIsCached, ModeIsRemembered, Episode, Unplugged,
                      Saving, Replugged, Restoring
<1>11. ASSUME NEW on \in BOOLEAN, SetBatteryPowerSave(on) PROVE EpisodeFollows'
  <2> DEFINE kept == IF on THEN before ELSE None
             switch == HostSwitch(Known, Unknown, TRUE, on, kept)
  <2>1. /\ profile' = Known /\ noticed' = source /\ save' = on
        /\ before' = switch.before /\ Enqueue(switch.ask)
        /\ UNCHANGED <<source, active, received, command, cache, watch, seen>>
        /\ UNCHANGED <<calm, informed>>
    BY <1>11 DEF SetBatteryPowerSave, BatteryEpisode, RefreshHost, watcher
  <2>2. LET starts == on /\ ~save /\ source = "battery" /\ Settled
        IN  /\ usual' = IF starts THEN active ELSE usual
            /\ untouched' =
                 (starts \/ (untouched /\ on /\ save /\ source = "battery"))
    BY <1>11 DEF SetBatteryPowerSave, BatteryEpisode
  <2> HIDE DEF switch
  <2>3. /\ before \in {None, 1, 2} /\ source \in Sources /\ save \in BOOLEAN
        /\ usual \in Profiles /\ active \in Profiles /\ noticed \in Sources
        /\ queue \in Seq(Requests)
    BY <1>0 DEF TypeOK
  <2>4. ProfileIsCached'
    BY <2>1, <1>0 DEF ProfileIsCached, Known
  <2>5. ModeIsRemembered'
    <3>1. CASE ~on
      BY <3>1, <2>1 DEF switch, HostSwitch, KeepMode, ModeIsRemembered
    <3>2. CASE on /\ source = "ac"
      <4>1. switch = SwitchBack(Known, kept)
        BY <3>2 DEF switch, HostSwitch, Unknown
      <4> QED
        BY <4>1, <2>1 DEF SwitchBack, ModeIsRemembered
    <3>3. CASE on /\ source = "battery"
      BY <3>3, <2>1 DEF ModeIsRemembered
    <3> QED
      BY <3>1, <3>2, <3>3, <2>3 DEF Sources
  <2>6. CASE ~Episode'
    BY <2>6, <2>4, <2>5 DEF Unplugged, Saving, Replugged, Restoring
  <2>7. CASE Episode'
    <3>1. on /\ source = "battery"
      BY <2>7, <2>2 DEF Episode
    <3>2. switch = SwitchToSave(Known, before)
      BY <3>1 DEF switch, HostSwitch, Unknown
    <3>3. Unplugged' /\ Replugged' /\ Restoring'
      BY <2>1, <3>1 DEF Unplugged, Replugged, Restoring
    <3>4. /\ Known \in {usual', PowerSave} /\ cache \in {usual', PowerSave}
          /\ active \in {usual', PowerSave} /\ seen \in {usual', PowerSave, None}
          /\ OnlyAsks(PowerSave)
          /\ usual' \in Profiles
          /\ before = None \/ before = Remembered'
          /\ Known = PowerSave =>
               /\ active = PowerSave \/ Asked
               /\ before = Remembered'
      <4>1. CASE ~save
        <5>1. usual' = active /\ Settled /\ calm
          BY <4>1, <2>1, <2>2, <2>7, <2>3, <3>1 DEF Episode
        <5>2. cache = active
          BY <5>1 DEF IInv, ProfileFollows, Settled, Idle
        <5>3. Known = active
          BY <5>2, <2>3 DEF Known, Profiles, None
        <5>4. before = None
          BY <4>1, <1>0 DEF ModeIsRemembered
        <5>5. seen = None /\ OnlyAsks(PowerSave)
          BY <5>1, <1>0 DEF Settled, ProfileIsCached, OnlyAsks
        <5> QED
          BY <5>1, <5>2, <5>3, <5>4, <5>5, <2>3 DEF Remembered
      <4>2. CASE save
        <5>1. Episode /\ usual' = usual
          BY <4>2, <2>1, <2>2, <2>7 DEF Episode
        <5>2. CASE noticed = "ac"
          <6>1. /\ Resting /\ before = None
                /\ active = usual /\ cache = usual /\ seen \in {usual, None}
            BY <5>1, <5>2, <3>1, <1>0 DEF Unplugged
          <6>2. Known = usual
            BY <6>1, <2>3 DEF Known, Profiles, None
          <6>3. OnlyAsks(PowerSave)
            BY <6>1 DEF Resting, OnlyAsks
          <6> QED
            BY <6>1, <6>2, <6>3, <5>1, <2>3 DEF Remembered
        <5>3. CASE noticed = "battery"
          <6>1. /\ OnlyAsks(PowerSave) /\ before = Remembered
                /\ active \in {usual, PowerSave} /\ cache \in {usual, PowerSave}
                /\ seen \in {usual, PowerSave, None}
                /\ active = PowerSave \/ Asked
            BY <5>1, <5>3, <3>1, <1>0 DEF Saving
          <6>2. cache # None
            BY <6>1, <2>3 DEF Profiles, PowerSave, None
          <6>3. Known = cache
            BY <6>2 DEF Known
          <6> QED
            BY <6>1, <6>3, <5>1, <2>3 DEF Remembered
        <5> QED
          BY <5>2, <5>3, <2>3 DEF Sources
      <4> QED
        BY <4>1, <4>2, <2>3
    <3>5. Known # None
      BY <3>4 DEF Profiles, PowerSave, None
    <3>6. CASE Known = PowerSave
      <4>1. before' = before /\ queue' = queue
        BY <3>2, <3>6, <3>5, <2>1, EnqueueNothing
        DEF SwitchToSave, KeepMode, OrBalanced
      <4>2. Saving'
        BY <4>1, <3>4, <3>6, <2>1 DEF Saving, OnlyAsks, Asked, Remembered
      <4> QED
        BY <4>2, <3>3, <2>4, <2>5
    <3>7. CASE Known # PowerSave
      <4>1. before' = usual' /\ Enqueue(PowerSave) /\ Known = usual'
        BY <3>2, <3>4, <3>5, <3>7, <2>1 DEF SwitchToSave, OrBalanced
      <4>2. PowerSave \in Requests /\ PowerSave # None
        BY DEF PowerSave, Requests, Profiles, None
      <4>3. queue' # <<>> /\ \A i \in 1..Len(queue') : queue'[i] = PowerSave
        BY <4>1, <4>2, <3>4, <2>3, EnqueueOnly DEF OnlyAsks
      <4>4. Saving'
        BY <4>1, <4>3, <3>4, <3>7, <2>1 DEF Saving, OnlyAsks, Asked, Remembered
      <4> QED
        BY <4>4, <3>3, <2>4, <2>5
    <3> QED
      BY <3>6, <3>7
  <2> QED
    BY <2>6, <2>7
<1>12. CASE Unplug
  <2>1. /\ source = "ac" /\ source' = "battery"
        /\ usual' = active /\ untouched' = Settled
        /\ calm' = (Settled /\ profile = active)
        /\ UNCHANGED <<active, profile, noticed, save, before, queue>>
        /\ UNCHANGED <<received, command, cache, watch, seen>>
    BY <1>12 DEF Unplug, belief, saved, requests
  <2>2. ProfileIsCached' /\ ModeIsRemembered'
    BY <2>1, <1>0 DEF ProfileIsCached, ModeIsRemembered
  <2>3. CASE ~Episode'
    BY <2>3, <2>2 DEF Unplugged, Saving, Replugged, Restoring
  <2>4. CASE Episode'
    <3>1. Settled /\ profile = active
      BY <2>4, <2>1 DEF Episode
    <3>2. noticed = "ac"
      BY <3>1, <2>1 DEF IInv, SourceFollows, Settled
    <3>3. before = None
      BY <3>2, <1>0 DEF ModeIsRemembered
    <3>4. cache = active /\ seen = None
      BY <3>1, <1>0 DEF ProfileIsCached, Settled
    <3>5. Unplugged'
      BY <3>1, <3>3, <3>4, <2>1 DEF Unplugged, Resting, Settled
    <3> QED
      BY <3>2, <3>5, <2>1, <2>2 DEF Saving, Replugged, Restoring
  <2> QED
    BY <2>3, <2>4
<1>13. CASE Replug
  <2>1. /\ source = "battery" /\ source' = "ac"
        /\ calm' = (calm /\ Settled)
        /\ UNCHANGED <<active, profile, noticed, save, before, queue, received>>
        /\ UNCHANGED <<command, cache, watch, seen, usual, untouched, informed>>
    BY <1>13 DEF Replug, belief, saved, requests
  <2>2. ProfileIsCached' /\ ModeIsRemembered'
    BY <2>1, <1>0 DEF ProfileIsCached, ModeIsRemembered
  <2>3. CASE ~Episode'
    BY <2>3, <2>2 DEF Unplugged, Saving, Replugged, Restoring
  <2>4. CASE Episode'
    <3>1. Settled /\ Episode
      BY <2>4, <2>1 DEF Episode
    <3>2. noticed = "battery"
      BY <3>1, <2>1 DEF IInv, SourceFollows, Settled
    <3>3. cache = active /\ seen = None
      BY <3>1, <1>0 DEF IInv, ProfileFollows, ProfileIsCached, Settled, Idle,
                        Episode
    <3>4. before = Remembered /\ active = PowerSave
      BY <3>1, <3>2, <2>1, <1>0 DEF Saving, Asked, Settled
    <3>5. Replugged'
      BY <3>1, <3>3, <3>4, <2>1 DEF Replugged, Resting, Settled, Remembered
    <3> QED
      BY <3>2, <3>5, <2>1, <2>2 DEF Unplugged, Saving, Restoring
  <2> QED
    BY <2>3, <2>4
<1>14. ASSUME NEW i \in Profiles, DesktopSets(i) PROVE EpisodeFollows'
  <2>1. /\ UNCHANGED <<profile, noticed, save, before, cache, watch, seen>>
        /\ untouched' = FALSE
    BY <1>14 DEF DesktopSets, belief, saved
  <2> QED
    BY <2>1, <1>0 DEF ProfileIsCached, ModeIsRemembered, Episode, Unplugged,
                      Saving, Replugged, Restoring
<1>15. CASE Restart
  <2>1. PICK read \in {active, None} :
          LET switch == HostSwitch(read, Unknown, TRUE, save, before)
          IN  /\ before' = switch.before
              /\ \/ /\ switch.ask # None
                    /\ active' = switch.ask
                    /\ profile' = switch.ask
                    /\ UNCHANGED untouched
                 \/ /\ profile' = read
                    /\ untouched' = (untouched /\ switch.ask = None)
                    /\ UNCHANGED active
              /\ cache' = profile'
              /\ noticed' = source
              /\ queue' = <<>> /\ received' = None /\ command' = Idle
              /\ notified' = TRUE /\ recovery' = TRUE
              /\ watch' = "idle" /\ seen' = None
              /\ informed' = (informed /\ Settled /\ read = active)
              /\ UNCHANGED <<source, save, usual, calm>>
    BY <1>15 DEF Restart
  <2> DEFINE switch == HostSwitch(read, Unknown, TRUE, save, before)
  <2>2. /\ before \in {None, 1, 2} /\ source \in Sources /\ save \in BOOLEAN
        /\ usual \in Profiles /\ active \in Profiles
    BY <1>0 DEF TypeOK
  <2> HIDE DEF switch
  <2>3. /\ before' = switch.before /\ noticed' = source
        /\ \/ switch.ask # None /\ active' = switch.ask /\ profile' = switch.ask
              /\ untouched' = untouched
           \/ /\ profile' = read /\ active' = active
              /\ untouched' = (untouched /\ switch.ask = None)
        /\ cache' = profile'
        /\ queue' = <<>> /\ received' = None /\ command' = Idle
        /\ watch' = "idle" /\ seen' = None
        /\ informed' = (informed /\ Settled /\ read = active)
        /\ UNCHANGED <<source, save, usual, calm>>
    BY <2>1 DEF switch
  <2>4. ProfileIsCached'
    BY <2>3 DEF ProfileIsCached
  <2>5. ModeIsRemembered'
    <3>1. CASE ~save
      BY <3>1, <2>3, <1>0 DEF switch, HostSwitch, KeepMode, ModeIsRemembered
    <3>2. CASE save /\ source = "ac"
      <4>1. switch = SwitchBack(read, before)
        BY <3>2 DEF switch, HostSwitch, Unknown
      <4> QED
        BY <4>1, <2>3 DEF SwitchBack, ModeIsRemembered
    <3>3. CASE save /\ source = "battery"
      BY <3>3, <2>3 DEF ModeIsRemembered
    <3> QED
      BY <3>1, <3>2, <3>3, <2>2 DEF Sources
  <2>6. CASE ~Episode'
    BY <2>6, <2>4, <2>5 DEF Unplugged, Saving, Replugged, Restoring
  <2>7. CASE Episode'
    <3>1. Episode /\ Settled /\ read = active
      BY <2>7, <2>3 DEF Episode
    <3>2. noticed = source
      BY <3>1 DEF IInv, SourceFollows, Settled
    <3>3. Unplugged' /\ Replugged'
      BY <2>3 DEF Unplugged, Replugged
    <3>4. CASE source = "battery"
      <4>1. active = PowerSave /\ before = Remembered
        BY <3>1, <3>2, <3>4, <1>0 DEF Saving, Asked, Settled
      <4>2. switch = SwitchToSave(PowerSave, before)
        BY <3>1, <3>4, <4>1 DEF switch, HostSwitch, Unknown, Episode
      <4>3. switch = KeepMode(before)
        BY <4>2 DEF SwitchToSave, OrBalanced, PowerSave, None
      <4>4. before' = before /\ active' = PowerSave /\ cache' = PowerSave
        BY <4>1, <4>3, <3>1, <2>3 DEF KeepMode
      <4>5. Saving' /\ Restoring'
        BY <4>1, <4>4, <2>3, <3>4 DEF Saving, Restoring, OnlyAsks, Remembered
      <4> QED
        BY <4>5, <3>3, <2>4, <2>5
    <3>5. CASE source = "ac"
      <4>1. active = usual /\ before = None
        BY <3>1, <3>2, <3>5, <1>0
        DEF Restoring, Asked, Settled, ModeIsRemembered
      <4>2. switch = SwitchBack(usual, None)
        BY <3>1, <3>5, <4>1 DEF switch, HostSwitch, Unknown, Episode
      <4>3. switch.ask = None
        BY <4>2 DEF SwitchBack
      <4>4. active' = usual
        BY <4>1, <4>3, <2>3
      <4>5. Saving' /\ Restoring'
        BY <4>4, <2>3, <3>5 DEF Saving, Restoring, OnlyAsks
      <4> QED
        BY <4>5, <3>3, <2>4, <2>5
    <3> QED
      BY <3>4, <3>5, <2>2 DEF Sources
  <2> QED
    BY <2>6, <2>7
<1>16. CASE UNCHANGED vars
  <2>1. /\ UNCHANGED <<source, active, profile, noticed, save, before, queue>>
        /\ UNCHANGED <<received, command, cache, watch, seen, usual>>
        /\ UNCHANGED <<untouched, calm, informed>>
    BY <1>16 DEF vars, belief, saved, requests, watcher, histories
  <2>2. ProfileIsCached' /\ ModeIsRemembered' /\ Unplugged' /\ Replugged'
    BY <2>1, <1>0 DEF ProfileIsCached, ModeIsRemembered, Unplugged, Replugged,
                      Episode, Resting, Remembered
  <2>3. Saving' /\ Restoring'
    BY <2>1, <1>0 DEF Saving, Restoring, Episode, OnlyAsks, Asked, Remembered
  <2> QED
    BY <2>2, <2>3
<1> QED
  BY <1>1, <1>2, <1>3, <1>4, <1>5, <1>6, <1>7, <1>8, <1>9, <1>10, <1>11,
     <1>12, <1>13, <1>14, <1>15, <1>16 DEF Next, Daemon

-----------------------------------------------------------------------------
(* IInv holds of every behaviour of the profile machinery.                 *)
THEOREM ProfileInvariant == Spec => []IInv
<1>1. IInv /\ [Next]_vars => IInv'
  BY NextTypes, NextFollows, NextEpisode DEF IInv
<1> QED
  BY InitIInv, <1>1, PTL DEF Spec

(* The variables of the runtime, the worker, the caches and the watch hold *)
(* values of their types, whatever the capacity of the channel.            *)
THEOREM ProfileTypes == Spec => []TypeOK
<1>1. IInv => TypeOK
  BY DEF IInv
<1> QED
  BY ProfileInvariant, <1>1, PTL

(* The watch, the worker and the clients leave no stale profile and no     *)
(* unnoticed change of the power source behind once all is quiet.          *)
THEOREM HostIsKnown == Spec => []KnowsHost
<1>1. IInv => KnowsHost
  BY DEF IInv, SourceFollows, ProfileFollows, KnowsHost, Settled, Idle
<1> QED
  BY ProfileInvariant, <1>1, PTL

(* On battery, once quiet, the machine is in power save if the option is   *)
(* on, whatever the watch, the worker and restarts interleave, unless      *)
(* somebody chose a mode, a command failed or an event overtook one.       *)
THEOREM BatteryIsSaved == Spec => []BatterySaves
<1>1. IInv => BatterySaves
  <2> SUFFICES ASSUME IInv, Settled, source = "battery", Episode
               PROVE  active = PowerSave
    BY DEF BatterySaves, Episode
  <2>1. noticed = "battery"
    BY DEF IInv, SourceFollows, Settled
  <2> QED
    BY <2>1 DEF IInv, EpisodeFollows, Saving, Asked, Settled
<1> QED
  BY ProfileInvariant, <1>1, PTL

(* A step under which the promises still apply keeps the mode to go back   *)
(* to for as long as the machine stays on battery.                         *)
LEMMA StepKeepsMode ==
  ASSUME IInv, IInv', [Next]_vars, before # None, source' = "battery",
         untouched', calm', informed'
  PROVE  before' = before
<1>1. save /\ noticed = "battery"
  BY DEF IInv, EpisodeFollows, ModeIsRemembered
<1>2. CASE WatchRefreshes
  <2> DEFINE switch == HostSwitch(Known, noticed, FALSE, save, before)
  <2>1. source = "battery" /\ before' = switch.before
    BY <1>2 DEF WatchRefreshes, RefreshHost
  <2>2. switch = KeepMode(before)
    BY <1>1, <2>1 DEF HostSwitch
  <2> HIDE DEF switch
  <2> QED
    BY <2>1, <2>2 DEF KeepMode
<1>3. ASSUME NEW on \in BOOLEAN, SetBatteryPowerSave(on)
      PROVE  before' = before
  <2>1. on /\ source = "battery" /\ untouched /\ calm /\ informed
    BY <1>3, <1>1 DEF SetBatteryPowerSave, BatteryEpisode
  <2>2. before = Remembered /\ cache \in {usual, PowerSave} /\ usual \in Profiles
    BY <2>1, <1>1 DEF IInv, EpisodeFollows, Saving, Episode, TypeOK
  <2>3. Known \in {usual, PowerSave} /\ Known # None
    BY <2>2 DEF Known, Profiles, PowerSave, None
  <2>4. before' = SwitchToSave(Known, before).before
    BY <2>1, <1>3 DEF SetBatteryPowerSave, RefreshHost, HostSwitch, Unknown
  <2>5. before = usual
    BY <2>2 DEF Remembered
  <2> QED
    BY <2>3, <2>4, <2>5 DEF SwitchToSave, KeepMode, OrBalanced
<1>4. CASE Restart
  <2>1. PICK read \in {active, None} :
          /\ before' = HostSwitch(read, Unknown, TRUE, save, before).before
          /\ informed' = (informed /\ Settled /\ read = active)
          /\ untouched' => untouched
          /\ UNCHANGED <<source, save, calm>>
    BY <1>4 DEF Restart
  <2>2. Episode /\ Settled /\ read = active /\ source = "battery"
    BY <2>1, <1>1 DEF Episode
  <2>3. active = PowerSave
    BY <2>2, <1>1 DEF IInv, EpisodeFollows, Saving, Asked, Settled
  <2> QED
    BY <2>1, <2>2, <2>3, <1>1
    DEF HostSwitch, Unknown, SwitchToSave, KeepMode, OrBalanced, PowerSave, None
<1>5. CASE ~WatchRefreshes /\ ~Restart
           /\ ~(\E on \in BOOLEAN : SetBatteryPowerSave(on))
  BY <1>5 DEF Next, Daemon, WatchReads, WatchStores, WorkerReceives,
       WorkerStarts, CommandApplies, CommandFails, CommandCompletes,
       ClientStarts, DesktopSets, CyclePressed, Unplug, Replug, vars, saved
<1> QED
  BY <1>2, <1>3, <1>4, <1>5

(* A refresh, the option or a restart of the daemon never loses the mode   *)
(* to go back to, and once on AC and quiet the machine has gone back to it.*)
THEOREM ModeIsRestored == Spec => ModeReturns
<1>1. IInv => ModeRestored
  <2> SUFFICES ASSUME IInv, Settled, source = "ac", Episode
               PROVE  active = usual
    BY DEF ModeRestored, Episode
  <2>1. noticed = "ac"
    BY DEF IInv, SourceFollows, Settled
  <2> QED
    BY <2>1 DEF IInv, EpisodeFollows, Restoring, Asked, Settled
<1>2. IInv /\ IInv' /\ [Next]_vars =>
        [before # None /\ source' = "battery" /\ untouched' /\ calm' /\ informed'
           => before' = before]_vars
  BY StepKeepsMode
<1> QED
  BY ProfileInvariant, <1>1, <1>2, PTL DEF Spec, ModeReturns, SavedModeKept
=============================================================================
