# Victus Hub in TLA+

TLA+ models of the Victus Hub daemon (`crates/victus-hubd`, `victus-core`,
`victus-hw`), of the desktop window (`crates/victus-hub`), of the kernel driver
of the fans (`kernel/hp-wmi`) and of the way they interact, with TLC
configurations that check them on small instances and TLAPS proofs that hold
for every value of the constants. Paths below are those of the repository; line
references are in `PROJECT.json`.

## The system

| Component | State | Operations | Hard behaviour | What makes it correct |
|---|---|---|---|---|
| Fan driver, `hp-wmi.c` | mode, two PWM targets, pending AUTO restore, keep-alive work | hwmon writes, keep-alive work, probe and removal | the firmware forgets settings after 120 s; any WMI call of a transaction may fail; dequeued work races with writes | settings are renewed in time, failed ones are rolled back or undone, AUTO ends what MANUAL began |
| Platform profiles, MUX, `hp-wmi.c` | active profile | profile writes, power source events | run under another lock than the fans | a profile write leaves the driver's view of the fans true |
| Keyboard driver, `hp-kbd-rgb.c` | colour table in firmware | colour, brightness | read-modify-write without a lock | no zone's colour is lost |
| Fan curve, `fan.rs` | EMA, demand, curve signature, overheat latch and deadline | one evaluation per sample, resets | hysteresis across lost sensors and curve switches, relapse during cooldown | demand within its band, overheat floor and cooldown |
| Fan configuration, `fan.rs`, `curve.rs`, `paint.rs` | points, dragged and selected index | normalise, interpolate, add, move, delete | indices that go stale | points stay a curve, the drag never panics |
| Fan policy and loop, `runtime.rs`, `main.rs` | policy, loop state, suspended | policy changes, poll, sleep, resume, raw commands | policy and loop write the same files a second apart; writes fail | hardware agrees with policy and with what the loop believes |
| Power profile and battery, `runtime.rs`, `main.rs`, `dispatch.rs` | profile, cache, on_battery, saved mode, request channel | host refresh, set-profile, Fn key, battery option, restart | three threads and the desktop change one thing under two locks | the daemon knows the host; power save on battery, the old mode on AC |
| Power limits, CPU frequency | policy, last apply | apply, reapply loop, resume | plan taken before the commands lock | no stale limit is applied |
| Frequency, voltage and power limit writes, `victus-hw` | sysfs files, mailbox, powercap | three kinds of write | one register of several fails, locks or rounds; two appliers cross | what is reported applied is in force |
| GPU monitor, `gpu.rs` | demand, revision, sample | policy, display, worker | wait without timeout, late samples | no lost wake-up, no query while disabled |
| Hardware readings, `sensors.rs`, `rapl.rs`, `nvidia.rs`, `system.rs` | earlier samples, back-off per field | a sample per request | counters wrap, packages vanish, nvidia-smi hangs | a shown reading is one that happened; back-off holds |
| External commands, `victus-hw/src/lib.rs` | child, pipes, deadline | run to the end | full pipes, heirs that hold a pipe open | ends in time, with all output up to the cap |
| Lighting, `runtime.rs`, `lighting.rs` | what was last sent, dimming | tick, settings, keys | caches of what the hardware shows | the keyboard shows the settings |
| Keyboard input and shortcuts, `main.rs`, `shortcuts.rs`, `binds.rs` | open keyboards, held modifiers, bindings, activation guard | read, reopen, bind, activate | lost events, unplugging, a thread per chord | chords are heard as typed, one activation at a time |
| Server and events, `server.rs` | subscribers, client count | accept, dispatch, stream, fanout | registration before snapshot, full channels, eviction | no client stays stale, no slot leaks |
| Saved state, `state.rs`, `runtime.rs`, `persist.rs` | `state.json`, the copies in the user's home | load, save, import | save fails, crash within it, two importers | import once, nothing lost silently |
| Window, `ui/` | model, held-back edits, pending controls | controls, ticks, remote state, curve editor | remote state against pending edits, lost and late answers | both sides agree when quiet, no control stays insensitive |
| Sensor thread, `ui/host.rs`, `view.rs` | page, visibility, charts, generation | ask, wait, notify | a change between look and wait | what is shown is fetched, a hidden window asks for nothing |
| Installation, services | files and unit files | install, sleep hook | - | - |

The interface and the sleep hook send text commands over a socket to the
server, which dispatches them under the runtime lock (`Runtime`) or, for slow
hardware commands, under the commands lock first. Loop threads (fans, lighting,
power limits) take the runtime lock once per tick. The host watch, the profile
worker, the keyboard thread and the GPU monitor have threads of their own and
share atomics, channels and condition variables with the runtime. Every change
of the state is published as a numbered revision: the daemon's bounded channel
leads to the fanout thread, from there to a bounded mailbox per subscriber, its
socket, the window's queue and at last the window's main loop, which mirrors
what it is told into the user's files. The daemon reaches the fan driver through
`pwm1_enable`, `pwm1` and `pwm2`.

## Modules

| Module | Models | Checked by | Proved in |
|---|---|---|---|
| `FanDriver` | hwmon fan control of `hp-wmi.c` and the firmware's timeout | `MCFanDriver` | `FanDriverProofs` |
| `FanCurve` | `LoopState` and `update_curve_target`: the algorithm on its own | through `FanLoop` | `CurveProofs` |
| `FanLoop` | policy, poll and hwmon files, around the algorithm of `FanCurve` | `MCFanLoop` | `CurveProofs` |
| `ProfileHost` | host watch, profile worker, clients, battery policy | `MCProfileHost` | `ProfileHostProofs` |
| `PowerPlan` | power and CPU frequency limits: reapply loop, client commands, sleep, import, restart | `MCPowerPlan` | `PolicyProofs` |
| `GpuMonitor` | `gpu.rs`: demand, condition variable and worker, with the fan loop that feeds it | `MCGpuMonitor` | `DeviceProofs` |
| `StateFeed` | what the event stream promises a window (abstract) | `MCEventStream` (`FeedRefined`) | `EventStreamProofs` |
| `EventStream` | server, fanout, mailboxes, sockets, the window's reader; implements `StateFeed` | `MCEventStream` | `EventStreamProofs` |
| `StateStore` | `state.json`, the user's copies, import at the start and from a window | `MCStateStore` | `StateStoreProofs` |
| `LightingPolicy` | pure functions over the lighting settings | through `Lighting` | `KeyboardProofs` |
| `Lighting` | the lighting loop and the LEDs | `MCLighting` | `KeyboardProofs` |
| `KeyInput` | keyboard thread, shortcuts, activation | `MCKeyInput` | `KeyboardProofs` |
| `UiSession` | the window's edits, controls and remote states | `MCUiSession` | `PolicyProofs` |
| `CpuMeters`, `NvidiaSource`, `Command`, `Tuning` | readings, commands and writes of `victus-hw` | `MCParts` | `DeviceProofs` |
| `Telemetry` | the sensor thread between the window's callbacks and the daemon | `MCParts` | - (liveness only) |
| `CurveEditor` | points of a curve, normalised, interpolated and edited | `MCParts` | `CurveProofs` |

`MCParts` composes the six small modules that share no variable: a behaviour
runs one of them, chosen at the start, while the others rest, because the
product of independent parts has no behaviour that its factors have not.

Operators named `...Once`, `...Without...` and the like under a comment that
begins with "Faulty" are deliberate mistakes. They are no part of the
specifications: each shows that a property notices that mistake.

### FanDriver

`mode`, `pwm`, `pending`, `timer` are fields of `hp_wmi_hwmon_priv` and its
delayed work; `running` is a work item that was dequeued and waits for
`priv->lock`; `fw` is the firmware. A write is one action because it holds the
lock throughout. A WMI transaction is the set of its outcomes: success, or a
stop after any of its calls. Time is a counter of ticks, and neither due work
nor a due firmware timeout lets a tick pass; that is the assumption that a work
item runs within one tick of its delay. `late` grants the ticks of retries, so
`FallbackOnlyWhenLate` says the firmware can time out only when refreshes kept
failing. `board` covers max-only boards, boards without an RPM reader and
boards without a profile.

The firmware's behaviour is taken from the comments at `hp-wmi.c:684` and
`hp-wmi.c:820` and from the mock in `tests/rust/kernel/hp_wmi_fan_runtime.rs`:
a trigger starts the user-defined state, a thermal profile ends it, a failed
call has no effect. A trigger that the board does not support, which the driver
tolerates, is not told apart from one that is. Speeds are those after the clamp
to the fan table.

`AlwaysScheduled` is `RefreshScheduled` (a setting that needs renewing has its
work armed in time) and `RestoreScheduled` (so does a pending AUTO restore).
The history variable `overtaken` marks settings that an AUTO restore left over
from before is going to replace, a known divergence.

Fairness: time passes, due work runs, the firmware times out. `Recovers` is
`Converges` and `AutoReleases`: once WMI calls stop failing (`healthy`) the
firmware comes to do what the driver was asked, and AUTO ends what MANUAL
began.

### FanCurve and FanLoop

EMA values live on a grid (2.5 degrees in the models). `compute_ewma` moves
part of the way to the sample, by a factor the user selects: the model allows
any grid value on the way. Hysteresis, threshold, release, floor and cooldown
are the constants of `fan.rs`, scaled to the grid. Curves are any monotone
functions, which is what `normalize_fan_points` and `interpolate_fan` produce.

`FanLoop` adds the policy (`custom_enabled`, `manual_preset`, and `selected` for
the curves that the policy and the power profile pick), the flags of the loop
(`was`, `force`, `last`) and the hwmon files. Hwmon writes fail at will until
`Heal`; entering MANUAL from another mode loses the daemon's speeds, because
the driver starts from the current RPM (`Own`). `FanLoop` abstracts the driver:
the keep-alive and the firmware timeout are `FanDriver`'s concern. It is built
from the actions of `FanCurve`: a poll in custom mode is one evaluation, and
whatever takes the fans from the loop resets it. That every behaviour of the loop
is one of `CurveSpec` follows from how it is written and is used only to carry the
algorithm's theorems over. What could go wrong is a reset that is left out or
incomplete; `EntersFresh` says that a loop which does not drive the fans holds no
moving average, demand, verdict or deadline from before.

`FloorKept` is `OverheatFloor` and `CooldownHeld` of the algorithm and `FloorWritten`
of the loop: an overheated sensor asks for the floor, the floor reaches the file up
to the dead band, and it is given up only after a whole cooldown without a relapse.
The history variable `unseen` marks a policy that left custom mode and came back
between two polls, a known divergence; `speedLost` and `modeLost` mark a call that
failed or was raw. `FanCurve` has no run of its own: its properties are checked of
the loop, and its theorems hold without the loop.

No liveness is claimed of the loop: a write that fails is made again at the
next poll, which `InStep` states as what the loop believes.

### ProfileHost

`profile`, `noticed` (`on_battery`), `save` and `before` are `Runtime` and its
saved state; `queue` and `received` the channel to the worker; `command` the
holder of the commands lock with its profile command; `cache`, `notified`,
`recovery`, `watch`, `seen` the host watch between its read on the bus, the
store to the cache and the runtime lock. `refresh_host` is one operator used by
the watch, `set_battery_power_save` and the start of the daemon. The
commands lock is held from `WorkerStarts` or `ClientStarts` to
`CommandCompletes`; the runtime lock within single actions. UPower is taken to
be present, so every change of power source or profile notifies the watch (the
30 s poll without UPower only adds refreshes), and the charger's state can
always be read. Saving the state always succeeds. The history variables say
which promises apply: `untouched` (nobody chose a mode and nothing failed since
the charger was pulled), `calm` (the charger was pulled and returned only while
nothing was on its way in the daemon and, when pulled, it knew the profile, and the
desktop set no profile between a command's effect and its completion) and
`informed` (no restart amid a command or without a readable profile). Only
requests of somebody fill the channel, so a refused battery switch is excused by
`untouched`. `KnowsHost` needs `calm` for the profile: a desktop change
between a command and its completion is never corrected by an event.

`ModeReturns` is `SavedModeKept` and `[]ModeRestored`: a restart or a refresh
never loses the mode to go back to while the machine is on battery, and once on
AC and quiet it has gone back to it.

This model is checked for safety only. The commands lock is an unfair mutex, so
no progress of the worker is promised.

### PowerPlan

`power`, `frequency`, `initialized` are fields of `DaemonState`, `suspended`
and `age` (time since `last_power_apply`; `Never` for its 0) fields of
`Runtime`. `phase` and `plan` are the loop of `main.rs` between its locks:
`LoopPlans` is `power_plan` under the runtime lock, `LoopChecks` the second look
once it has the commands lock, then one action per write. A client's command is
two actions, the write under the commands lock and the save under the runtime
lock; `pending` is what it carries from one to the other. So the commands lock
is held by whoever has something pending, or by the loop in its two writing
phases, and `Unlocked` says it is free. Sleep, resume and the import
(`initialize_state`) take the runtime lock only, and `Resume`, `Initialize` and
`Restart` write the frequency without the commands lock, as the code does.

`limits` and `scaling` are what the hardware has. Intervals are
positive because `power_from_value` clamps every `reapply_seconds` that enters
the state. Writes
fail at will and raw commands, firmware and desktop change the limits until
`Heal`. The history variable `excused` records why the hardware need not be
what is saved: the last write failed, drifted or was raw (`limits`,
`scaling`), a restore under the runtime lock ran amid a client's command
(`crossed`), or the loop wrote a frequency that was replaced after it had
planned (`stale`). Without the last two `FrequencyAgrees` would not hold:
`stale` is the first of the known divergences, and `crossed` is the window in `resume` between a client's
write and its save. Both heal at the next reapply of an enabled policy, which
is what `Converges` says.

Fairness: weak fairness of the loop and of time (the thread polls each second
and ends with the daemon), and of the saves, since a client's thread that wrote
goes on without waiting for anybody. Nothing is assumed of new commands, sleep
or resume.

### GpuMonitor

`policy`, `display`, `left` (time until `expires`) and `stopped` are `Demand`,
`sample` the last `NvidiaFields`, `session` whether the NVML session is open,
`worker` the place of the worker between two locks. `disabled` and `suspended`
are one flag, `off`: the monitor never tells them apart. The revision is
`moved`, whether it differs from the one the worker holds; it is 64 bits wide
and does not wrap within a release. A sample has the fields that were asked for.
`runtime` is the policy that the runtime's state implies; settings, sleep and
resume change it and pass it on at once (`RuntimeSyncs`), while the fan loop
reads it under the runtime lock and passes it on afterwards (`PollReads`,
`PollPasses`), perhaps after a newer one. `notify_one` reaches a worker that
waits and is lost on any other, as with a real condition variable, which may
also wake up for no reason. `snapshot` changes nothing and is not an action; the request that calls it is
part of `Telemetry`, and one query of the worker is `NvidiaSource`.

Fairness: weak fairness of the worker and of the fan loop, one thread each.
Time may stop; a display request then never expires, which `GpuReleased` and
`TempServed` allow for by asking only what is wanted.

### StateFeed and EventStream

`StateFeed` is what a window may rely on: every run of the daemon publishes
numbered revisions; the window shows only what was published, and within one run
never goes back. It says nothing of sockets or queues.

In `EventStream` a line goes from `channel` (`lighting_tx`) to the `inbox` of
every `member` of `subscribers`, through `wire` into `events`, and by
`apply_remote_state` to `shown`. One action is one step of one thread: the
accept loop, a handler (authorise, register, snapshot, stream, give the slot
back), the fanout thread, the window's reader, a control thread that fetched a
state by itself, the main loop. A full channel loses the line, a full mailbox
evicts its subscriber. LIGHTING lines take places, though no window reads them.
Sessions lock, daemons restart, windows open and close, and other clients take
handlers at any time. A request that is no stream is one step here; what it
changes is the concern of the module of its component. External: sockets, which
keep the order of the lines.

`FeedRefined` is the refinement: `Feed` is `StateFeed` WITH the identity on the
bound of the runs and on the three variables `instance`, `revs` and `shown`.
`NoGap` follows the newest revision on its way. History variables: `lossy`, the
newest revision was lost at a full channel (the next change heals that), and
`late`, a state of an earlier run was applied after one of a later run, and the
newest has not come since.

Fairness: every thread of daemon and window goes on. `Converges` says that a
window that stays open with an unlocked session and a daemon at rest comes to
show its state, unless that was lost (`lossy`) and nothing made it read anew.

### StateStore

`saving` is `save_state` between the creation of the temporary file and the
rename, so a crash may end it at either place. `copies` are `config.json` and
`victus-hub.conf` in the user's home; `window` walks through `hydrate_live`:
fetch, migrate, copy the parts one by one. `starting` is the import at the start
of the daemon, `pending` the request of a window. Two values, `fan` and `rest`,
stand for the settings, one for each file; a `Rejected` rest is one whose limits
are out of range. Until `calm` the daemon ends at any point and saves fail.
History variables: `promised`, the last policy whose save was reported as done,
and `own`, what the user had before any daemon had a policy.

`FilesKept` is `SavedSurvives` (a start finds what was promised, and an import in
force has been saved) and `CopiesKept` (a window does not write defaults over
what was to be imported). External: a rename is atomic.

Fairness: weak fairness of the daemon's and of the window's steps, for
`Migrates`: systemd restarts the daemon, and the user opens the window again
some day.

### LightingPolicy and Lighting

`LightingPolicy` holds `normalize_lighting_settings`, the key steps and the
frames of an effect, with three kinds of effect: static, one that dims the
colour of each zone, one that computes its own. `Lighting` keeps what the loop
thinks it wrote (`sent`, `backlight`, `lastLevel`) next to what the LEDs show
(`led`), with `Unsure` for whatever a failed write or a raw command left. Every
action is one hold of the runtime lock. A write to all zones stops at the first
that fails. `foreign` marks a raw command that set the brightness.

Fairness: weak fairness of `LightingTick` and of the half second between two
looks at the idle time; `calm` ends interference, after which `Settles` asks
that a static setting is shown. Where a failed write is taken for done the
property excuses the zones (`Unsure`), as the code does.

### KeyInput

The kernel's queue of each keyboard is separate from the thread that reads it;
a full queue is emptied for the newest event (SYN_DROPPED). `held` are the
modifiers the thread believes to be down; `before` those that were down when a
keyboard was opened, which nobody can know. A chord that matches starts a thread
(`threads`) which must win `activating` and let go of it at every way out.
External: evdev, the discovery of keyboards, the desktop's sessions. Safety only:
nothing has to happen unless a user types.

### UiSession

The main thread handles one callback at a time: `Wake` moves the channel into
`batch`, `Deliver` handles one of them, every edit of the user is an action.
`lightDue` and `fanDue` are `light_at` and `fan_at`, the edits held back until
they are flushed; `drag` a point being dragged; `busy` the insensitive controls.
Control threads ask, get an answer, fetch the state and send both through the
bounded channel. One value stands for each group of fields that are handled
alike. Lost states and restarts are `EventStream`'s concern. `unsent` marks what
the daemon was never given: a failed push, or a drag that ended without one.
`FileFollows` is about the lighting in the window's file; the rest of it is left out.

Fairness: the main loop handles what woke it, a request ends by its timeout
(`transact`), and a sender that waits for room in the channel gets it (strong
fairness: other senders may take the room many times).

### The parts of MCParts

- `CpuMeters`: `RaplSampler` and the ticks of `/proc/stat`, with what really
  happened since the last sample beside them. `MetersTrue`: watts shown
  are the energy used over the time passed, unless the counter went round
  altogether in between, and a usage shown is a share between nothing and all.
- `NvidiaSource`: one query of the GPU worker: hwmon, NVML, then nvidia-smi for
  what is left and due. `SmiPaced`: a field that failed is not asked again before
  its back-off is over, and what nothing else gives is asked for once it is.
- `Command`: `run_prepared_command`, with pipes that fill, and a child that exits
  and leaves heirs behind. An heir is a process, inside the child's group or not,
  and the pipes it has; any process may close or redirect a pipe, fork and exit.
  `OutputWhole`: a command that succeeds gives what was ever written to its pipes,
  up to the cap of a mebibyte each, and nobody is left who could write more; one
  that fails leaves no process of its group; the child is waited for in either
  case. An heir without a pipe outlives a success, of the group or not: the code
  kills the group only while a pipe is open. `CommandsEnd`: the caller comes back.
  `CHECK_DEADLOCK FALSE` stands in the configuration because a command that has
  ended does nothing more.
- `Tuning`: cpufreq limits, voltage offsets, power limits. Each is checked
  against all of the hardware, then written register by register; registers
  fail, lock and round. The power limits are those of any number of powercap
  packages, each with a switch that is off, on or absent, and are looked up in
  `min_power_uw` and `max_power_uw` before anything is written; one such range stands
  for both limits of all packages. `TuningTrue`: what is reported applied is in force in
  every domain or package, with the switch on, and a cpufreq minimum never passes a
  maximum, unless two appliers crossed (`crossed`).
- `Telemetry`: the sensor thread of the window, whose looks at page, visibility
  and charts are separate steps, against the callbacks that change them, and the
  daemon's demands. `WindowServed` is `PageServed` (what is shown gets its
  readings) and `NothingForNobody` (a window nobody sees lets the GPU sleep).
- `CurveEditor`: `normalize_fan_points`, `interpolate_fan` and the editor.
  `CurveSound`: speeds never fall from point to point, so a warmer sensor never
  asks for less (what `FanCurve` assumes) and the clamp of a drag is never empty.
  A curve whose stored points lie on the axis, no two at one temperature
  (`OnAxis`, kept as `tidy`), covers the axis to the last degree and is what the
  daemon makes of it. The curve may change under a drag that goes on, as a state of
  the daemon or a profile change offline make it.

Fairness in `MCParts`: the caller of a command and time go on; the sensor thread
runs, a callback that stored something calls `notify_sensors`, demands expire,
and the main loop, which returns to its pipe again and again, reads it (strong
fairness, since other callbacks come between).

## Runs

| Run | Checks | Bounds |
|---|---|---|
| `fan_driver` | `AlwaysScheduled`, `CommittedTargets`, `FallbackOnlyWhenLate`, `Recovers` | two fans, speeds 0 and 1, the real delays in ticks of 5 s: refresh after 18, retry after 1, firmware timeout after 24, so that several refreshes may fail before the firmware falls back |
| `fan_loop` | `WithinBand`, `FloorKept`, `ModeAgrees`, `InStep`, `EntersFresh` | a grid of 2.5 degrees from 80, readings of 85 to 90 on the CPU sensor, none on the GPU, a quiet and a loud curve, a measured seed and none, cooldown of one tick |
| `profile_host` | `KnowsHost`, `BatterySaves`, `ModeReturns` | three profiles, a channel of two requests |
| `profile_replug` | `PreviousModeRestored`, which fails: see below | the same |
| `power_plan` | `PlanIsCurrent`, `AppliedOrDue`, `FrequencyAgrees`, `Converges` | two clients (the lock, and who holds it), two enabled policies with intervals of one and two ticks and one that is off, two frequencies |
| `gpu_monitor` | `ParkedIdle`, `WorkerServes` | the temperature and one other field, lifetimes of one tick: a request is fresh, renewed or past, and nothing else matters to the worker |
| `event_stream` | `SlotsCounted`, `NoGap`, `FeedRefined`, `Converges` | two handlers and two slots (the window's and another client's), every buffer one line, two runs of the daemon, two revisions of the first |
| `lighting` | `BeliefHolds`, `SleepsDark`, `Settles` | two zones (a write that stops in between), one colour besides the dark one, brightness 0 to 2 with steps 0 and 2, one effect of each kind |
| `key_input` | `HeardAsTyped`, `OneActivation` | two keyboards, a command modifier, one that commands nothing, a key on each, one user, two queued events, two threads |
| `ui_session` | `Agrees`, `FileFollows`, `BusyClears` | two values, two profiles, a channel of two, three revisions, one control thread, two things the user does |
| `state_store` | `FilesKept`, `UserKept`, `Migrates` | two values, a rejected one and the default; any number of crashes until calm |
| `parts` | `MetersTrue`, `OutputWhole`, `TuningTrue`, `CurveSound`, `SmiPaced`, `CommandsEnd`, `WindowServed` | two packages and a counter of two units; two fields and a back-off of two; pipes of two, reads of one, a cap of one, two units of output for each, two heirs, patience of one; two cpufreq policies, two speeds, two appliers; two powercap packages, one with its switch off and one without; limits and offsets on both sides of each bound; points of a file below the axis, at both of its ends and within it; two pages, two keys, a channel of one; up to four points |

The bounds contain every case the code tells apart: temperatures on both sides
of each threshold, a target on each side of the dead band, buffers that are
empty and full, a first and a second run of the daemon, a first and a second
attempt. The proofs cover larger instances of the modules that have one.

`WorkerServes` is `PolicyReaches` (a policy reaches the worker), `TempServed`
(what stays wanted is sampled), `GpuReleased` and `WorkerEnds`.

### The finding

`profile_replug`: the charger is pulled and returned before the switch to power
save completed. The saved mode is dropped because the profile is not yet 0, then
the switch lands, and the machine stays in power save on AC, though
`pages.rs:823` promises that the mode before is restored.

## Known divergences

Things the models showed that the code's authors may want to know. The
properties excuse each of them by a history variable or a condition, named here,
so that everything else is still checked.

- `main.rs:234`: the power loop takes policy and frequency together, waits for
  the commands lock and compares only the policy again. A frequency that a client
  saved meanwhile is overwritten by the planned one until the next reapply, for
  good if the policy is disabled before that (`excused`, `stale`).
- `hp-wmi.c:3036`: a MAX or MANUAL setting accepted while an AUTO restore is
  pending is replaced by AUTO at the next keep-alive, which does not re-arm
  (`overtaken`).
- `runtime.rs:184`: custom, a preset and custom again between two polls: the
  driver takes the current speeds, the loop thinks its last write still stands
  and writes nothing until the target leaves the dead band (`unseen`).
- `runtime.rs:372`: a daemon started on battery before the profile can be read
  takes it for balanced and overwrites the mode that was saved (`informed`).
- `runtime.rs:382`: the mode to go back to is cleared on disk before the restore
  has run; a restart or a failed command in between loses it (`informed`,
  `untouched`).
- `main.rs:235`: sleep may begin after the validity check of the power loop, so
  limits are applied on the way to sleep; `PlanIsCurrent` is about the policy.
- `runtime.rs:508`: brightness 0 counts as written once the light was off; the
  next colour lights the keyboard again (`Settles` excuses level 0).
- `runtime.rs:500`: a failed write of the light going off is recorded as off
  (`Unsure`).
- `dispatch.rs:60`: a raw `keyboard-user-brightness` changes the platform's
  brightness and not the settings (`foreign`).
- `view.rs:64`: lighting edits are flushed before a state that is older and
  still queued is applied; until the daemon's answer comes back the window shows
  the old lighting. `Agrees` is about the window once it is quiet.
- The answer of a power control that arrives after a newer state sets
  `applied_power` to the older policy, so `Agrees` says nothing of it.
- `shell.rs:383`: an edit still held back when the window quits is dropped.
- `view.rs:366`: a drag that a profile change or the other curve ends is shown
  and never sent (`unsent`).
- `runtime.rs:123`: any request that changes the state before a window migrates
  makes the daemon initialised; the copies are then never imported. `Migrates`
  allows for it.
- `fan.rs`: `normalize_fan_points` is not idempotent for temperatures out of
  range, and of two stored points at the top temperature `interpolate_fan` answers
  with the first, so that the second is never reached (`tidy`). The window stores
  neither; a file or a request may. Delete during a drag goes on with the next
  point.
- `runtime.rs:273`: a failed write of the fan mode is logged or ignored and not made
  again; the fans stay in the mode before until the policy changes (`modeLost`).
- `fan.rs:604`: the overheat floor goes through the dead band like any target, so
  the speed written may stay below the floor by as much as `min_fan_change_pct`,
  which the user sets. `FloorWritten` says "up to the dead band".
- `runtime.rs:247`: a full channel refuses the switch to power save, which is only
  logged (`untouched`).
- `runtime.rs:98`: a state published while the channel is full is dropped; the window
  is behind until the next change or until it reconnects (`lossy`).
- `main.rs:400`: `SYN_DROPPED`, which says that the input buffer overflowed, is skipped
  like any event that is no key. A modifier whose release was lost stays held, for
  chords on every keyboard, until the keyboards are opened again (`lost`).
- `lib.rs:83` of `victus-hw`: a command succeeds once its child has exited and both
  pipes are at their end, and then nothing is killed. A process of its group that
  redirected its output lives on. `OutputWhole` asks for an empty group of failures
  only.
- `lib.rs:117` of `victus-hw`: what a command writes past a mebibyte is read and
  dropped, as its test asserts (`Cap`).
- `hp-kbd-rgb.c:205`: the colour table is read, changed and written without a
  lock. The daemon writes zones from one thread; other writers of the LED class
  could lose a colour.

## Proofs

Every safety property and every action property that a run checks is proved for
all values of the constants. A theorem has the form `Spec => []P` (or a box
action property, or a refinement) and comes from an inductive invariant:
`Init => IInv`, one step per action for `IInv /\ [Next]_vars => IInv'`, and
`IInv => P`. Modules that a proof module takes together name theirs apart
(`InputInv` of `InputSpec`, `WindowInv` of `WindowSpec` and so on). Components
without a proof module of their own share one with a neighbour.

Assumptions are those named in the modules, and TLC evaluates each of them:

| Assumption | Says | Because |
|---|---|---|
| `DriverAssumption` | an order of the driver's delays | the constants of `hp-wmi.c` |
| `CurveAssumption`, `LoopAssumption` | monotone curves, release below threshold, readings within the grid | `normalize_fan_points` (now proved of `CurveEditor`), the constants of `fan.rs`, the range of a sensor |
| `ProfileAssumption`, `StreamAssumption`, `UiAssumption` | channels and buffers hold something, handlers are finitely many, there is a value and a profile | `sync_channel` bounds, `MAX_CLIENTS` |
| `PowerAssumption` | positive intervals, a default that is not enabled | the clamp of `power_from_value` |
| `MonitorAssumption`, `SourceAssumption` | a temperature field, a positive lifetime or back-off | the constants of `gpu.rs` and `nvidia.rs` |
| `StoreAssumption`, `LightingAssumption` | markers are no settings, no colour and no brightness | the models' own marks |
| `PolicyAssumption` | zones numbered from 1 | the LEDs of the platform |
| `InputAssumption` | no modifier on two of the keyboards read, special keys are no modifiers, a free value that is no user, queues hold something | `discover_keyboards` takes the built-in keyboard and the HP hotkeys, which have none; evdev |
| `MetersAssumption`, `CommandAssumption` | numbered packages, a counter with a range; pipes, reads and patience that are not nothing | powercap, Linux pipes |
| `TuningAssumption` | cpufreq policies exist, speeds are positive and one of them is the largest; packages, limits and ranges are natural numbers | finitely many kHz values, 0 is no speed; powercap |
| `EditorAssumption` | the axis has a first and a later last degree | `TEMP_MIN_C` and the curves' `temp_max` |

The thread keeps one list of held modifiers for all keyboards it reads. Were the
same modifier on two of them, a release on one would count for both; the devices
that `discover_keyboards` looks for rule that out, and `InputAssumption` says so.

- `FanDriverProofs`: the strengthening relates the firmware's age to the ticks
  left on the work and the retries granted (`late`), which `RefreshScheduled`
  alone does not say; `FallbackOnlyWhenLate` follows from that sum.
- `CurveProofs`, of `FanCurve`: `WithinBand` needs that a demand belongs to the active
  signature; the floor needs that a hot EMA sets the latch whenever a target
  exists; the cooldown needs the deadline and the calm ticks to add up.
  `CooldownIsHeld` says that last fact.
- `CurveProofs`, of `FanLoop`: the lemma `LoopRunsCurve` is a means, no result, since the
  loop is built from the algorithm's actions; by it `LoopWithinBand` and
  `FloorIsKept` carry the algorithm's theorems over to the loop; `InStep` needs
  what is known between the last write and the policy's changes of mode.
- `ProfileHostProofs`: what is under way is fresh. A profile read is the host's
  or a notification is due (`ReadIsFresh`), an applied command's index is the
  host's (`AppliedIsActive`), and the profile is known or on its way
  (`ProfileFollows`). `BatteryIsSaved` and `ModeIsRestored` follow an episode
  through its four stations (`Unplugged`, `Saving`, `Replugged`, `Restoring`):
  at each, what all the requests in the channel, at the worker and under way may
  ask for, and that the mode wanted is in force or still asked for; in between,
  a mode is remembered only on battery (`ModeIsRemembered`) and the runtime's
  profile is the cached one (`ProfileIsCached`).
- `PolicyProofs`, of `PowerPlan`: the commands lock has one holder (`Exclusive`), which no
  variable says; what the loop holds is enabled (`PlanEnabled`, so that the
  import, open only while nothing was saved, cannot get between its check and
  its write); a policy saved after the plan has reset the timer (`Overtaken`);
  what a client is about to save is what the hardware has (`WrittenIsSaved`).
- `DeviceProofs`, of `GpuMonitor`: from the look that found nothing wanted until the wait,
  something is wanted only if the revision moved (`WantedMoves`), and between
  release and wait nothing is held (`Released`). Both together give
  `ParkedIdle`, the absence of lost wake-ups.
- `StateStoreProofs`: `SavedSurvives` needs that the file is what was promised in
  every phase of a save and that an import is taken only once saved; `UserKept`
  that what is being saved is in force, or an import into a daemon without policy;
  `CopiesKept` that while the copies are the user's own no policy exists
  anywhere, on disk, in memory, in a save or in a window that copies
  (`NoPolicyYet`).
- `EventStreamProofs`: every line on its way - channel, mailboxes, sockets, queue,
  a state fetched by a control thread - was published, which makes each step a
  step of `StateFeed` or a stutter (`ImplementsFeed`); the slot counter is the
  cardinality of the busy handlers, step by step (`SlotsAreCounted`); and
  `NothingFallsInAGap` follows the newest line from one place to the next.
- `KeyboardProofs`, of `Lighting`: `BeliefHolds` alone is not inductive. A tick that finds the
  light wanted must not still take the backlight for off; that is `OffIsWanted`,
  which holds since every change of the settings or of the dimming makes the loop
  forget. What a write that stops at some zone leaves there (`Written` and the
  lemmas after it) does the rest.
- `KeyboardProofs`, of `KeyInput`: `HeardAsTyped` is about a whole queue, and a
  queue changes at both ends. `Believes` says of one modifier and one queue what
  the thread will believe once it has read it; what an event at the tail and a
  read at the head do to it are lemmas, and `HeardEach` is the property modifier
  by modifier, for any layouts and queues. `GuardHeld` ties the activation flag
  to exactly one running thread, at every way out of it.
- `PolicyProofs`, of `UiSession`: that the newest state is shown once all is quiet
  is not inductive. `WindowInv` follows states on their way: each in the stream,
  the channel, the batch and the control threads was published (`OnTheWay`), what
  the stream forwarded was applied or is among them (`Forwarded`), and whatever
  is the newest applied is shown but for the edits held back, the drag and what
  was never sent (`NewestShown`, `ProfileShown`). That a drag goes on in custom
  mode only (`DragsCustom`) is part of it.
- `CurveProofs`, of `CurveEditor`: `EditorInv` has the points regular: speeds do not
  fall (`Raised`) and, of a tidy curve, temperatures rise from one end of the axis
  to the other (`Rising`). The lemmas say what the pure functions do for curves of
  any length: a sorted order exists and keeps what is in order, normalising
  makes any points regular and leaves a regular curve as it is (`RegularStays`),
  interpolation rises with the temperature (`InterpolateRises`) and reaches the
  last degree (`LastDegree`). The proof attempt found `CurveSound` false as it was
  first stated, for two stored points at the top temperature; TLC had missed it
  because no point of the small instance lay there. The divergence is listed
  above, the instance now has points at both ends.
- `DeviceProofs`, of `CpuMeters`: the counter is what it was plus what was used,
  modulo its range (`Counts`), so it went round once or not at all while less than
  the range was used, whatever the range.
- `DeviceProofs`, of `Command`: a pipe that the caller has read to its end is empty
  and has no writer left (`EndedEmpty`), and what is kept of it is what was taken, up to the cap
  (`KeptIsTaken`). With the exit of the child the ends of both pipes so make the
  whole output. `LeftBehind` says in what state each way out leaves the child and its
  group.
- `DeviceProofs`, of `NvidiaSource`: a wait and the time since the failure add up to
  the back-off at least (`WaitsEnough`), and nothing waits without a failure
  (`WaitsForFailure`); the action property `SmiPaced` needs both directions.
- `DeviceProofs`, of `Tuning`: for the frequencies, of a job that crossed no other,
  the policies before the one it is at have its limits already and the order of
  the two writes was chosen from what the file still has (`Underway`,
  `AloneUnderway`), so a minimum never passes a maximum in between. For offsets
  and power limits, each register holds what was asked for from the moment it was
  read back to the report (`RestHolds`: all it is about but those left to write, which
  `LeftToWrite` says), and eleven bits hold every
  valid offset (`OffsetFits`).

### Only model-checked

Liveness: `Recovers`, both `Converges`, `WorkerServes`, `Settles`, `BusyClears`,
`Migrates`, `CommandsEnd` and `WindowServed`. It needs fairness and `ENABLED`, which
are out of the prover's reach. `Telemetry` has no other property and therefore no
theorem. What depends on the real numbers of the rounding in `interpolate_fan` and
of the moving average is abstracted in the models, so neither says anything of it.

## Not modelled

- `hp-kbd-rgb.c` beyond what the LED classes show of it, the platform profile
  tables, the MUX and rfkill of `hp-wmi.c`: single calls of the firmware on state
  of their own.
- Installation scripts and unit files. The sleep hook is the source of
  `PrepareSleep` and `Resume`.
- Layout, painting, fonts, tray, diagnostics and the capture of a shortcut in the
  window; what they draw is the state that `UiSession` and `Telemetry` keep.
- The text of requests, answers and files (JSON, INI, QVariant), and the parsers:
  pure functions whose content nothing else depends on beyond success, failure
  and the fields the models carry.
- The arithmetic of animated colours: any shade of the effect stands for it.

What would come next: the composition of `UiSession` with `EventStream` in place
of its reliable stream; and the keyboard driver, once somebody besides the daemon
writes its LEDs.
