------------------------------- MODULE KeyInput -------------------------------
(***************************************************************************)
(* The keyboard thread of the daemon (spawn_keyboard and                   *)
(* activate_program_shortcut of crates/victus-hubd/src/main.rs), the key   *)
(* table of crates/victus-core/src/shortcuts.rs, handle_key of runtime.rs  *)
(* and the program shortcuts of binds.rs.  The kernel queues the events of *)
(* each keyboard for the thread; a queue that overflows loses them.  The   *)
(* thread keeps the modifiers it believes held, gives every other key to   *)
(* the runtime, and starts one more thread for a program shortcut, which   *)
(* looks up the user at the desktop and asks his window to show itself.    *)
(* Keyboards come and go, and users change their shortcuts, at any time.   *)
(* The hardware actions a key has are actions of Lighting and ProfileHost. *)
(***************************************************************************)
EXTENDS Integers, Sequences, FiniteSets, Functions

CONSTANTS
  Devices,    (* keyboards: the built-in one and the HP hotkeys            *)
  Ctrl,       (* a command modifier                                        *)
  Shift,      (* a modifier that commands nothing                          *)
  Layout,     (* the keys of each keyboard; discover_keyboards takes the   *)
              (* built-in one, which alone has modifiers, and the hotkeys  *)
  Specials,   (* keys that need no modifier: is_special_key                *)
  Users,      (* desktop users                                             *)
  Unbound,
  Buffer,     (* events the kernel queues for one keyboard                 *)
  MaxThreads  (* bound: activation threads alive                           *)

Modifiers == {Ctrl, Shift}
Codes == UNION Range(Layout)

ASSUME InputAssumption ==
  /\ Ctrl # Shift
  /\ Layout \in [Devices -> SUBSET Codes]
  /\ \A d, e \in Devices : d # e => Layout[d] \cap Layout[e] \cap Modifiers = {}
  /\ Specials \subseteq Codes \ Modifiers
  /\ Unbound \notin Users
  /\ Buffer \in Nat \ {0} /\ MaxThreads \in Nat \ {0}

Keys == Codes \ Modifiers
Events == [code : Codes, press : BOOLEAN]
Chords == [mods : SUBSET (Modifiers \cap Codes), key : Keys]

(* validate_shortcut: a command modifier, or a key that needs none.        *)
ValidShortcuts == {c \in Chords : Ctrl \in c.mods \/ c.key \in Specials}

VARIABLES
  present,    (* keyboards that discover_keyboards finds                   *)
  down,       (* the modifiers physically held on each of them             *)
  queue,      (* events the kernel holds for the thread                    *)
  opened,     (* the keyboards the thread reads; none while it looks       *)
  held,       (* the modifiers it believes held                            *)
  bindings,   (* ProgramShortcuts.bindings                                 *)
  stored,     (* the file they are stored in                               *)
  threads,    (* activation threads: the chord and the step of each        *)
  activating, (* ACTIVATING                                                *)
  before,     (* history: modifiers down since before they were opened     *)
  lost        (* history: an event was lost since the keyboards were opened*)

kernel == <<present, down, queue>>
thread == <<opened, held>>
shortcuts == <<bindings, stored>>
activation == <<threads, activating>>
history == <<before, lost>>
inputVars == <<kernel, thread, shortcuts, activation, history>>

Threads == [chord : Chords, step : {"starts", "runs"}, id : 1..MaxThreads]

-----------------------------------------------------------------------------
InputInit ==
  /\ present = Devices
  /\ down = [d \in Devices |-> {}] /\ queue = [d \in Devices |-> <<>>]
  /\ opened = {} /\ held = {} /\ before = {} /\ lost = FALSE
  /\ bindings = [u \in Users |-> Unbound] /\ stored = bindings
  /\ threads = {} /\ activating = FALSE

(* The kernel queues an event for the thread that has the keyboard open; a *)
(* full queue is emptied for the newest (SYN_DROPPED, which the thread     *)
(* skips like every event that is not a key's).                            *)
Queue(d, event) ==
  IF d \notin opened THEN UNCHANGED <<queue, lost>>
  ELSE IF Len(queue[d]) < Buffer
  THEN queue' = [queue EXCEPT ![d] = Append(@, event)] /\ UNCHANGED lost
  ELSE queue' = [queue EXCEPT ![d] = <<event>>] /\ lost' = TRUE

(* A modifier goes down or up. *)
ModifierMoves(d, m) ==
  /\ d \in present /\ m \in Modifiers \cap Layout[d]
  /\ down' = [down EXCEPT ![d] = IF m \in @ THEN @ \ {m} ELSE @ \cup {m}]
  /\ Queue(d, [code |-> m, press |-> m \notin down[d]])
  /\ before' = before \ {m}
  /\ UNCHANGED <<present, thread, shortcuts, activation>>

(* Another key is pressed; its release changes nothing in the program.     *)
KeyPressed(d, k) ==
  /\ d \in present /\ k \in Keys \cap Layout[d]
  /\ Queue(d, [code |-> k, press |-> TRUE])
  /\ UNCHANGED <<present, down, before, thread, shortcuts, activation>>

(* A keyboard is unplugged with its modifiers up, or plugged in.           *)
Plug(d) ==
  /\ down[d] = {}
  /\ present' = IF d \in present THEN present \ {d} ELSE present \cup {d}
  /\ UNCHANGED <<down, queue, thread, shortcuts, activation, history>>

(* discover_keyboards found some, and some of them were opened.            *)
Open ==
  /\ opened = {}
  /\ opened' \in SUBSET present \ {{}}
  /\ held' = {}
  /\ queue' = [d \in Devices |-> <<>>]
  /\ before' = UNION Range(down) /\ lost' = FALSE
  /\ UNCHANGED <<present, down, shortcuts, activation>>

(* A keyboard that is gone: all are closed and looked for again.           *)
Reopen ==
  /\ opened \ present # {}
  /\ opened' = {} /\ held' = {}
  /\ UNCHANGED <<kernel, shortcuts, activation, history>>

-----------------------------------------------------------------------------

(* handle_key and take_activation: a chord that is some user's shortcut    *)
(* starts a thread.  Bound: the next key waits for a thread to end.        *)
HandleKey(c) ==
  IF \E u \in Users : bindings[u] = c
  THEN \E id \in 1..MaxThreads :
         /\ \A t \in threads : t.id # id
         /\ threads' = threads \cup {[chord |-> c, step |-> "starts", id |-> id]}
  ELSE UNCHANGED threads

(* Faulty: a release drops every modifier. *)
ReadDropping(d) ==
  /\ d \in opened /\ queue[d] # <<>>
  /\ queue' = [queue EXCEPT ![d] = Tail(@)]
  /\ LET event == Head(queue[d])
     IN  IF event.code \in Modifiers
         THEN /\ held' = IF event.press THEN held \cup {event.code} ELSE {}
              /\ UNCHANGED threads
         ELSE HandleKey([mods |-> held, key |-> event.code]) /\ UNCHANGED held
  /\ UNCHANGED <<present, down, opened, shortcuts, activating, history>>

(* One event of one keyboard; which of them is read first is left open.    *)
Read(d) ==
  /\ d \in opened /\ queue[d] # <<>>
  /\ queue' = [queue EXCEPT ![d] = Tail(@)]
  /\ LET event == Head(queue[d])
     IN  IF event.code \in Modifiers
         THEN /\ held' = IF event.press THEN held \cup {event.code} ELSE held \ {event.code}
              /\ UNCHANGED threads
         ELSE HandleKey([mods |-> held, key |-> event.code]) /\ UNCHANGED held
  /\ UNCHANGED <<present, down, opened, shortcuts, activating, history>>

-----------------------------------------------------------------------------
(* activate_program_shortcut: only one at a time, the press is dropped     *)
(* while another is under way.                                             *)
ActivationStarts(t) ==
  /\ t \in threads /\ t.step = "starts"
  /\ threads' = (threads \ {t}) \cup
                  (IF activating THEN {} ELSE {[t EXCEPT !.step = "runs"]})
  /\ activating' = TRUE
  /\ UNCHANGED <<kernel, thread, shortcuts, history>>

(* Faulty: an early return may leave the flag set.                         *)
ActivationEndsEarly(t) ==
  /\ t \in threads /\ t.step = "runs"
  /\ threads' = threads \ {t}
  /\ activating' = (t.chord \notin Range(bindings))
  /\ UNCHANGED <<kernel, thread, shortcuts, history>>

(* The lookup of the user, his binding read again, and the call of his     *)
(* window, all bounded by timeouts; whatever the result, the guard is      *)
(* dropped.                                                                *)
ActivationEnds(t) ==
  /\ t \in threads /\ t.step = "runs"
  /\ threads' = threads \ {t}
  /\ activating' = FALSE
  /\ UNCHANGED <<kernel, thread, shortcuts, history>>

(* ProgramShortcuts::set: stored by a rename, and taken only when that     *)
(* succeeded.                                                              *)
Bind(u, c) ==
  /\ c \in ValidShortcuts /\ bindings[u] # c
  /\ \/ bindings' = [bindings EXCEPT ![u] = c] /\ stored' = bindings'
     \/ UNCHANGED shortcuts
  /\ UNCHANGED <<kernel, thread, activation, history>>

(* The daemon starts again with ProgramShortcuts::load.                    *)
RestartThread ==
  /\ bindings' = stored
  /\ opened' = {} /\ held' = {} /\ threads' = {} /\ activating' = FALSE
  /\ UNCHANGED <<kernel, stored, history>>

InputNext ==
  \/ \E d \in Devices :
       \/ Plug(d) \/ Read(d)
       \/ \E c \in Codes : ModifierMoves(d, c) \/ KeyPressed(d, c)
  \/ Open \/ Reopen \/ RestartThread
  \/ \E t \in threads : ActivationStarts(t) \/ ActivationEnds(t)
  \/ \E u \in Users, c \in Chords : Bind(u, c)

InputSpec == InputInit /\ [][InputNext]_inputVars

-----------------------------------------------------------------------------

(* The modifiers the thread will believe held once it has read what a      *)
(* keyboard's queue holds: the last event of each decides.                 *)
Heard(d) ==
  {m \in Modifiers \cap Layout[d] :
     LET events == {i \in DOMAIN queue[d] : queue[d][i].code = m}
     IN  IF events = {} THEN m \in held
         ELSE \E i \in events : queue[d][i].press /\ \A j \in events : j <= i}

(* A chord is heard as it was typed: read to its end, a keyboard's queue   *)
(* leaves the thread with the modifiers that are down on it, but for those *)
(* that were down before it was opened; none sticks after a keyboard is    *)
(* lost.  A queue that overflowed voids this (main.rs spawn_keyboard).     *)
HeardAsTyped ==
  ~lost => \A d \in opened : Heard(d) = down[d] \ before

(* The flag that admits one activation at a time is set exactly while one  *)
(* runs: no early return leaves the shortcut dead until the daemon is      *)
(* restarted, and no two run side by side (main.rs                         *)
(* activate_program_shortcut).                                             *)
OneActivation ==
  LET running == {t \in threads : t.step = "runs"}
  IN  Cardinality(running) = IF activating THEN 1 ELSE 0

=============================================================================
