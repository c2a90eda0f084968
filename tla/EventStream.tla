----------------------------- MODULE EventStream -----------------------------
(***************************************************************************)
(* How a desktop window learns the state of the daemon:                    *)
(* crates/victus-hubd/src/server.rs (accept loop, handler threads, fanout),*)
(* Runtime::publish_state and publish of runtime.rs, and on the other side *)
(* spawn_state_stream of crates/victus-hub/src/ui/host.rs, the event queue *)
(* of session.rs and the revision filter of apply_remote_state in view.rs. *)
(* A line goes from the daemon's channel to the mailbox of every           *)
(* subscriber, from there to its socket, and from there to the window's    *)
(* queue.  Channel and mailboxes are bounded and never waited for: a full  *)
(* channel loses the line, a full mailbox evicts its subscriber, which     *)
(* then reads to the end, reconnects and takes a new snapshot.  Every      *)
(* action is one step of one thread.  The session may be locked or         *)
(* unlocked, the daemon restarted and the window closed at any time, and   *)
(* other clients take handlers too.                                        *)
(***************************************************************************)
EXTENDS Integers, Sequences, FiniteSets

CONSTANTS
  Handlers,     (* handler threads                                          *)
  None,         (* no handler, no answer                                    *)
  MaxClients,   (* MAX_CLIENTS                                              *)
  ChannelSize,  (* lines the daemon's channel holds                         *)
  MailboxSize,  (* lines a subscriber's mailbox holds                       *)
  SocketSize,   (* lines the socket buffer holds                            *)
  QueueSize,    (* events the window's queue holds                          *)
  MaxInstance,  (* bound: runs of the daemon                                *)
  MaxRevision   (* bound: revisions the first run publishes; each later     *)
                (* run publishes one fewer                                  *)

ASSUME StreamAssumption ==
  /\ IsFiniteSet(Handlers) /\ None \notin Handlers
  /\ MaxClients \in Nat \ {0} /\ MaxClients <= Cardinality(Handlers)
  /\ ChannelSize \in Nat \ {0} /\ MailboxSize \in Nat \ {0}
  /\ SocketSize \in Nat \ {0} /\ QueueSize \in Nat \ {0}
  /\ MaxInstance \in Nat \ {0} /\ MaxRevision \in Nat

Instances == 1..MaxInstance
States == [instance : Instances, revision : 0..MaxRevision]

(* A LIGHTING line: no window reads it, but it takes the place of a line.  *)
Lighting == [instance |-> -1, revision |-> -1]
Lines == States \cup {Lighting}

(* What a window has recorded before its first STATE line. *)
Nothing == [instance |-> 0, revision |-> 0]

VARIABLES
  instance,  (* the run of the daemon                                      *)
  revs,      (* its revision counter; for earlier runs the last value      *)
  channel,   (* lighting_tx: lines the fanout thread has not taken         *)
  clients,   (* the slot counter of the accept loop                        *)
  phase,     (* what each handler thread does                              *)
  member,    (* the handlers whose mailbox is in `subscribers'             *)
  inbox,     (* the mailbox of each stream                                 *)
  link,      (* the window's connection: none, open, or closed by the      *)
             (* daemon with lines left to read                             *)
  conn,      (* the handler at the other end                               *)
  wire,      (* lines in the socket                                        *)
  running,   (* the window exists                                          *)
  fetched,   (* the state a control thread got from get-state, not yet sent*)
  events,    (* states in the window's queue                               *)
  shown,     (* state_instance and state_revision of the window            *)
  unlocked,  (* the session is active and unlocked                         *)
  lossy,     (* history: the newest revision was lost at a full channel    *)
  late       (* history: a state of an earlier run was applied after one   *)
             (* of a later run, and the newest has not come since          *)

daemon == <<instance, revs, channel>>
server == <<clients, phase, member, inbox>>
connection == <<link, conn, wire>>
window == <<running, fetched, events, shown>>
vars == <<daemon, server, connection, window, unlocked, lossy, late>>

Current == [instance |-> instance, revision |-> revs[instance]]

Phases == {"free", "serving", "asked", "registered", "streaming"}
Busy == {h \in Handlers : phase[h] # "free"}

-----------------------------------------------------------------------------
Init ==
  /\ instance = 1 /\ revs = [i \in Instances |-> 0] /\ channel = <<>>
  /\ clients = 0
  /\ phase = [h \in Handlers |-> "free"]
  /\ member = {}
  /\ inbox = [h \in Handlers |-> <<>>]
  /\ link = "none" /\ conn = None /\ wire = <<>>
  /\ running = FALSE /\ fetched = None /\ events = <<>> /\ shown = Nothing
  /\ unlocked = TRUE /\ lossy = FALSE /\ late = FALSE

(* try_send: a full channel loses the line, and nobody is told.            *)
Offer(line) ==
  channel' = IF Len(channel) < ChannelSize THEN Append(channel, line) ELSE channel

(* publish_state: the revision is counted whether or not the line fits.    *)
PublishState ==
  /\ revs[instance] + instance <= MaxRevision
  /\ revs' = [revs EXCEPT ![instance] = @ + 1]
  /\ Offer([instance |-> instance, revision |-> revs[instance] + 1])
  /\ lossy' = (Len(channel) = ChannelSize)
  /\ UNCHANGED <<instance, server, connection, window, unlocked, late>>

(* publish: the LIGHTING line that follows a change of the lighting; one   *)
(* that does not fit changes nothing.                                      *)
PublishLighting ==
  /\ revs[instance] > 0
  /\ Len(channel) < ChannelSize
  /\ Offer(Lighting)
  /\ UNCHANGED <<instance, revs, server, connection, window, unlocked, lossy, late>>

(* Faulty: whoever cannot take the line misses it and stays.               *)
FanoutSkipping ==
  /\ channel # <<>>
  /\ channel' = Tail(channel)
  /\ inbox' = [h \in Handlers |->
                 IF h \in member /\ Len(inbox[h]) < MailboxSize
                 THEN Append(inbox[h], Head(channel)) ELSE inbox[h]]
  /\ UNCHANGED <<instance, revs, clients, phase, member, connection, window, unlocked,
                 lossy, late>>

(* The fanout thread: whoever cannot take the line is no longer a          *)
(* subscriber.                                                             *)
Fanout ==
  LET roomy == {h \in member : Len(inbox[h]) < MailboxSize}
  IN  /\ channel # <<>>
      /\ channel' = Tail(channel)
      /\ member' = roomy
      /\ inbox' = [h \in Handlers |->
                     IF h \in roomy THEN Append(inbox[h], Head(channel)) ELSE inbox[h]]
      /\ UNCHANGED <<instance, revs, clients, phase, connection, window, unlocked,
                     lossy, late>>

-----------------------------------------------------------------------------
(* Faulty: an early return keeps the slot.                                 *)
EndsKeepingSlot(h) ==
  /\ phase' = [phase EXCEPT ![h] = "free"]
  /\ member' = member \ {h}
  /\ inbox' = [inbox EXCEPT ![h] = <<>>]
  /\ IF conn = h THEN link' = "closed" /\ conn' = None ELSE UNCHANGED <<link, conn>>
  /\ UNCHANGED clients

(* The end of a handler: the slot and the subscription are given back and  *)
(* the stream is closed, whichever return was taken.                       *)
Ends(h) ==
  /\ clients' = clients - 1
  /\ phase' = [phase EXCEPT ![h] = "free"]
  /\ member' = member \ {h}
  /\ inbox' = [inbox EXCEPT ![h] = <<>>]
  /\ IF conn = h THEN link' = "closed" /\ conn' = None ELSE UNCHANGED <<link, conn>>

(* The accept loop takes a slot; with none left it answers and hangs up.   *)
Accept(h, next) ==
  /\ clients < MaxClients
  /\ phase[h] = "free"
  /\ clients' = clients + 1
  /\ phase' = [phase EXCEPT ![h] = next]
  /\ UNCHANGED <<member, inbox>>

(* Another client: one request, or a stream of its own; it ends as it      *)
(* likes, by a timeout at the latest.                                      *)
OtherArrives ==
  /\ \E h \in Handlers : Accept(h, "serving")
  /\ UNCHANGED <<daemon, connection, window, unlocked, lossy, late>>

OtherLeaves(h) ==
  /\ phase[h] = "serving"
  /\ Ends(h)
  /\ UNCHANGED <<daemon, wire, window, unlocked, lossy, late>>

(* The request has been read and the peer looked up for the second time.   *)
Refuse(h) ==
  /\ phase[h] = "asked" /\ ~unlocked
  /\ Ends(h)
  /\ UNCHANGED <<daemon, wire, window, unlocked, lossy, late>>

Register(h) ==
  /\ phase[h] = "asked" /\ unlocked
  /\ phase' = [phase EXCEPT ![h] = "registered"]
  /\ member' = member \cup {h}
  /\ UNCHANGED <<daemon, clients, inbox, connection, window, unlocked, lossy, late>>

(* The snapshot, taken under the runtime lock and written at once.         *)
Snapshot(h) ==
  /\ phase[h] = "registered" /\ conn = h
  /\ phase' = [phase EXCEPT ![h] = "streaming"]
  /\ wire' = Append(wire, Current)
  /\ UNCHANGED <<daemon, clients, member, inbox, link, conn, window, unlocked, lossy,
                 late>>

(* Nobody reads any more: the first write or the read after the timeout    *)
(* fails.                                                                  *)
PeerGone(h) ==
  /\ phase[h] \in {"registered", "streaming"} /\ conn # h
  /\ Ends(h)
  /\ UNCHANGED <<daemon, wire, window, unlocked, lossy, late>>

(* Faulty: a locked session is passed over, the line is gone.              *)
ForwardOrSkip(h) ==
  /\ phase[h] = "streaming" /\ conn = h /\ inbox[h] # <<>>
  /\ Len(wire) < SocketSize
  /\ inbox' = [inbox EXCEPT ![h] = Tail(@)]
  /\ wire' = IF unlocked THEN Append(wire, Head(inbox[h])) ELSE wire
  /\ UNCHANGED <<daemon, clients, phase, member, link, conn, window, unlocked, lossy,
                 late>>

Forward(h) ==
  /\ phase[h] = "streaming" /\ conn = h /\ inbox[h] # <<>>
  /\ unlocked /\ Len(wire) < SocketSize
  /\ inbox' = [inbox EXCEPT ![h] = Tail(@)]
  /\ wire' = Append(wire, Head(inbox[h]))
  /\ UNCHANGED <<daemon, clients, phase, member, link, conn, window, unlocked, lossy,
                 late>>

(* A line for a locked session, or a socket that takes no more, ends the   *)
(* stream: the reconnection will bring a snapshot.                         *)
GiveUp(h) ==
  /\ phase[h] = "streaming" /\ conn = h /\ inbox[h] # <<>>
  /\ ~unlocked \/ Len(wire) = SocketSize
  /\ Ends(h)
  /\ UNCHANGED <<daemon, wire, window, unlocked, lossy, late>>

(* An evicted stream has read its mailbox to the end: Disconnected.        *)
Evicted(h) ==
  /\ phase[h] = "streaming" /\ conn = h /\ inbox[h] = <<>> /\ h \notin member
  /\ Ends(h)
  /\ UNCHANGED <<daemon, wire, window, unlocked, lossy, late>>

Handler(h) ==
  \/ Refuse(h) \/ Register(h) \/ Snapshot(h) \/ PeerGone(h)
  \/ Forward(h) \/ GiveUp(h) \/ Evicted(h) \/ OtherLeaves(h)

-----------------------------------------------------------------------------
(* The state thread of the window tries again and again, also when all the *)
(* slots were taken.                                                       *)
Connect ==
  /\ running /\ link = "none"
  /\ \E h \in Handlers : Accept(h, "asked") /\ conn' = h
  /\ link' = "open"
  /\ UNCHANGED <<wire, daemon, window, unlocked, lossy, late>>

(* The thread reads a line, and waits while the queue is full.             *)
ReadLine ==
  /\ running /\ wire # <<>>
  /\ IF Head(wire) = Lighting THEN UNCHANGED events
     ELSE Len(events) < QueueSize /\ events' = Append(events, Head(wire))
  /\ wire' = Tail(wire)
  /\ UNCHANGED <<daemon, server, link, conn, running, fetched, shown, unlocked, lossy,
                 late>>

ReadEnd ==
  /\ running /\ link = "closed" /\ wire = <<>>
  /\ link' = "none"
  /\ UNCHANGED <<daemon, server, conn, wire, window, unlocked, lossy, late>>

(* A control thread asks for the state after a profile change; its answer  *)
(* goes to the same queue by a way of its own.                             *)
Fetch ==
  /\ running /\ fetched = None /\ unlocked /\ clients < MaxClients
  /\ fetched' = Current
  /\ UNCHANGED <<daemon, server, connection, running, events, shown, unlocked, lossy,
                 late>>

SendFetched ==
  /\ running /\ fetched # None /\ Len(events) < QueueSize
  /\ events' = Append(events, fetched)
  /\ fetched' = None
  /\ UNCHANGED <<daemon, server, connection, running, shown, unlocked, lossy, late>>

(* Faulty: whatever arrives is taken.                                      *)
AcceptableAlways(s) == TRUE

(* The filter of apply_remote_state: only an older revision of the same    *)
(* run is ignored.                                                         *)
Acceptable(s) == s.instance = shown.instance => s.revision >= shown.revision

ApplyRemoteState ==
  /\ running /\ events # <<>>
  /\ events' = Tail(events)
  /\ LET s == Head(events)
     IN  /\ shown' = IF Acceptable(s) THEN s ELSE shown
         /\ late' = (shown' # Current /\ (late \/ s.instance < shown.instance))
  /\ UNCHANGED <<daemon, server, connection, running, fetched, unlocked, lossy>>

-----------------------------------------------------------------------------
OpenWindow ==
  /\ ~running /\ running' = TRUE
  /\ UNCHANGED <<daemon, server, connection, fetched, events, shown, unlocked, lossy, late>>

CloseWindow ==
  /\ running
  /\ running' = FALSE /\ fetched' = None /\ events' = <<>> /\ shown' = Nothing
  /\ link' = "none" /\ conn' = None /\ wire' = <<>> /\ late' = FALSE
  /\ UNCHANGED <<daemon, server, unlocked, lossy>>

(* The daemon stops and starts; what its sockets hold can still be read.   *)
RestartDaemon ==
  /\ instance < MaxInstance
  /\ instance' = instance + 1 /\ channel' = <<>>
  /\ clients' = 0 /\ phase' = [h \in Handlers |-> "free"]
  /\ member' = {} /\ inbox' = [h \in Handlers |-> <<>>]
  /\ link' = IF link = "open" THEN "closed" ELSE link
  /\ conn' = None /\ lossy' = FALSE
  /\ UNCHANGED <<revs, wire, window, unlocked, late>>

Lock ==
  /\ unlocked' = ~unlocked
  /\ UNCHANGED <<daemon, server, connection, window, lossy, late>>

Window == ReadLine \/ ReadEnd

Next ==
  \/ PublishState \/ PublishLighting \/ Fanout
  \/ OtherArrives \/ (\E h \in Handlers : Handler(h))
  \/ Connect \/ Window \/ Fetch \/ SendFetched \/ ApplyRemoteState
  \/ OpenWindow \/ CloseWindow \/ RestartDaemon \/ Lock

(* Every thread goes on: blocked reads return by their timeouts, the state *)
(* thread retries for ever, the main loop takes every event.               *)
Fairness ==
  /\ WF_vars(Fanout)
  /\ \A h \in Handlers : WF_vars(Handler(h))
  /\ WF_vars(Connect) /\ WF_vars(Window)
  /\ WF_vars(SendFetched) /\ WF_vars(ApplyRemoteState)

Spec == Init /\ [][Next]_vars
FairSpec == Spec /\ Fairness

-----------------------------------------------------------------------------
TypeOK ==
  /\ instance \in Instances
  /\ revs \in [Instances -> 0..MaxRevision]
  /\ channel \in Seq(Lines) /\ Len(channel) =< ChannelSize
  /\ clients \in Int
  /\ phase \in [Handlers -> Phases]
  /\ member \in SUBSET Handlers
  /\ inbox \in [Handlers -> Seq(Lines)]
  /\ link \in {"none", "open", "closed"}
  /\ conn \in Handlers \cup {None}
  /\ wire \in Seq(Lines)
  /\ running \in BOOLEAN
  /\ fetched \in States \cup {None}
  /\ events \in Seq(States)
  /\ shown \in States \cup {Nothing}
  /\ unlocked \in BOOLEAN /\ lossy \in BOOLEAN /\ late \in BOOLEAN

(* A handler counts as long as it runs, whichever way its stream ends:     *)
(* `clients' never drifts from the number of handler threads, so no slot   *)
(* is lost and no more than MAX_CLIENTS run (server.rs serve_inner).       *)
SlotsCounted == clients = Cardinality(Busy) /\ clients <= MaxClients

(* s, or a later state of the same run *)
UpToDate(s) == s.instance = instance /\ s.revision >= revs[instance]

(* "Register before taking the snapshot so no state change falls in a gap" *)
(* (server.rs stream_events): while a stream is a subscriber, the newest   *)
(* revision the channel took is in the channel or in the mailbox, or the   *)
(* stream has already written it; seen from the other end, the window      *)
(* shows it or will find it in its queue or in the socket.                 *)
NoGap ==
  \A h \in member :
    phase[h] = "streaming" /\ conn = h /\ ~lossy =>
      \/ \E i \in DOMAIN channel : UpToDate(channel[i])
      \/ \E i \in DOMAIN inbox[h] : UpToDate(inbox[h][i])
      \/ \E i \in DOMAIN wire : UpToDate(wire[i])
      \/ \E i \in DOMAIN events : UpToDate(events[i])
      \/ UpToDate(shown) \/ late

(* The stream implements StateFeed: whatever is lost, delayed, repeated or *)
(* overtaken on the way, the window shows only published states and never  *)
(* goes back within one run of the daemon (view.rs apply_remote_state).    *)
Feed ==
  INSTANCE StateFeed WITH MaxInstance <- MaxInstance, instance <- instance, revs <- revs,
                          shown <- shown
FeedRefined == Feed!FeedSpec

(* The slots are all taken by other clients. *)
Crowded == Cardinality({h \in Handlers : phase[h] = "serving"}) >= MaxClients

(* Once the window stays, the session stays unlocked and other clients     *)
(* leave a slot, it comes to show the newest state for good, after any     *)
(* loss, eviction, restart or lock before: unless the last revision was    *)
(* lost at a full channel (runtime.rs publish_state), or an answer of an   *)
(* earlier run was applied last.                                           *)
Converges ==
  <>[](running /\ unlocked /\ ~Crowded)
    => <>[](shown = Current \/ lossy \/ late)
=============================================================================
