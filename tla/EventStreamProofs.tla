-------------------------- MODULE EventStreamProofs --------------------------
(***************************************************************************)
(* EventStream for any number of handler threads and any bounds: its       *)
(* types, that the slots are counted, and that it implements StateFeed.    *)
(***************************************************************************)
EXTENDS EventStream, FiniteSetTheorems, TLAPS

(* The lines that may be on the way: only what a run has published.        *)
Sent == {s \in States : s.instance <= instance /\ s.revision <= revs[s.instance]}
SentLines == Sent \cup {Lighting}

RunOK ==
  /\ instance \in Instances
  /\ revs \in [Instances -> 0..MaxRevision]
  /\ running \in BOOLEAN /\ unlocked \in BOOLEAN /\ lossy \in BOOLEAN /\ late \in BOOLEAN

SlotsOK ==
  /\ phase \in [Handlers -> Phases]
  /\ member \in SUBSET Handlers
  /\ link \in {"none", "open", "closed"}
  /\ conn \in Handlers \cup {None}
  /\ clients \in Int
  /\ SlotsCounted

LinesOK ==
  /\ channel \in Seq(SentLines) /\ Len(channel) <= ChannelSize
  /\ inbox \in [Handlers -> Seq(SentLines)]
  /\ wire \in Seq(SentLines)
  /\ fetched \in Sent \cup {None}
  /\ events \in Seq(Sent)
  /\ shown \in Sent \cup {Nothing}

IInv == RunOK /\ SlotsOK /\ LinesOK

-----------------------------------------------------------------------------
(* A sequence stays one when more elements are allowed.                    *)
LEMMA MoreAllowed ==
  ASSUME NEW S, NEW T, S \subseteq T
  PROVE  Seq(S) \subseteq Seq(T)
  OBVIOUS

LEMMA InitIInv == Init => IInv
<1> SUFFICES ASSUME Init PROVE IInv
  OBVIOUS
<1> USE StreamAssumption
<1>1. RunOK
  <2>1. running \in BOOLEAN /\ unlocked \in BOOLEAN /\ lossy \in BOOLEAN /\ late \in BOOLEAN
    BY DEF Init
  <2>2. instance \in Instances /\ 0 \in 0..MaxRevision
    BY DEF Init, Instances
  <2>3. revs \in [Instances -> 0..MaxRevision]
    BY <2>2 DEF Init
  <2> QED BY <2>1, <2>2, <2>3 DEF RunOK
<1>2. Busy = {}
  BY DEF Busy, Init
<1>3. Cardinality({}) = 0
  BY FS_EmptySet
<1>4. SlotsCounted
  BY <1>2, <1>3 DEF SlotsCounted, Init
<1>5. SlotsOK
  BY <1>4 DEF SlotsOK, Init, Phases
<1>6. LinesOK
  BY DEF LinesOK, Init
<1> QED
  BY <1>1, <1>5, <1>6 DEF IInv

-----------------------------------------------------------------------------
(* The runs of the daemon and their revisions.                             *)
LEMMA NextRun == IInv /\ Next => RunOK'
<1> SUFFICES ASSUME IInv, Next PROVE RunOK'
  OBVIOUS
<1>0. /\ instance \in Instances /\ revs \in [Instances -> 0..MaxRevision]
      /\ running \in BOOLEAN /\ unlocked \in BOOLEAN /\ lossy \in BOOLEAN /\ late \in BOOLEAN
  BY DEF IInv, RunOK
<1>1. instance' \in Instances
  <2>1. instance' = instance \/ (instance < MaxInstance /\ instance' = instance + 1)
    BY DEF Next, PublishState, PublishLighting, Fanout, OtherArrives, Handler, Refuse,
       Register, Snapshot, PeerGone, Forward, GiveUp, Evicted, OtherLeaves, Connect,
       Window, ReadLine, ReadEnd, Fetch, SendFetched, ApplyRemoteState, OpenWindow,
       CloseWindow, RestartDaemon, Lock, daemon
  <2> QED BY <1>0, <2>1, StreamAssumption DEF Instances
<1>2. revs' \in [Instances -> 0..MaxRevision]
  <2>1. CASE PublishState
    <3>1. revs[instance] \in 0..MaxRevision /\ revs[instance] + 1 \in 0..MaxRevision
      BY <1>0, <2>1, StreamAssumption DEF PublishState, Instances
    <3> QED BY <1>0, <2>1, <3>1 DEF PublishState
  <2>2. CASE revs' = revs
    BY <1>0, <2>2
  <2> QED
    BY <2>1, <2>2
    DEF Next, PublishLighting, Fanout, OtherArrives, Handler, Refuse,
       Register, Snapshot, PeerGone, Forward, GiveUp, Evicted, OtherLeaves, Connect,
       Window, ReadLine, ReadEnd, Fetch, SendFetched, ApplyRemoteState, OpenWindow,
       CloseWindow, RestartDaemon, Lock, daemon
<1>3. running' \in BOOLEAN /\ unlocked' \in BOOLEAN
  BY <1>0
  DEF Next, PublishState, PublishLighting, Fanout, OtherArrives, Handler, Refuse,
       Register, Snapshot, PeerGone, Forward, GiveUp, Evicted, OtherLeaves, Connect,
       Window, ReadLine, ReadEnd, Fetch, SendFetched, ApplyRemoteState, OpenWindow,
       CloseWindow, RestartDaemon, Lock, window
<1>4. lossy' \in BOOLEAN
  BY <1>0
  DEF Next, PublishState, PublishLighting, Fanout, OtherArrives, Handler, Refuse,
       Register, Snapshot, PeerGone, Forward, GiveUp, Evicted, OtherLeaves, Connect,
       Window, ReadLine, ReadEnd, Fetch, SendFetched, ApplyRemoteState, OpenWindow,
       CloseWindow, RestartDaemon, Lock
<1>5. late' \in BOOLEAN
  BY <1>0
  DEF Next, PublishState, PublishLighting, Fanout, OtherArrives, Handler, Refuse,
       Register, Snapshot, PeerGone, Forward, GiveUp, Evicted, OtherLeaves, Connect,
       Window, ReadLine, ReadEnd, Fetch, SendFetched, ApplyRemoteState, OpenWindow,
       CloseWindow, RestartDaemon, Lock
<1> QED
  BY <1>1, <1>2, <1>3, <1>4, <1>5 DEF RunOK

-----------------------------------------------------------------------------
LEMMA BusyFinite == IsFiniteSet(Busy)
  BY StreamAssumption, FS_Subset DEF Busy

(* Every return of a handler gives its slot back.                          *)
LEMMA EndsSlots ==
  ASSUME SlotsOK, NEW h \in Handlers, phase[h] # "free", Ends(h)
  PROVE  SlotsOK'
<1>0. /\ phase \in [Handlers -> Phases] /\ member \in SUBSET Handlers
      /\ link \in {"none", "open", "closed"} /\ conn \in Handlers \cup {None}
      /\ clients \in Int /\ clients = Cardinality(Busy) /\ clients <= MaxClients
  BY DEF SlotsOK, SlotsCounted
<1>1. /\ clients' = clients - 1 /\ phase' = [phase EXCEPT ![h] = "free"]
      /\ member' = member \ {h} /\ link' \in {link, "closed"} /\ conn' \in {conn, None}
  BY DEF Ends
<1>2. h \in Busy /\ Busy' = Busy \ {h}
  BY <1>0, <1>1 DEF Busy
<1>3. Cardinality(Busy \ {h}) = Cardinality(Busy) - 1
  BY <1>2, BusyFinite, FS_RemoveElement
<1>4. clients' \in Int /\ clients' = Cardinality(Busy \ {h}) /\ clients' <= MaxClients
  BY <1>0, <1>1, <1>3, StreamAssumption
<1>5. SlotsCounted'
  BY <1>2, <1>4 DEF SlotsCounted
<1>6. phase' \in [Handlers -> Phases]
  BY <1>0, <1>1 DEF Phases
<1> QED
  BY <1>0, <1>1, <1>4, <1>5, <1>6 DEF SlotsOK

(* The accept loop counts the handler it starts.                           *)
LEMMA AcceptSlots ==
  ASSUME SlotsOK, NEW h \in Handlers, NEW next \in Phases \ {"free"}, Accept(h, next)
  PROVE  /\ phase' \in [Handlers -> Phases] /\ member' \in SUBSET Handlers
         /\ clients' \in Int /\ SlotsCounted'
<1>0. /\ phase \in [Handlers -> Phases] /\ member \in SUBSET Handlers
      /\ clients \in Int /\ clients = Cardinality(Busy) /\ clients <= MaxClients
  BY DEF SlotsOK, SlotsCounted
<1>1. /\ clients < MaxClients /\ phase[h] = "free" /\ clients' = clients + 1
      /\ phase' = [phase EXCEPT ![h] = next] /\ member' = member
  BY DEF Accept
<1>2. h \notin Busy /\ Busy' = Busy \cup {h}
  BY <1>0, <1>1 DEF Busy
<1>3. Cardinality(Busy \cup {h}) = Cardinality(Busy) + 1
  BY <1>2, BusyFinite, FS_AddElement
<1>4. clients' \in Int /\ clients' = Cardinality(Busy \cup {h}) /\ clients' <= MaxClients
  BY <1>0, <1>1, <1>3, StreamAssumption
<1>5. SlotsCounted'
  BY <1>2, <1>4 DEF SlotsCounted
<1> QED
  BY <1>0, <1>1, <1>4, <1>5

(* A handler goes on.                                                      *)
LEMMA PhaseSlots ==
  ASSUME SlotsOK, NEW h \in Handlers, phase[h] # "free", NEW next \in Phases \ {"free"},
         phase' = [phase EXCEPT ![h] = next], member' \in SUBSET Handlers,
         UNCHANGED <<clients, link, conn>>
  PROVE  SlotsOK'
<1>0. phase \in [Handlers -> Phases] /\ SlotsCounted
  BY DEF SlotsOK
<1>1. Busy' = Busy
  BY <1>0 DEF Busy
<1>2. SlotsCounted'
  BY <1>0, <1>1 DEF SlotsCounted
<1>3. phase' \in [Handlers -> Phases]
  BY <1>0
<1> QED
  BY <1>2, <1>3 DEF SlotsOK

LEMMA SameSlots ==
  ASSUME SlotsOK, UNCHANGED <<clients, phase>>, member' \in SUBSET Handlers,
         link' \in {"none", "open", "closed"}, conn' \in Handlers \cup {None}
  PROVE  SlotsOK'
<1>1. Busy' = Busy
  BY DEF Busy
<1>2. SlotsCounted'
  BY <1>1 DEF SlotsOK, SlotsCounted
<1> QED
  BY <1>2 DEF SlotsOK

LEMMA NextSlots == IInv /\ Next => SlotsOK'
<1> SUFFICES ASSUME IInv, Next PROVE SlotsOK'
  OBVIOUS
<1>0. /\ SlotsOK /\ member \in SUBSET Handlers
      /\ link \in {"none", "open", "closed"} /\ conn \in Handlers \cup {None}
  BY DEF IInv, SlotsOK
<1>1. CASE UNCHANGED <<server, link, conn>>
  BY <1>0, <1>1, SameSlots DEF server
<1>2. CASE PublishState \/ PublishLighting \/ Fetch \/ SendFetched \/ ApplyRemoteState
           \/ OpenWindow \/ Lock \/ ReadLine
  BY <1>1, <1>2 DEF PublishState, PublishLighting, Fetch, SendFetched, ApplyRemoteState,
     OpenWindow, Lock, ReadLine, connection
<1>3. CASE Fanout
  <2>1. UNCHANGED <<clients, phase, link, conn>> /\ member' \in SUBSET Handlers
    BY <1>0, <1>3 DEF Fanout, connection
  <2> QED BY <1>0, <2>1, SameSlots
<1>4. CASE OtherArrives
  <2>1. PICK h \in Handlers : Accept(h, "serving")
    BY <1>4 DEF OtherArrives
  <2>2. UNCHANGED <<link, conn>> /\ "serving" \in Phases \ {"free"}
    BY <1>4 DEF OtherArrives, connection, Phases
  <2>3. /\ phase' \in [Handlers -> Phases] /\ member' \in SUBSET Handlers
        /\ clients' \in Int /\ SlotsCounted'
    BY <1>0, <2>1, <2>2, AcceptSlots
  <2> QED BY <1>0, <2>2, <2>3 DEF SlotsOK
<1>5. CASE Connect
  <2>1. PICK h \in Handlers : Accept(h, "asked") /\ conn' = h
    BY <1>5 DEF Connect
  <2>2. link' = "open" /\ "asked" \in Phases \ {"free"}
    BY <1>5 DEF Connect, Phases
  <2>3. /\ phase' \in [Handlers -> Phases] /\ member' \in SUBSET Handlers
        /\ clients' \in Int /\ SlotsCounted'
    BY <1>0, <2>1, <2>2, AcceptSlots
  <2> QED BY <2>1, <2>2, <2>3 DEF SlotsOK
<1>6. ASSUME NEW h \in Handlers, Handler(h)
      PROVE  SlotsOK'
  <2>1. CASE Refuse(h) \/ PeerGone(h) \/ GiveUp(h) \/ Evicted(h) \/ OtherLeaves(h)
    <3>1. phase[h] # "free" /\ Ends(h)
      BY <2>1 DEF Refuse, PeerGone, GiveUp, Evicted, OtherLeaves
    <3> QED BY <1>0, <3>1, EndsSlots
  <2>2. CASE Register(h)
    <3>1. /\ phase[h] # "free" /\ phase' = [phase EXCEPT ![h] = "registered"]
          /\ member' \in SUBSET Handlers /\ UNCHANGED <<clients, link, conn>>
      BY <1>0, <2>2 DEF Register, connection
    <3>2. "registered" \in Phases \ {"free"}
      BY DEF Phases
    <3> QED BY <1>0, <3>1, <3>2, PhaseSlots
  <2>3. CASE Snapshot(h)
    <3>1. /\ phase[h] # "free" /\ phase' = [phase EXCEPT ![h] = "streaming"]
          /\ member' \in SUBSET Handlers /\ UNCHANGED <<clients, link, conn>>
      BY <1>0, <2>3 DEF Snapshot
    <3>2. "streaming" \in Phases \ {"free"}
      BY DEF Phases
    <3> QED BY <1>0, <3>1, <3>2, PhaseSlots
  <2>4. CASE Forward(h)
    <3>1. UNCHANGED <<clients, phase, member, link, conn>>
      BY <2>4 DEF Forward
    <3> QED BY <1>0, <3>1, SameSlots
  <2> QED BY <1>6, <2>1, <2>2, <2>3, <2>4 DEF Handler
<1>7. CASE ReadEnd
  <2>1. UNCHANGED <<clients, phase, member, conn>> /\ link' = "none"
    BY <1>7 DEF ReadEnd, server
  <2> QED BY <1>0, <2>1, SameSlots
<1>8. CASE CloseWindow
  <2>1. UNCHANGED <<clients, phase, member>> /\ link' = "none" /\ conn' = None
    BY <1>8 DEF CloseWindow, server
  <2> QED BY <1>0, <2>1, SameSlots
<1>9. CASE RestartDaemon
  <2>1. /\ clients' = 0 /\ phase' = [h \in Handlers |-> "free"] /\ member' = {}
        /\ link' \in {"none", "open", "closed"} /\ conn' = None
    BY <1>0, <1>9 DEF RestartDaemon
  <2>2. Busy' = {}
    BY <2>1 DEF Busy
  <2>3. Cardinality({}) = 0
    BY FS_EmptySet
  <2>4. SlotsCounted'
    BY <2>1, <2>2, <2>3, StreamAssumption DEF SlotsCounted
  <2> QED BY <2>1, <2>4 DEF SlotsOK, Phases
<1> QED
  BY <1>2, <1>3, <1>4, <1>5, <1>6, <1>7, <1>8, <1>9 DEF Next, Window

-----------------------------------------------------------------------------
(* What was published stays published.                                     *)
LEMMA SentGrows ==
  ASSUME RunOK, RunOK', instance' >= instance,
         \A i \in Instances : revs'[i] >= revs[i]
  PROVE  Sent \subseteq Sent' /\ SentLines \subseteq SentLines'
<1>1. ASSUME NEW s \in Sent PROVE s \in Sent'
  <2>1. /\ s \in States /\ s.instance \in Instances /\ s.revision \in 0..MaxRevision
        /\ s.instance <= instance /\ s.revision <= revs[s.instance]
    BY DEF Sent, States
  <2>2. /\ instance \in Instances /\ instance' \in Instances
        /\ revs \in [Instances -> 0..MaxRevision] /\ revs' \in [Instances -> 0..MaxRevision]
    BY DEF RunOK
  <2>3. revs[s.instance] \in 0..MaxRevision /\ revs'[s.instance] \in 0..MaxRevision
    BY <2>1, <2>2
  <2>4. Instances \subseteq Int /\ 0..MaxRevision \subseteq Int
    BY StreamAssumption DEF Instances
  <2>5. /\ instance \in Int /\ instance' \in Int /\ s.instance \in Int /\ s.revision \in Int
        /\ revs[s.instance] \in Int /\ revs'[s.instance] \in Int
    BY <2>1, <2>2, <2>3, <2>4
  <2>6. s.instance <= instance' /\ s.revision <= revs'[s.instance]
    BY <2>1, <2>5
  <2> QED BY <2>1, <2>6 DEF Sent
<1> QED
  BY <1>1 DEF SentLines

LEMMA NextGrows ==
  ASSUME IInv, Next
  PROVE  /\ instance' >= instance /\ \A i \in Instances : revs'[i] >= revs[i]
         /\ Sent \subseteq Sent' /\ SentLines \subseteq SentLines'
<1>0. instance \in Int /\ revs \in [Instances -> Int]
  BY StreamAssumption DEF IInv, RunOK, Instances
<1>1. instance' = instance \/ instance' = instance + 1
  BY DEF Next, PublishState, PublishLighting, Fanout, OtherArrives, Handler, Refuse,
       Register, Snapshot, PeerGone, Forward, GiveUp, Evicted, OtherLeaves, Connect,
       Window, ReadLine, ReadEnd, Fetch, SendFetched, ApplyRemoteState, OpenWindow,
       CloseWindow, RestartDaemon, Lock, daemon
<1>2. revs' = revs \/ revs' = [revs EXCEPT ![instance] = @ + 1]
  BY DEF Next, PublishState, PublishLighting, Fanout, OtherArrives, Handler, Refuse,
       Register, Snapshot, PeerGone, Forward, GiveUp, Evicted, OtherLeaves, Connect,
       Window, ReadLine, ReadEnd, Fetch, SendFetched, ApplyRemoteState, OpenWindow,
       CloseWindow, RestartDaemon, Lock, daemon
<1>3. instance' >= instance
  BY <1>0, <1>1
<1>4. \A i \in Instances : revs'[i] >= revs[i]
  BY <1>0, <1>2
<1>5. RunOK /\ RunOK'
  BY NextRun DEF IInv
<1> QED
  BY <1>3, <1>4, <1>5, SentGrows

(* The state now in force is one to send.                                  *)
LEMMA CurrentSent == RunOK => Current \in Sent
<1> SUFFICES ASSUME RunOK PROVE Current \in Sent
  OBVIOUS
<1>1. instance \in Instances /\ revs[instance] \in 0..MaxRevision
  BY DEF RunOK
<1>2. instance <= instance /\ revs[instance] <= revs[instance]
  BY <1>1, StreamAssumption DEF Instances
<1>3. Current \in States /\ Current.instance = instance /\ Current.revision = revs[instance]
  BY <1>1 DEF Current, States
<1> QED
  BY <1>2, <1>3 DEF Sent

(* A state is no LIGHTING line.                                            *)
LEMMA LightingNotSent == Lighting \notin Sent
<1>1. Lighting.instance = -1
  BY DEF Lighting
<1>2. -1 \notin Instances
  BY StreamAssumption DEF Instances
<1> QED
  BY <1>1, <1>2 DEF Sent, States

LEMMA NextLines == IInv /\ Next => LinesOK'
<1> SUFFICES ASSUME IInv, Next PROVE LinesOK'
  OBVIOUS
<1>0. /\ channel \in Seq(SentLines) /\ Len(channel) <= ChannelSize
      /\ inbox \in [Handlers -> Seq(SentLines)] /\ wire \in Seq(SentLines)
      /\ fetched \in Sent \cup {None} /\ events \in Seq(Sent)
      /\ shown \in Sent \cup {Nothing} /\ ChannelSize \in Nat
  BY StreamAssumption DEF IInv, LinesOK
<1>1. Sent \subseteq Sent' /\ SentLines \subseteq SentLines'
  BY NextGrows
<1>2. Seq(Sent) \subseteq Seq(Sent') /\ Seq(SentLines) \subseteq Seq(SentLines')
  BY <1>1, MoreAllowed
<1>3. /\ \A q \in Seq(SentLines) : q # <<>> => Head(q) \in SentLines /\ Tail(q) \in Seq(SentLines)
      /\ \A q \in Seq(Sent) : q # <<>> => Head(q) \in Sent /\ Tail(q) \in Seq(Sent)
      /\ \A q \in Seq(SentLines), l \in SentLines : Append(q, l) \in Seq(SentLines)
      /\ \A q \in Seq(Sent), s \in Sent : Append(q, s) \in Seq(Sent)
      /\ \A q \in Seq(SentLines') : \A l \in SentLines' : Append(q, l) \in Seq(SentLines')
  OBVIOUS
<1>4. RunOK' /\ Current \in Sent /\ Current' \in Sent'
  <2>1. RunOK /\ RunOK'
    BY NextRun DEF IInv
  <2>2. Current \in Sent
    BY <2>1, CurrentSent
  <2>3. (RunOK => Current \in Sent)'
    BY CurrentSent, PTL
  <2> QED BY <2>1, <2>2, <2>3
<1>5. channel' \in Seq(SentLines') /\ Len(channel') <= ChannelSize
  <2>1. CASE UNCHANGED channel
    BY <1>0, <1>2, <2>1
  <2>2. ASSUME NEW l \in SentLines', Offer(l)
        PROVE  channel' \in Seq(SentLines') /\ Len(channel') <= ChannelSize
    <3>1. channel \in Seq(SentLines')
      BY <1>0, <1>2
    <3>2. CASE Len(channel) < ChannelSize
      <4>1. channel' = Append(channel, l)
        BY <2>2, <3>2 DEF Offer
      <4>2. channel' \in Seq(SentLines')
        BY <1>3, <3>1, <4>1
      <4>3. Len(channel') = Len(channel) + 1 /\ Len(channel) \in Nat
        BY <3>1, <4>1
      <4> QED BY <1>0, <3>2, <4>2, <4>3
    <3>3. CASE ~(Len(channel) < ChannelSize)
      BY <1>0, <2>2, <3>1, <3>3 DEF Offer
    <3> QED BY <3>2, <3>3
  <2>3. CASE PublishState
    <3>1. /\ revs' = [revs EXCEPT ![instance] = @ + 1] /\ instance' = instance
          /\ Offer([instance |-> instance, revision |-> revs[instance] + 1])
      BY <2>3 DEF PublishState
    <3>2. revs'[instance'] = revs[instance] + 1
      BY <3>1 DEF IInv, RunOK
    <3>3. Current' = [instance |-> instance, revision |-> revs[instance] + 1]
      BY <3>1, <3>2 DEF Current
    <3>4. [instance |-> instance, revision |-> revs[instance] + 1] \in SentLines'
      BY <1>4, <3>3 DEF SentLines
    <3> QED BY <2>2, <3>1, <3>4
  <2>4. CASE PublishLighting
    <3>1. Lighting \in SentLines'
      BY DEF SentLines
    <3> QED BY <2>2, <2>4, <3>1 DEF PublishLighting
  <2>5. CASE Fanout
    <3>1. channel # <<>> /\ channel' = Tail(channel)
      BY <2>5 DEF Fanout
    <3>2. channel' \in Seq(SentLines)
      BY <1>0, <1>3, <3>1
    <3>3. Len(channel') = Len(channel) - 1 /\ Len(channel) \in Nat
      BY <1>0, <3>1
    <3> QED BY <1>0, <1>2, <3>2, <3>3
  <2>6. CASE RestartDaemon
    BY <1>0, <2>6 DEF RestartDaemon
  <2> QED
    BY <2>1, <2>3, <2>4, <2>5, <2>6
    DEF Next, OtherArrives, Handler, Refuse, Register, Snapshot, PeerGone, Forward, GiveUp,
        Evicted, OtherLeaves, Connect, Window, ReadLine, ReadEnd, Fetch, SendFetched,
        ApplyRemoteState, OpenWindow, CloseWindow, Lock, daemon
<1>6. inbox' \in [Handlers -> Seq(SentLines')]
  <2>1. CASE inbox' \in [Handlers -> Seq(SentLines)]
    BY <1>2, <2>1
  <2>2. CASE Fanout
    <3>1. channel # <<>> /\ Head(channel) \in SentLines
      BY <1>0, <1>3, <2>2 DEF Fanout
    <3>2. PICK roomy \in SUBSET Handlers :
            inbox' = [h \in Handlers |->
                        IF h \in roomy THEN Append(inbox[h], Head(channel)) ELSE inbox[h]]
      <4>1. {h \in member : Len(inbox[h]) < MailboxSize} \in SUBSET Handlers
        BY DEF IInv, SlotsOK
      <4> QED BY <2>2, <4>1 DEF Fanout
    <3>3. \A h \in Handlers : /\ inbox[h] \in Seq(SentLines)
                              /\ Append(inbox[h], Head(channel)) \in Seq(SentLines)
      BY <1>0, <1>3, <3>1
    <3> QED BY <2>1, <3>2, <3>3
  <2>3. CASE UNCHANGED inbox
    BY <1>0, <2>1, <2>3
  <2>4. ASSUME NEW h \in Handlers, Ends(h) PROVE inbox' \in [Handlers -> Seq(SentLines')]
    BY <1>0, <2>1, <2>4 DEF Ends
  <2>5. ASSUME NEW h \in Handlers, Handler(h) PROVE inbox' \in [Handlers -> Seq(SentLines')]
    <3>1. CASE Forward(h)
      <4>1. inbox[h] # <<>> /\ inbox' = [inbox EXCEPT ![h] = Tail(@)]
        BY <3>1 DEF Forward
      <4>2. Tail(inbox[h]) \in Seq(SentLines)
        BY <1>0, <1>3, <4>1
      <4> QED BY <1>0, <2>1, <4>1, <4>2
    <3> QED
      BY <2>3, <2>4, <2>5, <3>1
      DEF Handler, Refuse, Register, Snapshot, PeerGone, GiveUp, Evicted, OtherLeaves
  <2>6. CASE RestartDaemon
    <3>1. inbox' = [h \in Handlers |-> <<>>]
      BY <2>6 DEF RestartDaemon
    <3> QED BY <2>1, <3>1
  <2> QED
    BY <2>2, <2>3, <2>5, <2>6
    DEF Next, PublishState, PublishLighting, OtherArrives, Accept, Connect, Window, ReadLine,
        ReadEnd, Fetch, SendFetched, ApplyRemoteState, OpenWindow, CloseWindow, Lock, server
<1>7. wire' \in Seq(SentLines')
  <2>1. CASE wire' \in Seq(SentLines)
    BY <1>2, <2>1
  <2>2. CASE UNCHANGED wire
    BY <1>0, <2>1, <2>2
  <2>3. ASSUME NEW h \in Handlers, Handler(h) PROVE wire' \in Seq(SentLines')
    <3>1. CASE Snapshot(h)
      <4>1. wire' = Append(wire, Current) /\ Current \in SentLines
        BY <1>4, <3>1 DEF Snapshot, SentLines
      <4> QED BY <1>0, <1>3, <2>1, <4>1
    <3>2. CASE Forward(h)
      <4>1. inbox[h] # <<>> /\ wire' = Append(wire, Head(inbox[h]))
        BY <3>2 DEF Forward
      <4>2. Head(inbox[h]) \in SentLines
        BY <1>0, <1>3, <4>1
      <4> QED BY <1>0, <1>3, <2>1, <4>1, <4>2
    <3> QED
      BY <2>2, <2>3, <3>1, <3>2
      DEF Handler, Refuse, Register, PeerGone, GiveUp, Evicted, OtherLeaves, connection
  <2>4. CASE ReadLine
    <3>1. wire # <<>> /\ wire' = Tail(wire)
      BY <2>4 DEF ReadLine
    <3> QED BY <1>0, <1>3, <2>1, <3>1
  <2>5. CASE CloseWindow
    BY <2>5 DEF CloseWindow
  <2> QED
    BY <2>2, <2>3, <2>4, <2>5
    DEF Next, PublishState, PublishLighting, Fanout, OtherArrives, Connect, Window, ReadEnd,
        Fetch, SendFetched, ApplyRemoteState, OpenWindow, RestartDaemon, Lock, connection
<1>8. fetched' \in Sent' \cup {None}
  <2>1. fetched' \in {fetched, None, Current}
    BY DEF Next, PublishState, PublishLighting, Fanout, OtherArrives, Handler, Refuse,
       Register, Snapshot, PeerGone, Forward, GiveUp, Evicted, OtherLeaves, Connect,
       Window, ReadLine, ReadEnd, Fetch, SendFetched, ApplyRemoteState, OpenWindow,
       CloseWindow, RestartDaemon, Lock, window
  <2> QED BY <1>0, <1>1, <1>4, <2>1
<1>9. events' \in Seq(Sent')
  <2>1. CASE events' \in Seq(Sent)
    BY <1>2, <2>1
  <2>2. CASE UNCHANGED events
    BY <1>0, <2>1, <2>2
  <2>3. CASE ReadLine
    <3>1. wire # <<>> /\ Head(wire) \in SentLines
      BY <1>0, <1>3, <2>3 DEF ReadLine
    <3>2. CASE Head(wire) = Lighting
      BY <2>2, <2>3, <3>2 DEF ReadLine
    <3>3. CASE Head(wire) # Lighting
      <4>1. Head(wire) \in Sent /\ events' = Append(events, Head(wire))
        BY <2>3, <3>1, <3>3 DEF ReadLine, SentLines
      <4> QED BY <1>0, <1>3, <2>1, <4>1
    <3> QED BY <3>2, <3>3
  <2>4. CASE SendFetched
    <3>1. fetched \in Sent /\ events' = Append(events, fetched)
      BY <1>0, <2>4 DEF SendFetched
    <3> QED BY <1>0, <1>3, <2>1, <3>1
  <2>5. CASE ApplyRemoteState
    <3>1. events # <<>> /\ events' = Tail(events)
      BY <2>5 DEF ApplyRemoteState
    <3> QED BY <1>0, <1>3, <2>1, <3>1
  <2>6. CASE CloseWindow
    BY <2>6 DEF CloseWindow
  <2> QED
    BY <2>2, <2>3, <2>4, <2>5, <2>6
    DEF Next, PublishState, PublishLighting, Fanout, OtherArrives, Handler, Refuse,
       Register, Snapshot, PeerGone, Forward, GiveUp, Evicted, OtherLeaves, Connect,
       Window, ReadEnd, Fetch, OpenWindow, RestartDaemon, Lock, window
<1>10. shown' \in Sent' \cup {Nothing}
  <2>1. CASE ApplyRemoteState
    <3>1. events # <<>> /\ shown' \in {shown, Head(events)}
      BY <2>1 DEF ApplyRemoteState
    <3>2. Head(events) \in Sent
      BY <1>0, <1>3, <3>1
    <3> QED BY <1>0, <1>1, <3>1, <3>2
  <2>2. CASE CloseWindow
    BY <2>2 DEF CloseWindow
  <2>3. CASE UNCHANGED shown
    BY <1>0, <1>1, <2>3
  <2> QED
    BY <2>1, <2>2, <2>3
    DEF Next, PublishState, PublishLighting, Fanout, OtherArrives, Handler, Refuse,
       Register, Snapshot, PeerGone, Forward, GiveUp, Evicted, OtherLeaves, Connect,
       Window, ReadLine, ReadEnd, Fetch, SendFetched, OpenWindow, RestartDaemon, Lock, window
<1> QED
  BY <1>5, <1>6, <1>7, <1>8, <1>9, <1>10 DEF LinesOK

LEMMA NextIInv == IInv /\ [Next]_vars => IInv'
<1>1. IInv /\ Next => IInv'
  BY NextRun, NextSlots, NextLines DEF IInv
<1>2. IInv /\ UNCHANGED vars => IInv'
  <2> SUFFICES ASSUME IInv, UNCHANGED vars PROVE IInv'
    OBVIOUS
  <2>1. Busy' = Busy /\ Sent' = Sent /\ SentLines' = SentLines
    BY DEF vars, daemon, server, Busy, Sent, SentLines
  <2>2. RunOK'
    BY DEF IInv, RunOK, vars, daemon, window
  <2>3. SlotsOK'
    BY <2>1 DEF IInv, SlotsOK, SlotsCounted, vars, server, connection
  <2>4. LinesOK'
    BY <2>1 DEF IInv, LinesOK, vars, daemon, server, connection, window
  <2> QED BY <2>2, <2>3, <2>4 DEF IInv
<1> QED
  BY <1>1, <1>2

(* The invariant of the stream: every line on the way was published, and   *)
(* the slots are counted.                                                  *)
THEOREM StreamInvariant == Spec => []IInv
  BY InitIInv, NextIInv, PTL DEF Spec

(* The variables keep their types.                                         *)
THEOREM StreamTypes == Spec => []TypeOK
<1>1. IInv => TypeOK
  <2> SUFFICES ASSUME IInv PROVE TypeOK
    OBVIOUS
  <2>1. Sent \subseteq States /\ SentLines \subseteq Lines
    BY DEF Sent, SentLines, Lines
  <2>2. Seq(Sent) \subseteq Seq(States) /\ Seq(SentLines) \subseteq Seq(Lines)
    BY <2>1, MoreAllowed
  <2> QED BY <2>1, <2>2 DEF IInv, RunOK, SlotsOK, LinesOK, TypeOK
<1> QED
  BY <1>1, StreamInvariant, PTL

(* No slot of the accept loop is ever lost, or given twice: however the    *)
(* connections end, `clients' is the number of handler threads.            *)
THEOREM SlotsAreCounted == Spec => []SlotsCounted
<1>1. IInv => SlotsCounted
  BY DEF IInv, SlotsOK
<1> QED
  BY <1>1, StreamInvariant, PTL

-----------------------------------------------------------------------------
(* A state on the way was published in the words of StateFeed.             *)
LEMMA SentPublished ==
  ASSUME RunOK, NEW s \in Sent
  PROVE  s.instance \in 1..instance /\ s.revision \in 0..revs[s.instance]
<1>1. /\ s.instance \in 1..MaxInstance /\ s.revision \in 0..MaxRevision
      /\ s.instance <= instance /\ s.revision <= revs[s.instance]
  BY DEF Sent, States, Instances
<1>2. revs[s.instance] \in Int /\ instance \in Int
  BY <1>1, StreamAssumption DEF RunOK, Instances
<1> QED
  BY <1>1, <1>2, StreamAssumption

LEMMA StepRefines == IInv /\ [Next]_vars => [Feed!FeedNext]_(Feed!feedVars)
<1> SUFFICES ASSUME IInv, [Next]_vars PROVE [Feed!FeedNext]_(Feed!feedVars)
  OBVIOUS
<1>1. CASE UNCHANGED <<instance, revs, shown>>
  BY <1>1 DEF Feed!feedVars
<1>2. CASE PublishState
  BY <1>2 DEF PublishState, window, Feed!FeedNext, Feed!Publish
<1>3. CASE RestartDaemon
  BY <1>3 DEF RestartDaemon, window, Feed!FeedNext, Feed!Restart
<1>4. CASE CloseWindow
  BY <1>4 DEF CloseWindow, daemon, Nothing, Feed!FeedNext, Feed!NewWindow, Feed!Nothing
<1>5. CASE ApplyRemoteState
  <2>1. /\ events # <<>> /\ UNCHANGED <<instance, revs>>
        /\ shown' = IF Acceptable(Head(events)) THEN Head(events) ELSE shown
    BY <1>5 DEF ApplyRemoteState, daemon
  <2>2. CASE shown' = shown
    BY <1>1, <2>1, <2>2
  <2>3. CASE Acceptable(Head(events)) /\ shown' = Head(events)
    <3>1. Head(events) \in Sent
      BY <2>1 DEF IInv, LinesOK
    <3>2. /\ Head(events).instance \in 1..instance
          /\ Head(events).revision \in 0..revs[Head(events).instance]
      BY <3>1, SentPublished DEF IInv
    <3>3. Feed!Published(shown')
      BY <2>3, <3>2 DEF Feed!Published
    <3>4. shown'.instance = shown.instance => shown'.revision >= shown.revision
      BY <2>3 DEF Acceptable
    <3> QED BY <2>1, <3>3, <3>4 DEF Feed!FeedNext, Feed!Show
  <2> QED BY <2>1, <2>2, <2>3
<1> QED
  BY <1>1, <1>2, <1>3, <1>4, <1>5
  DEF Next, PublishLighting, Fanout, OtherArrives, Handler, Refuse,
       Register, Snapshot, PeerGone, Forward, GiveUp, Evicted, OtherLeaves, Connect,
       Window, ReadLine, ReadEnd, Fetch, SendFetched, OpenWindow, Lock, vars, daemon, window

(* The stream implements StateFeed for any number of clients and any       *)
(* bounds: the window shows published states only and never goes back      *)
(* within a run of the daemon.                                             *)
THEOREM ImplementsFeed == Spec => FeedRefined
<1>1. Init => Feed!FeedInit
  BY DEF Init, Feed!FeedInit, Feed!Instances, Instances, Feed!Nothing, Nothing
<1> QED
  BY <1>1, StepRefines, StreamInvariant, PTL DEF Spec, FeedRefined, Feed!FeedSpec

-----------------------------------------------------------------------------
(* The newest state is among these lines.                                  *)
Has(q) == \E i \in DOMAIN q : UpToDate(q[i])

(* Wherever it is on its way to the window of h.                           *)
OnItsWay(h) ==
  Has(channel) \/ Has(inbox[h]) \/ Has(wire) \/ Has(events) \/ UpToDate(shown) \/ late

LEMMA AppendKeeps ==
  ASSUME NEW S, NEW q \in Seq(S), NEW e
  PROVE  /\ \A i \in DOMAIN q : \E j \in DOMAIN Append(q, e) : Append(q, e)[j] = q[i]
         /\ \E j \in DOMAIN Append(q, e) : Append(q, e)[j] = e
<1>1. DOMAIN Append(q, e) = 1..(Len(q) + 1) /\ DOMAIN q = 1..Len(q) /\ Len(q) \in Nat
  OBVIOUS
<1>2. \A i \in DOMAIN q : i \in DOMAIN Append(q, e) /\ Append(q, e)[i] = q[i]
  BY <1>1
<1>3. Len(q) + 1 \in DOMAIN Append(q, e) /\ Append(q, e)[Len(q) + 1] = e
  BY <1>1
<1> QED
  BY <1>2, <1>3

LEMMA AppendHas ==
  ASSUME NEW S, NEW q \in Seq(S), NEW e, Has(q)
  PROVE  Has(Append(q, e))
<1>1. PICK i \in DOMAIN q : UpToDate(q[i])
  BY DEF Has
<1>2. \E j \in DOMAIN Append(q, e) : Append(q, e)[j] = q[i]
  BY AppendKeeps
<1> QED
  BY <1>1, <1>2 DEF Has

LEMMA TailKeeps ==
  ASSUME NEW S, NEW q \in Seq(S), q # <<>>
  PROVE  \A i \in DOMAIN q : q[i] = Head(q) \/ \E j \in DOMAIN Tail(q) : Tail(q)[j] = q[i]
<1> SUFFICES ASSUME NEW i \in DOMAIN q, q[i] # Head(q)
             PROVE  \E j \in DOMAIN Tail(q) : Tail(q)[j] = q[i]
  OBVIOUS
<1>1. Len(q) \in Nat /\ i \in 1..Len(q) /\ Head(q) = q[1]
  OBVIOUS
<1>2. i # 1 /\ DOMAIN Tail(q) = 1..(Len(q) - 1)
  BY <1>1
<1>3. i - 1 \in DOMAIN Tail(q)
  BY <1>1, <1>2
<1>4. Tail(q)[i - 1] = q[i]
  BY <1>1, <1>2, <1>3
<1> QED
  BY <1>3, <1>4

(* A line is handed from one place of the way to the next.                 *)
LEMMA HandedOn ==
  ASSUME NEW S, NEW T, NEW q \in Seq(S), NEW r \in Seq(T), q # <<>>, Head(q) \in T,
         Has(q) \/ Has(r)
  PROVE  Has(Tail(q)) \/ Has(Append(r, Head(q)))
<1> DEFINE e == Head(q)
<1>0. e \in T
  OBVIOUS
<1>1. \A i \in DOMAIN q : q[i] = e \/ \E j \in DOMAIN Tail(q) : Tail(q)[j] = q[i]
  BY TailKeeps
<1> HIDE DEF e
<1>2. /\ \A i \in DOMAIN r : \E j \in DOMAIN Append(r, e) : Append(r, e)[j] = r[i]
      /\ \E j \in DOMAIN Append(r, e) : Append(r, e)[j] = e
  BY <1>0, AppendKeeps
<1>3. CASE Has(q)
  BY <1>1, <1>2, <1>3 DEF Has, e
<1>4. CASE Has(r)
  BY <1>2, <1>4 DEF Has, e
<1> QED
  BY <1>3, <1>4

(* A LIGHTING line is never the newest state.                              *)
LEMMA LightingIsNone == RunOK => ~UpToDate(Lighting)
<1>1. Lighting.instance = -1
  BY DEF Lighting
<1>2. -1 \notin Instances
  BY StreamAssumption DEF Instances
<1> QED
  BY <1>1, <1>2 DEF RunOK, UpToDate

(* A state applied by the window, whether it is taken or passed over.      *)
LEMMA AppliedKeeps ==
  ASSUME RunOK, NEW s \in Sent, shown \in Sent \cup {Nothing},
         UpToDate(s) \/ UpToDate(shown) \/ late,
         shown' = IF Acceptable(s) THEN s ELSE shown,
         late' = (shown' # Current /\ (late \/ s.instance < shown.instance))
  PROVE  UpToDate(shown') \/ late'
<1>1. /\ s.instance \in Instances /\ s.revision \in Int /\ s.instance <= instance
      /\ instance \in Int /\ revs[instance] \in Int /\ Instances \subseteq Int
  BY StreamAssumption DEF RunOK, Sent, States, Instances
<1>2. shown.instance \in Int /\ shown.revision \in Int
  <2>1. CASE shown \in Sent
    BY <2>1, StreamAssumption DEF Sent, States, Instances
  <2>2. CASE shown = Nothing
    BY <2>2 DEF Nothing
  <2> QED BY <2>1, <2>2
<1>3. CASE shown' = Current
  BY <1>1, <1>3 DEF UpToDate, Current
<1>4. CASE shown' # Current /\ late
  BY <1>4
<1>5. CASE shown' # Current /\ UpToDate(s)
  <2>1. CASE Acceptable(s)
    BY <1>5, <2>1
  <2>2. CASE ~Acceptable(s)
    BY <1>1, <1>2, <1>5, <2>2 DEF Acceptable, UpToDate
  <2> QED BY <2>1, <2>2
<1>6. CASE shown' # Current /\ UpToDate(shown)
  <2>1. CASE shown' = shown
    BY <1>6, <2>1
  <2>2. CASE Acceptable(s) /\ shown' = s /\ s.instance = shown.instance
    BY <1>1, <1>2, <1>6, <2>2 DEF Acceptable, UpToDate
  <2>3. CASE Acceptable(s) /\ shown' = s /\ s.instance # shown.instance
    <3>1. shown.instance = instance
      BY <1>6 DEF UpToDate
    <3>2. s.instance < shown.instance
      <4>1. s.instance \in Int /\ s.instance <= instance /\ s.instance # instance
        BY <1>1, <2>3, <3>1
      <4> QED BY <1>1, <3>1, <4>1
    <3> QED BY <1>6, <3>2
  <2> QED BY <2>1, <2>2, <2>3
<1> QED
  BY <1>3, <1>4, <1>5, <1>6

Watched(h) == h \in member /\ phase[h] = "streaming" /\ conn = h /\ ~lossy

LEMMA NoGapIs ==
  ASSUME member \in SUBSET Handlers
  PROVE  NoGap <=> \A h \in Handlers : Watched(h) => OnItsWay(h)
  BY DEF NoGap, Watched, OnItsWay, Has

(* Nothing was taken from the way, and nothing newer published.            *)
LEMMA SameWay ==
  ASSUME NEW h \in Handlers, OnItsWay(h), UNCHANGED <<instance, revs, channel, wire, events>>,
         inbox'[h] = inbox[h], shown' = shown, late' = late
  PROVE  OnItsWay(h)'
  BY DEF OnItsWay, Has, UpToDate

LEMMA NextGap == IInv /\ NoGap /\ Next => NoGap'
<1> SUFFICES ASSUME IInv, NoGap, Next, NEW h \in Handlers, Watched(h)' PROVE OnItsWay(h)'
  <2>1. IInv /\ Next => member' \in SUBSET Handlers
    BY NextSlots DEF SlotsOK
  <2> QED BY <2>1 DEF NoGap, Watched, OnItsWay, Has
<1>0. /\ channel \in Seq(SentLines) /\ inbox \in [Handlers -> Seq(SentLines)]
      /\ wire \in Seq(SentLines) /\ events \in Seq(Sent) /\ shown \in Sent \cup {Nothing}
      /\ phase \in [Handlers -> Phases] /\ member \in SUBSET Handlers /\ RunOK
      /\ h \in member' /\ phase'[h] = "streaming" /\ conn' = h /\ ~lossy' /\ h # None
  BY StreamAssumption DEF IInv, LinesOK, SlotsOK, Watched
<1>1. Watched(h) => OnItsWay(h)
  BY <1>0, NoGapIs
<1>2. ASSUME UNCHANGED <<instance, revs, channel, wire, events, shown, late, lossy>>,
             inbox'[h] = inbox[h], h \in member, phase[h] = "streaming", conn = h
      PROVE  OnItsWay(h)'
  BY <1>0, <1>1, <1>2, SameWay DEF Watched
<1>3. CASE PublishState
  <2>1. /\ revs' = [revs EXCEPT ![instance] = @ + 1] /\ instance' = instance
        /\ Offer([instance |-> instance, revision |-> revs[instance] + 1])
        /\ Len(channel) # ChannelSize
    BY <1>0, <1>3 DEF PublishState
  <2>2. Len(channel) < ChannelSize
    BY <1>0, <2>1, StreamAssumption DEF IInv, LinesOK
  <2> DEFINE l == [instance |-> instance, revision |-> revs[instance] + 1]
  <2>3. channel' = Append(channel, l)
    BY <2>1, <2>2 DEF Offer
  <2>4. revs'[instance'] = revs[instance] + 1 /\ revs[instance] \in Int
    BY <1>0, <2>1 DEF RunOK
  <2>5. l.instance = instance' /\ l.revision >= revs'[instance']
    BY <2>1, <2>4
  <2> HIDE DEF l
  <2>6. \E j \in DOMAIN channel' : channel'[j] = l
    <3>1. channel \in Seq(SentLines)
      BY <1>0
    <3>2. \E j \in DOMAIN Append(channel, l) : Append(channel, l)[j] = l
      BY <3>1, AppendKeeps
    <3> QED BY <2>3, <3>2
  <2>7. Has(channel)'
    BY <2>5, <2>6 DEF Has, UpToDate
  <2> QED BY <2>7 DEF OnItsWay
<1>4. CASE PublishLighting
  <2>1. /\ channel' = Append(channel, Lighting) /\ Lighting \in SentLines
        /\ UNCHANGED <<instance, revs, wire, events, shown, late, lossy, inbox, member, phase, conn>>
    BY <1>4 DEF PublishLighting, Offer, server, connection, window, SentLines
  <2>2. OnItsWay(h)
    BY <1>0, <1>1, <2>1 DEF Watched
  <2>3. Has(channel) => Has(Append(channel, Lighting))
    BY <1>0, AppendHas
  <2>4. /\ Has(channel) => Has(channel)'
        /\ (Has(inbox[h]) => Has(inbox[h])') /\ (Has(wire) => Has(wire)')
        /\ (Has(events) => Has(events)') /\ (UpToDate(shown) => UpToDate(shown)')
    BY <2>1, <2>3 DEF Has, UpToDate
  <2> QED BY <2>1, <2>2, <2>4 DEF OnItsWay
<1>5. CASE Fanout
  <2>1. /\ channel # <<>> /\ channel' = Tail(channel) /\ h \in member
        /\ inbox'[h] = Append(inbox[h], Head(channel))
        /\ UNCHANGED <<instance, revs, wire, events, shown, late, lossy, phase, conn>>
    BY <1>0, <1>5 DEF Fanout, connection, window
  <2>2. OnItsWay(h)
    BY <1>0, <1>1, <2>1 DEF Watched
  <2>3. Head(channel) \in SentLines /\ inbox[h] \in Seq(SentLines)
    BY <1>0, <2>1
  <2>4. Has(channel) \/ Has(inbox[h]) => Has(Tail(channel)) \/ Has(Append(inbox[h], Head(channel)))
    BY <1>0, <2>1, <2>3, HandedOn
  <2>5. /\ Has(Tail(channel)) => Has(channel)'
        /\ Has(Append(inbox[h], Head(channel))) => Has(inbox[h])'
        /\ (Has(wire) => Has(wire)') /\ (Has(events) => Has(events)')
        /\ (UpToDate(shown) => UpToDate(shown)')
    BY <2>1 DEF Has, UpToDate
  <2> QED BY <2>1, <2>2, <2>4, <2>5 DEF OnItsWay
<1>6. ASSUME NEW g \in Handlers, Ends(g),
             UNCHANGED <<instance, revs, channel, wire, events, shown, late, lossy>>
      PROVE  OnItsWay(h)'
  <2>1. h # g /\ h \in member
    BY <1>0, <1>6 DEF Ends
  <2>2. phase[h] = "streaming" /\ inbox'[h] = inbox[h] /\ conn = h
    BY <1>0, <1>6, <2>1 DEF Ends
  <2> QED BY <1>2, <1>6, <2>1, <2>2
<1>7. ASSUME NEW g \in Handlers, Handler(g)
      PROVE  OnItsWay(h)'
  <2>1. CASE Refuse(g) \/ PeerGone(g) \/ GiveUp(g) \/ Evicted(g) \/ OtherLeaves(g)
    <3>1. Ends(g) /\ UNCHANGED <<instance, revs, channel, wire, events, shown, late, lossy>>
      BY <2>1 DEF Refuse, PeerGone, GiveUp, Evicted, OtherLeaves, daemon, window
    <3> QED BY <1>6, <3>1
  <2>2. CASE Register(g)
    <3>1. /\ UNCHANGED <<instance, revs, channel, wire, events, shown, late, lossy, inbox, conn>>
          /\ phase' = [phase EXCEPT ![g] = "registered"] /\ member' = member \cup {g}
      BY <2>2 DEF Register, daemon, connection, window
    <3>2. h # g /\ h \in member /\ phase[h] = "streaming"
      BY <1>0, <3>1
    <3> QED BY <1>0, <1>2, <3>1, <3>2
  <2>3. CASE Snapshot(g)
    <3>1. /\ wire' = Append(wire, Current) /\ UNCHANGED <<instance, revs>> /\ Current \in Sent
      BY <1>0, <2>3, CurrentSent DEF Snapshot, daemon
    <3>2. \E j \in DOMAIN wire' : wire'[j] = Current
      <4>1. wire \in Seq(SentLines)
        BY <1>0
      <4>2. \E j \in DOMAIN Append(wire, Current) : Append(wire, Current)[j] = Current
        BY <4>1, AppendKeeps
      <4> QED BY <3>1, <4>2
    <3>3. Current.instance = instance' /\ Current.revision = revs'[instance']
      BY <3>1 DEF Current
    <3>4. revs'[instance'] \in Int
      BY <1>0, <3>1 DEF RunOK
    <3>5. Has(wire)'
      BY <3>2, <3>3, <3>4 DEF Has, UpToDate
    <3> QED BY <3>5 DEF OnItsWay
  <2>4. CASE Forward(g)
    <3>1. /\ UNCHANGED <<instance, revs, channel, events, shown, late, lossy, phase, member, conn>>
          /\ g = h /\ inbox[h] # <<>> /\ inbox'[h] = Tail(inbox[h])
          /\ wire' = Append(wire, Head(inbox[h]))
      BY <1>0, <2>4 DEF Forward, daemon, window
    <3>2. OnItsWay(h)
      BY <1>0, <1>1, <3>1 DEF Watched
    <3>3. inbox[h] \in Seq(SentLines) /\ Head(inbox[h]) \in SentLines
      BY <1>0, <3>1
    <3>4. Has(inbox[h]) \/ Has(wire) => Has(Tail(inbox[h])) \/ Has(Append(wire, Head(inbox[h])))
      BY <1>0, <3>1, <3>3, HandedOn
    <3>5. /\ Has(Tail(inbox[h])) => Has(inbox[h])'
          /\ Has(Append(wire, Head(inbox[h]))) => Has(wire)'
          /\ (Has(channel) => Has(channel)') /\ (Has(events) => Has(events)')
          /\ (UpToDate(shown) => UpToDate(shown)')
      BY <3>1 DEF Has, UpToDate
    <3> QED BY <3>1, <3>2, <3>4, <3>5 DEF OnItsWay
  <2> QED BY <1>7, <2>1, <2>2, <2>3, <2>4 DEF Handler
<1>8. CASE OtherArrives \/ Connect
  <2>1. PICK g \in Handlers, next \in {"serving", "asked"} : Accept(g, next) /\ (Connect => conn' = g)
    BY <1>8 DEF OtherArrives, Connect
  <2>2. h # g /\ h \in member /\ phase[h] = "streaming" /\ inbox' = inbox
    BY <1>0, <2>1 DEF Accept
  <2>3. /\ UNCHANGED <<instance, revs, channel, wire, events, shown, late, lossy>>
        /\ OtherArrives => conn' = conn
    BY <1>8 DEF OtherArrives, Connect, daemon, connection, window
  <2> QED BY <1>0, <1>2, <1>8, <2>1, <2>2, <2>3
<1>9. CASE ReadLine
  <2>1. /\ wire # <<>> /\ wire' = Tail(wire)
        /\ events' = IF Head(wire) = Lighting THEN events ELSE Append(events, Head(wire))
        /\ UNCHANGED <<instance, revs, channel, inbox, shown, late, lossy, phase, member, conn>>
    BY <1>9 DEF ReadLine, daemon, server
  <2>2. OnItsWay(h)
    BY <1>0, <1>1, <2>1 DEF Watched
  <2>3. Has(wire) \/ Has(events) => Has(wire)' \/ Has(events)'
    <3>1. CASE Head(wire) = Lighting
      <4>1. Has(wire) => Has(Tail(wire))
        BY <1>0, <2>1, <3>1, TailKeeps, LightingIsNone DEF Has
      <4> QED BY <2>1, <3>1, <4>1 DEF Has, UpToDate
    <3>2. CASE Head(wire) # Lighting
      <4>1. Head(wire) \in Sent
        BY <1>0, <2>1, <3>2 DEF SentLines
      <4>2. Has(wire) \/ Has(events) => Has(Tail(wire)) \/ Has(Append(events, Head(wire)))
        BY <1>0, <2>1, <4>1, HandedOn
      <4> QED BY <2>1, <3>2, <4>2 DEF Has, UpToDate
    <3> QED BY <3>1, <3>2
  <2>4. /\ (Has(channel) => Has(channel)') /\ (Has(inbox[h]) => Has(inbox[h])')
        /\ (UpToDate(shown) => UpToDate(shown)')
    BY <2>1 DEF Has, UpToDate
  <2> QED BY <2>1, <2>2, <2>3, <2>4 DEF OnItsWay
<1>10. CASE SendFetched
  <2>1. /\ events' = Append(events, fetched) /\ fetched \in Sent
        /\ UNCHANGED <<instance, revs, channel, wire, inbox, shown, late, lossy, phase, member, conn>>
    BY <1>10 DEF SendFetched, daemon, server, connection, IInv, LinesOK
  <2>2. OnItsWay(h)
    BY <1>0, <1>1, <2>1 DEF Watched
  <2>3. Has(events) => Has(Append(events, fetched))
    BY <1>0, AppendHas
  <2>4. /\ Has(events) => Has(events)'
        /\ (Has(inbox[h]) => Has(inbox[h])') /\ (Has(wire) => Has(wire)')
        /\ (Has(channel) => Has(channel)') /\ (UpToDate(shown) => UpToDate(shown)')
    BY <2>1, <2>3 DEF Has, UpToDate
  <2> QED BY <2>1, <2>2, <2>4 DEF OnItsWay
<1>11. CASE ApplyRemoteState
  <2> DEFINE s == Head(events)
  <2>1. /\ events # <<>> /\ events' = Tail(events)
        /\ shown' = (IF Acceptable(s) THEN s ELSE shown)
        /\ late' = (shown' # Current /\ (late \/ s.instance < shown.instance))
        /\ UNCHANGED <<instance, revs, channel, wire, inbox, lossy, phase, member, conn>>
    BY <1>11 DEF ApplyRemoteState, daemon, server, connection
  <2>2. OnItsWay(h)
    BY <1>0, <1>1, <2>1 DEF Watched
  <2>3. s \in Sent
    BY <1>0, <2>1
  <2>4. Has(events) => UpToDate(s) \/ Has(Tail(events))
    BY <1>0, <2>1, TailKeeps DEF Has
  <2>5. Has(Tail(events)) => Has(events)'
    BY <2>1 DEF Has, UpToDate
  <2> HIDE DEF s
  <2>6. UpToDate(s) \/ UpToDate(shown) \/ late => UpToDate(shown') \/ late'
    BY <1>0, <2>1, <2>3, AppliedKeeps
  <2>7. UpToDate(shown') => UpToDate(shown)'
    BY <2>1 DEF UpToDate
  <2>8. /\ (Has(channel) => Has(channel)') /\ (Has(inbox[h]) => Has(inbox[h])')
        /\ (Has(wire) => Has(wire)')
    BY <2>1 DEF Has, UpToDate
  <2> QED BY <2>2, <2>4, <2>5, <2>6, <2>7, <2>8 DEF OnItsWay
<1>12. CASE Fetch \/ OpenWindow \/ Lock \/ ReadEnd
  <2>1. UNCHANGED <<instance, revs, channel, wire, events, shown, late, lossy, inbox, phase,
                    member, conn>>
    BY <1>12 DEF Fetch, OpenWindow, Lock, ReadEnd, daemon, server, connection, window
  <2> QED BY <1>0, <1>2, <2>1
<1>13. CASE CloseWindow \/ RestartDaemon
  BY <1>0, <1>13 DEF CloseWindow, RestartDaemon
<1> QED
  BY <1>3, <1>4, <1>5, <1>7, <1>8, <1>9, <1>10, <1>11, <1>12, <1>13 DEF Next, Window

(* "Register before taking the snapshot so no state change falls in a      *)
(* gap": for any number of clients, restarts and lost lines, the newest    *)
(* state is on its way to every window that listens, or shown by it.       *)
THEOREM NothingFallsInAGap == Spec => []NoGap
<1>1. Init => NoGap
  BY DEF Init, NoGap
<1>2. IInv /\ NoGap /\ [Next]_vars => NoGap'
  <2>1. IInv /\ NoGap /\ UNCHANGED vars => NoGap'
    BY DEF NoGap, UpToDate, vars, daemon, server, connection, window
  <2> QED BY <2>1, NextGap
<1> QED
  BY <1>1, <1>2, StreamInvariant, PTL DEF Spec
=============================================================================
