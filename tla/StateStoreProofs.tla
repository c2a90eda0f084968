-------------------------- MODULE StateStoreProofs ---------------------------
(***************************************************************************)
(* StateStore for any settings: its types, that the saved policy and the   *)
(* copies survive, and that no import replaces what the user has set.      *)
(***************************************************************************)
EXTENDS StateStore, TLAPS

(* state.json is the last policy whose save succeeded, at every step.      *)
DiskPromised == disk = promised

(* An import in force is the one that was saved.                           *)
ImportSaved == state # None /\ state.by = "import" => disk = state

(* What is being saved is in force, or is an import into a daemon that has *)
(* no policy.                                                              *)
SavingKnown ==
  /\ saving # None =>
       state # None /\ (saving.policy = state \/ state.by = "nobody")
  /\ starting => state # None

(* Until a daemon has had a policy, there is none anywhere, and no window  *)
(* copies one.                                                             *)
NoPolicyYet ==
  own # None =>
    /\ disk = None /\ state \in {None, Defaults} /\ window \notin Parts
    /\ \A p \in Parts : copies[p] # Default
    /\ \A p \in Parts : copies[p] # own[p] => own[p] \in Values

IInv == TypeOK /\ DiskPromised /\ ImportSaved /\ SavingKnown /\ NoPolicyYet

-----------------------------------------------------------------------------
LEMMA DefaultsType == Defaults \in Policies
  BY DEF Defaults, Policies, Copied

LEMMA LoadedType ==
  ASSUME disk \in Policies \cup {None}
  PROVE  /\ Loaded(disk) \in Policies
         /\ disk # None => Loaded(disk) = disk
         /\ disk = None => Loaded(disk) = Defaults
  BY DefaultsType, StoreAssumption DEF Loaded

(* An import is a policy.                                                  *)
LEMMA MigratedType ==
  ASSUME copies \in [Parts -> Copied \cup {None}]
  PROVE  MigratedState \in Policies
<1>1. copies.fan \in Copied \cup {None} /\ copies.rest \in Copied \cup {None}
  BY DEF Parts
<1>2. Default \in Copied
  BY DEF Copied
<1> QED
  BY <1>1, <1>2 DEF MigratedState, Policies

(* What the user sets makes a policy of the user's.                        *)
LEMMA ChangedType ==
  ASSUME NEW part \in Parts, NEW v \in Values, state \in Policies
  PROVE  Changed(part, v) \in Policies /\ Changed(part, v).by = "user"
  BY DEF Changed, Policies, Copied, Parts

LEMMA SaveTypes ==
  ASSUME NEW policy \in Policies
  PROVE  /\ [policy |-> policy, at |-> "create"] \in Saves
         /\ [policy |-> policy, at |-> "create"].policy = policy
  BY DEF Saves

(* An import leaves the state alone and saves, if anything, itself into a  *)
(* daemon without a policy.                                                *)
LEMMA InitializeTypes ==
  ASSUME NEW policy \in Policies, state \in Policies, saving = None,
         InitializeState(policy)
  PROVE  /\ state' = state /\ saving' \in Saves \cup {None}
         /\ saving' # None => saving'.policy = policy /\ state.by = "nobody"
<1>1. state' = state
  BY DEF InitializeState
<1>2. CASE Initialized(state) \/ policy.rest = Rejected
  BY <1>1, <1>2 DEF InitializeState
<1>3. CASE ~(Initialized(state) \/ policy.rest = Rejected)
  <2>1. saving' = [policy |-> policy, at |-> "create"] \/ saving' = saving
    BY <1>3 DEF InitializeState, StartSave
  <2>2. state.by = "nobody"
    BY <1>3 DEF Initialized
  <2> QED
    BY <1>1, <2>1, <2>2, SaveTypes
<1> QED
  BY <1>2, <1>3

-----------------------------------------------------------------------------
LEMMA InitIInv == Init => IInv
<1> SUFFICES ASSUME Init PROVE IInv
  OBVIOUS
<1>1. \A v \in Values : [fan |-> v, rest |-> v, by |-> "user"] \in Policies
  BY DEF Policies, Copied
<1>2. disk \in Policies \cup {None}
  BY <1>1 DEF Init
<1>3. /\ copies \in [Parts -> Copied \cup {None}]
      /\ \A p \in Parts : copies[p] # Default
  <2>1. CASE copies \in [Parts -> Values \cup {None}]
    <3>1. \A p \in Parts : copies[p] \in Values \cup {None}
      BY <2>1
    <3>2. Default # None
      BY StoreAssumption DEF Copied
    <3> QED BY <2>1, <3>1, <3>2, StoreAssumption DEF Copied
  <2>2. CASE copies \in [fan : Values, rest : {Rejected}]
    <3>1. /\ copies = [p \in Parts |-> copies[p]]
          /\ copies["fan"] \in Values /\ copies["rest"] = Rejected
      BY <2>2 DEF Parts
    <3> QED BY <3>1, StoreAssumption DEF Copied, Parts
  <2> QED BY <2>1, <2>2 DEF Init
<1>4. /\ state = None /\ starting = FALSE /\ saving = None /\ window = "closed"
      /\ fetched = Defaults /\ pending = None /\ calm = FALSE /\ promised = disk
  BY DEF Init
<1>5. own = (IF disk = None THEN copies ELSE None)
  BY DEF Init
<1>6. own \in [Parts -> Copied \cup {None}] \cup {None}
  BY <1>3, <1>5
<1>7. TypeOK
  BY <1>2, <1>3, <1>4, <1>6, DefaultsType DEF TypeOK
<1>8. DiskPromised /\ ImportSaved /\ SavingKnown
  BY <1>4 DEF DiskPromised, ImportSaved, SavingKnown
<1>9. NoPolicyYet
  <2>1. window \notin Parts
    BY <1>4 DEF Parts
  <2> QED BY <1>3, <1>4, <1>5, <2>1 DEF NoPolicyYet
<1> QED
  BY <1>7, <1>8, <1>9 DEF IInv

(* What the daemon's steps do to its files and to the policy in force.     *)
LEMMA NextFiles ==
  ASSUME IInv, Next
  PROVE  /\ state' \in Policies \cup {None} /\ disk' \in Policies \cup {None}
         /\ saving' \in Saves \cup {None} /\ promised' \in Policies \cup {None}
         /\ DiskPromised' /\ ImportSaved' /\ SavingKnown'
         /\ state # None /\ state' # None /\ state.by = "user" => state'.by = "user"
<1> DEFINE Kept == UNCHANGED <<state, saving, disk, promised>>
<1> USE DEF IInv
<1>0. /\ state \in Policies \cup {None} /\ disk \in Policies \cup {None}
      /\ saving \in Saves \cup {None} /\ promised \in Policies \cup {None}
      /\ disk = promised /\ ImportSaved /\ SavingKnown
  BY DEF TypeOK, DiskPromised
<1>1. CASE Kept /\ (starting' => state # None)
  BY <1>0, <1>1 DEF DiskPromised, ImportSaved, SavingKnown
<1>2. CASE Start
  <2>1. /\ state = None /\ state' = Loaded(disk) /\ starting' = TRUE
        /\ saving' = saving /\ disk' = disk /\ promised' = promised
    BY <1>2 DEF Start, histories
  <2>2. saving = None
    BY <2>1, <1>0 DEF SavingKnown
  <2>3. /\ Loaded(disk) \in Policies /\ (disk # None => Loaded(disk) = disk)
        /\ (disk = None => Loaded(disk) = Defaults)
    BY LoadedType, <1>0
  <2>4. Loaded(disk) # None
    BY <2>3, StoreAssumption
  <2>5. Defaults.by = "nobody"
    BY DEF Defaults
  <2> QED
    BY <1>0, <2>1, <2>2, <2>3, <2>4, <2>5 DEF DiskPromised, ImportSaved, SavingKnown
<1>3. ASSUME state \in Policies, state # None, saving = None,
             UNCHANGED <<disk, promised>>, starting' => starting \/ saving' # None,
             NEW policy \in Policies, InitializeState(policy)
      PROVE  /\ state' \in Policies \cup {None} /\ disk' \in Policies \cup {None}
             /\ saving' \in Saves \cup {None} /\ promised' \in Policies \cup {None}
             /\ DiskPromised' /\ ImportSaved' /\ SavingKnown'
             /\ state.by = "user" => state'.by = "user"
  <2>1. /\ state' = state /\ saving' \in Saves \cup {None}
        /\ saving' # None => saving'.policy = policy /\ state.by = "nobody"
    BY <1>3, InitializeTypes
  <2> QED
    BY <1>0, <1>3, <2>1 DEF DiskPromised, ImportSaved, SavingKnown
<1>4. ASSUME NEW p \in Parts, NEW v \in Values, Persist(p, v),
             UNCHANGED <<starting, disk, promised>>
      PROVE  /\ state' \in Policies \cup {None} /\ disk' \in Policies \cup {None}
             /\ saving' \in Saves \cup {None} /\ promised' \in Policies \cup {None}
             /\ DiskPromised' /\ ImportSaved' /\ SavingKnown'
             /\ state'.by = "user"
  <2>1. state \in Policies /\ state' = Changed(p, v) /\ StartSave(state')
    BY <1>0, <1>4 DEF Persist, Serves
  <2>2. state' \in Policies /\ state'.by = "user"
    BY <2>1, ChangedType
  <2>3. state' # None
    BY <2>2, StoreAssumption
  <2>4. saving' = [policy |-> state', at |-> "create"]
    BY <2>1 DEF StartSave
  <2>5. saving' \in Saves /\ saving'.policy = state'
    BY <2>2, <2>4, SaveTypes
  <2> QED
    BY <1>0, <1>4, <2>2, <2>3, <2>5 DEF DiskPromised, ImportSaved, SavingKnown
<1>5. CASE ImportAtStart
  <2>1. /\ starting /\ saving = None /\ starting' = (saving' # None)
        /\ UNCHANGED <<disk, promised>>
    BY <1>5 DEF ImportAtStart, histories
  <2>2. state # None /\ state \in Policies
    BY <2>1, <1>0 DEF SavingKnown
  <2>3. MigratedState \in Policies
    BY MigratedType DEF TypeOK
  <2>4. CASE InitializeState(MigratedState)
    BY <1>3, <2>1, <2>2, <2>3, <2>4
  <2>5. CASE UNCHANGED <<state, saving>>
    BY <1>1, <2>1, <2>2, <2>5
  <2> QED BY <1>5, <2>4, <2>5 DEF ImportAtStart
<1>6. CASE Accept
  BY <1>4, <1>6 DEF Accept
<1>7. CASE SaveState
  <2>1. saving \in Saves /\ saving.policy \in Policies /\ saving.policy # None
    BY <1>0, <1>7, StoreAssumption DEF SaveState, Saves
  <2>2. CASE SaveEnds
    <3>1. /\ disk' = saving.policy /\ state' = saving.policy
          /\ promised' = saving.policy /\ saving' = None /\ starting' = FALSE
      BY <2>2 DEF SaveEnds
    <3>2. state # None /\ (saving.policy = state \/ state.by = "nobody")
      BY <1>0, <2>1, <1>7 DEF SavingKnown, SaveState
    <3> QED
      BY <2>1, <3>1, <3>2 DEF DiskPromised, ImportSaved, SavingKnown
  <2>3. CASE /\ saving' = [saving EXCEPT !.at = "rename"]
             /\ UNCHANGED <<state, starting, disk, histories>>
    <3>1. saving' \in Saves /\ saving'.policy = saving.policy
      BY <2>1, <2>3 DEF Saves
    <3>2. UNCHANGED <<state, starting, disk, promised>>
      BY <2>3 DEF histories
    <3>3. saving # None
      BY <1>7 DEF SaveState
    <3> QED
      BY <1>0, <3>1, <3>2, <3>3 DEF DiskPromised, ImportSaved, SavingKnown
  <2> QED BY <1>7, <2>2, <2>3 DEF SaveState
<1>8. CASE SaveFails
  <2>1. saving' = None /\ starting' = FALSE /\ UNCHANGED <<state, disk, promised>>
    BY <1>8 DEF SaveFails, histories
  <2> QED
    BY <1>0, <2>1 DEF DiskPromised, ImportSaved, SavingKnown
<1>9. CASE Crash
  <2>1. /\ state' = None /\ starting' = FALSE /\ saving' = None
        /\ UNCHANGED <<disk, promised>>
    BY <1>9 DEF Crash, histories
  <2> QED
    BY <1>0, <2>1 DEF DiskPromised, ImportSaved, SavingKnown
<1>10. CASE HandleInitialize
  <2>1. /\ pending \in Policies /\ state # None /\ ~starting /\ saving = None
        /\ InitializeState(pending) /\ UNCHANGED <<starting, disk, promised>>
    BY <1>10 DEF HandleInitialize, Serves, histories, TypeOK
  <2> QED BY <1>0, <1>3, <2>1
<1>11. CASE Edit
  <2>1. UNCHANGED <<starting, disk, promised>>
    BY <1>11 DEF Edit
  <2>2. \/ \E p \in Parts, v \in Values : Persist(p, v)
        \/ UNCHANGED <<state, saving>>
    BY <1>11 DEF Edit
  <2>3. starting => state # None
    BY <1>0 DEF SavingKnown
  <2> QED BY <1>1, <1>4, <2>1, <2>2, <2>3
<1>12. CASE OpenWindow \/ MirrorDaemon \/ MigrateLegacy \/ Migrated \/ CloseWindow \/ CalmDown
  <2>1. UNCHANGED <<starting, state, saving, disk, promised>>
    BY <1>12 DEF OpenWindow, MirrorDaemon, MigrateLegacy, Migrated, CloseWindow,
                 CalmDown, daemon, histories
  <2>2. starting => state # None
    BY <1>0 DEF SavingKnown
  <2> QED BY <1>1, <2>1, <2>2
<1> QED
  BY <1>2, <1>5, <1>6, <1>7, <1>8, <1>9, <1>10, <1>11, <1>12 DEF Next, DaemonStep, WindowStep

DesktopTypes ==
  /\ copies \in [Parts -> Copied \cup {None}]
  /\ window \in {"closed", "migrate", "sent", "open"} \cup Parts
  /\ fetched \in Policies /\ pending \in Policies \cup {None}
  /\ calm \in BOOLEAN /\ own \in [Parts -> Copied \cup {None}] \cup {None}

(* A user's edit, which the daemon takes or does not get.                  *)
LEMMA EditDesktop ==
  ASSUME IInv, Edit
  PROVE  DesktopTypes' /\ NoPolicyYet'
<1>0. DesktopTypes /\ NoPolicyYet
  BY DEF IInv, TypeOK, DesktopTypes
<1>1. PICK p \in Parts, v \in Values :
        /\ \/ copies' = [copies EXCEPT ![p] = v]
           \/ UNCHANGED copies
        /\ \/ own' = None
           \/ /\ own' = IF own = None THEN None ELSE [own EXCEPT ![p] = v]
              /\ UNCHANGED <<state, saving>>
  BY DEF Edit
<1>2. window = "open" /\ UNCHANGED <<disk, window, fetched, pending, calm>>
  BY DEF Edit
<1>3. v \in Copied /\ v # None /\ v # Default
  BY StoreAssumption DEF Copied
<1>4. copies' \in [Parts -> Copied \cup {None}]
  BY <1>0, <1>1, <1>3 DEF DesktopTypes
<1>5. own' \in [Parts -> Copied \cup {None}] \cup {None}
  <2>1. CASE own = None
    BY <1>1, <2>1
  <2>2. CASE own # None
    <3>1. own \in [Parts -> Copied \cup {None}]
      BY <1>0, <2>2 DEF DesktopTypes
    <3>2. [own EXCEPT ![p] = v] \in [Parts -> Copied \cup {None}]
      BY <1>3, <3>1
    <3> QED BY <1>1, <2>2, <3>2
  <2> QED BY <2>1, <2>2
<1>6. DesktopTypes'
  BY <1>0, <1>2, <1>4, <1>5 DEF DesktopTypes
<1>7. NoPolicyYet'
  <2>1. CASE own' = None
    BY <2>1 DEF NoPolicyYet
  <2>2. CASE own' # None
    <3>1. own # None /\ own' = [own EXCEPT ![p] = v] /\ UNCHANGED <<state, saving>>
      BY <1>1, <2>2
    <3>2. /\ disk = None /\ state \in {None, Defaults}
          /\ \A q \in Parts : copies[q] # Default
          /\ \A q \in Parts : copies[q] # own[q] => own[q] \in Values
      BY <1>0, <3>1 DEF NoPolicyYet
    <3>3. own \in [Parts -> Copied \cup {None}] /\ copies \in [Parts -> Copied \cup {None}]
      BY <1>0, <3>1 DEF DesktopTypes
    <3>4. own'[p] = v /\ \A q \in Parts \ {p} : own'[q] = own[q]
      BY <3>1, <3>3
    <3>5. \A q \in Parts \ {p} : copies'[q] = copies[q]
      BY <1>1, <3>3
    <3>6. copies'[p] = v \/ copies'[p] = copies[p]
      BY <1>1, <3>3
    <3>7. \A q \in Parts : copies'[q] # Default
      BY <1>3, <3>2, <3>5, <3>6
    <3>8. \A q \in Parts : copies'[q] # own'[q] => own'[q] \in Values
      BY <3>2, <3>4, <3>5
    <3>9. window' \notin Parts /\ disk' = None /\ state' \in {None, Defaults}
      BY <1>2, <3>1, <3>2 DEF Parts
    <3> QED BY <3>7, <3>8, <3>9 DEF NoPolicyYet
  <2> QED BY <2>1, <2>2
<1> QED
  BY <1>6, <1>7

(* What the window's steps, and the daemon's, do to the copies.            *)
LEMMA NextDesktop ==
  ASSUME IInv, Next
  PROVE  DesktopTypes' /\ NoPolicyYet'
<1>0. DesktopTypes /\ NoPolicyYet /\ state \in Policies \cup {None}
  BY DEF IInv, TypeOK, DesktopTypes
<1>1. CASE own' = None /\ UNCHANGED <<desktop, calm>>
  BY <1>0, <1>1 DEF DesktopTypes, NoPolicyYet, desktop
<1>2. CASE /\ UNCHANGED <<disk, copies, window, fetched, calm, own>>
           /\ pending' \in {pending, None} /\ state' \in {state, None}
  <2>1. DesktopTypes'
    BY <1>0, <1>2 DEF DesktopTypes
  <2> QED BY <1>0, <1>2, <2>1 DEF NoPolicyYet
<1>3. CASE Start
  <2>1. /\ state' = Loaded(disk)
        /\ UNCHANGED <<disk, copies, window, fetched, pending, calm, own>>
    BY <1>3 DEF Start, desktop, histories
  <2>2. disk = None => Loaded(disk) = Defaults
    BY LoadedType DEF IInv, TypeOK
  <2>3. DesktopTypes'
    BY <1>0, <2>1 DEF DesktopTypes
  <2> QED BY <1>0, <2>1, <2>2, <2>3 DEF NoPolicyYet
<1>4. CASE ImportAtStart
  BY <1>2, <1>4 DEF ImportAtStart, InitializeState, desktop, histories
<1>5. CASE Accept
  BY <1>1, <1>5 DEF Accept
<1>6. CASE SaveState
  <2>1. CASE SaveEnds
    BY <1>1, <1>6, <2>1 DEF SaveState, SaveEnds
  <2>2. CASE UNCHANGED <<state, starting, disk, histories>>
    BY <1>2, <1>6, <2>2 DEF SaveState, desktop, histories
  <2> QED BY <1>6, <2>1, <2>2 DEF SaveState
<1>7. CASE SaveFails
  BY <1>2, <1>7 DEF SaveFails, desktop, histories
<1>8. CASE Crash
  BY <1>2, <1>8 DEF Crash, histories
<1>9. CASE HandleInitialize
  BY <1>2, <1>9 DEF HandleInitialize, InitializeState, histories
<1>10. CASE Edit
  BY <1>10, EditDesktop
<1>11. CASE OpenWindow
  <2>1. UNCHANGED <<state, disk, copies, pending, calm, own>>
    BY <1>11 DEF OpenWindow, daemon, histories
  <2>2. \/ state # None /\ Mirrors(state) /\ fetched' = state /\ window' = "fan"
        \/ fetched' = fetched /\ window' \in {"migrate", "open"}
    BY <1>11 DEF OpenWindow, Serves
  <2>3. Mirrors(state) /\ state # None => own = None
    <3>1. ~Mirrors(Defaults)
      BY DEF Mirrors, Initialized, Defaults
    <3> QED BY <1>0, <3>1 DEF NoPolicyYet
  <2>4. fetched' \in Policies
    BY <1>0, <2>2 DEF DesktopTypes
  <2>5. window' \in {"closed", "migrate", "sent", "open"} \cup Parts
    BY <2>2 DEF Parts
  <2>6. DesktopTypes'
    BY <1>0, <2>1, <2>4, <2>5 DEF DesktopTypes
  <2>7. own' # None => window' \notin Parts
    BY <2>1, <2>2, <2>3 DEF Parts
  <2> QED BY <1>0, <2>1, <2>6, <2>7 DEF NoPolicyYet
<1>12. CASE MirrorDaemon
  <2>1. /\ window \in Parts /\ UNCHANGED <<pending, calm, own>>
        /\ fetched' = (IF window' = "open" THEN Defaults ELSE fetched)
        /\ \/ /\ copies' = [copies EXCEPT ![window] = fetched[window]]
              /\ window' = IF window = "fan" THEN "rest" ELSE "open"
           \/ window' = "open" /\ UNCHANGED copies
    BY <1>12 DEF MirrorDaemon, histories
  <2>2. own = None
    BY <1>0, <2>1 DEF NoPolicyYet
  <2>3. fetched.fan \in Copied /\ fetched.rest \in Copied
    BY <1>0 DEF DesktopTypes, Policies
  <2>4. fetched[window] \in Copied
    BY <2>1, <2>3 DEF Parts
  <2>5. copies' \in [Parts -> Copied \cup {None}]
    BY <1>0, <2>1, <2>4 DEF DesktopTypes
  <2>6. window' \in {"closed", "migrate", "sent", "open"} \cup Parts
    BY <2>1 DEF Parts
  <2>7. fetched' \in Policies
    BY <1>0, <2>1, DefaultsType DEF DesktopTypes
  <2> QED BY <1>0, <2>1, <2>2, <2>5, <2>6, <2>7 DEF DesktopTypes, NoPolicyYet
<1>13. CASE MigrateLegacy
  <2>1. /\ UNCHANGED <<state, disk, copies, fetched, calm, own>>
        /\ window' \in {"sent", "open"} /\ pending' \in {pending, MigratedState}
    BY <1>13 DEF MigrateLegacy, daemon, histories
  <2>2. pending' \in Policies \cup {None}
    BY <1>0, <2>1, MigratedType DEF DesktopTypes
  <2>3. window' \notin Parts
    BY <2>1 DEF Parts
  <2> QED BY <1>0, <2>1, <2>2, <2>3 DEF DesktopTypes, NoPolicyYet
<1>14. CASE Migrated
  <2>1. /\ UNCHANGED <<state, disk, copies, fetched, pending, calm, own>> /\ window' = "open"
    BY <1>14 DEF Migrated, daemon, histories
  <2>2. window' \notin Parts
    BY <2>1 DEF Parts
  <2> QED BY <1>0, <2>1, <2>2 DEF DesktopTypes, NoPolicyYet
<1>15. CASE CloseWindow
  <2>1. /\ UNCHANGED <<state, disk, copies, pending, calm, own>>
        /\ window' = "closed" /\ fetched' = Defaults
    BY <1>15 DEF CloseWindow, daemon, histories
  <2>2. window' \notin Parts
    BY <2>1 DEF Parts
  <2> QED BY <1>0, <2>1, <2>2, DefaultsType DEF DesktopTypes, NoPolicyYet
<1>16. CASE CalmDown
  <2>1. UNCHANGED <<state, disk, copies, window, fetched, pending, own>> /\ calm' = TRUE
    BY <1>16 DEF CalmDown, daemon, desktop, histories
  <2> QED BY <1>0, <2>1 DEF DesktopTypes, NoPolicyYet
<1> QED
  BY <1>3, <1>4, <1>5, <1>6, <1>7, <1>8, <1>9, <1>10, <1>11, <1>12, <1>13, <1>14, <1>15, <1>16
  DEF Next, DaemonStep, WindowStep

-----------------------------------------------------------------------------
LEMMA StartingType == IInv /\ Next => starting' \in BOOLEAN
<1> SUFFICES ASSUME IInv, Next PROVE starting' \in BOOLEAN
  OBVIOUS
<1>1. starting \in BOOLEAN
  BY DEF IInv, TypeOK
<1> QED
  BY <1>1 DEF Next, DaemonStep, WindowStep, Start, ImportAtStart, SaveState, SaveEnds,
     HandleInitialize, OpenWindow, MirrorDaemon, MigrateLegacy, Migrated, CloseWindow,
     Accept, SaveFails, Crash, Edit, CalmDown, daemon

LEMMA NextIInv == IInv /\ [Next]_vars => IInv'
<1> SUFFICES ASSUME IInv, [Next]_vars PROVE IInv'
  OBVIOUS
<1>1. CASE Next
  <2>1. DesktopTypes' /\ NoPolicyYet'
    BY <1>1, NextDesktop
  <2>2. /\ state' \in Policies \cup {None} /\ disk' \in Policies \cup {None}
        /\ saving' \in Saves \cup {None} /\ promised' \in Policies \cup {None}
        /\ DiskPromised' /\ ImportSaved' /\ SavingKnown'
    BY <1>1, NextFiles
  <2>3. starting' \in BOOLEAN
    BY <1>1, StartingType
  <2>4. TypeOK'
    BY <2>1, <2>2, <2>3 DEF TypeOK, DesktopTypes
  <2> QED BY <2>1, <2>2, <2>4 DEF IInv
<1>2. CASE UNCHANGED vars
  BY <1>2 DEF vars, daemon, desktop, histories, IInv, TypeOK, DiskPromised, ImportSaved,
     SavingKnown, NoPolicyYet
<1> QED
  BY <1>1, <1>2

(* The invariant holds from the first start of the first daemon on.        *)
THEOREM StoreInvariant == Spec => []IInv
  BY InitIInv, NextIInv, PTL DEF Spec

(* The variables keep their types.                                         *)
THEOREM StoreTypes == Spec => []TypeOK
<1>1. IInv => TypeOK
  BY DEF IInv
<1> QED
  BY <1>1, StoreInvariant, PTL

(* Whenever the daemon ends and starts again it finds the last policy that *)
(* was reported saved, and while it never had one, the user's own copies.  *)
THEOREM FilesAreKept == Spec => []FilesKept
<1>1. IInv => FilesKept
  BY DEF IInv, DiskPromised, ImportSaved, NoPolicyYet, FilesKept, SavedSurvives, CopiesKept
<1> QED
  BY <1>1, StoreInvariant, PTL

(* No import, at a start or late from a window, replaces what a user set.  *)
THEOREM UserIsKept == Spec => UserKept
<1>1. IInv /\ [Next]_vars =>
        [state # None /\ state' # None /\ state.by = "user" => state'.by = "user"]_vars
  BY NextFiles
<1> QED
  BY <1>1, StoreInvariant, PTL DEF Spec, UserKept
=============================================================================
