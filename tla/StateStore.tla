------------------------------ MODULE StateStore ------------------------------
(***************************************************************************)
(* The policy of the daemon and the files it lives in: state.json, saved   *)
(* under a temporary name and renamed (victus-core state.rs), and the      *)
(* copies in the user's ~/.config/victus-hub that a window keeps (victus-  *)
(* hub persist.rs).  A daemon without a policy imports the copies once, at *)
(* its start or when a window asks it to (runtime.rs initialize_state and  *)
(* import_desktop_config, shell.rs hydrate_live).                          *)
(*                                                                         *)
(* Two values stand for the policy: fan, which is kept in config.json, and *)
(* rest, which is kept in victus-hub.conf.                                 *)
(***************************************************************************)
CONSTANTS
  Values,    (* of a setting that a user chooses                           *)
  Rejected,  (* a rest whose power limits are out of range                 *)
  Default,   (* of a setting nobody chose                                  *)
  Torn,      (* a file that is not written to its end                      *)
  None       (* no file, no such key, no daemon, nothing under way         *)

Parts == {"fan", "rest"}
Copied == Values \cup {Rejected, Default}

(* A policy is initialised by its user or by an import.                    *)
Policies == [fan : Copied, rest : Copied, by : {"nobody", "user", "import"}]
Initialized(policy) == policy.by # "nobody"
Defaults == [fan |-> Default, rest |-> Default, by |-> "nobody"]

Saves == [policy : Policies, at : {"create", "rename"}]

(* The markers are no settings, and no file or request looks like None.    *)
ASSUME StoreAssumption ==
  /\ Default \notin Values \cup {Rejected} /\ Rejected \notin Values
  /\ None \notin Copied \cup Policies \cup Saves \cup [Parts -> Copied \cup {None}]

VARIABLES
  state,     (* Runtime.state; None while no daemon runs                   *)
  starting,  (* the daemon does not serve yet                              *)
  saving,    (* the policy being saved, and how far state.json.tmp is; None *)
  disk,      (* state.json                                                 *)
  copies,    (* config.json and victus-hub.conf                            *)
  window,    (* how far the window is                                      *)
  fetched,   (* the policy it was given and is copying                     *)
  pending,   (* its initialize-state on the way; None                      *)
  calm,      (* nothing fails any more                                     *)
  own,       (* history: the copies as found, with the user's edits; None  *)
             (* once a daemon has had a policy                             *)
  promised   (* history: the last policy that save_state reported saved    *)

daemon == <<state, starting, saving, disk>>
desktop == <<copies, window, fetched, pending>>
histories == <<own, promised>>
vars == <<daemon, desktop, calm, histories>>

Serves == state # None /\ ~starting /\ saving = None

(* load_state: what cannot be read counts as nothing.                      *)
Loaded(file) == IF file \in Policies THEN file ELSE Defaults

-----------------------------------------------------------------------------
(* migrated_state: nothing to import, or a policy with the defaults for    *)
(* what is missing.                                                        *)
Present == \E p \in Parts : copies[p] # None
MigratedState ==
  [fan |-> IF copies.fan = None THEN Default ELSE copies.fan,
   rest |-> IF copies.rest = None THEN Default ELSE copies.rest,
   by |-> "import"]

StartSave(policy) == saving' = [policy |-> policy, at |-> "create"]

(* Faulty: the policy is taken before it is saved.                         *)
InitializeStateFirst(policy) ==
  IF Initialized(state) \/ policy.rest = Rejected THEN UNCHANGED <<state, saving>>
  ELSE \/ state' = policy /\ StartSave(policy)
       \/ ~calm /\ UNCHANGED <<state, saving>>

(* Faulty: an import comes over what is there.                             *)
InitializeStateAnew(policy) ==
  /\ UNCHANGED state
  /\ IF policy.rest = Rejected THEN UNCHANGED saving
     ELSE StartSave(policy) \/ (~calm /\ UNCHANGED saving)

(* initialize_state: refused, rejected, or the CPU frequency cannot be     *)
(* set; or the policy is saved first and taken then.                       *)
InitializeState(policy) ==
  /\ UNCHANGED state
  /\ IF Initialized(state) \/ policy.rest = Rejected THEN UNCHANGED saving
     ELSE StartSave(policy) \/ (~calm /\ UNCHANGED saving)

(* main: the start of the daemon.                                          *)
Start ==
  /\ state = None
  /\ state' = Loaded(disk) /\ starting' = TRUE
  /\ UNCHANGED <<saving, disk, desktop, calm, histories>>

(* main: the import, once desktop_config_dir found the account: there may  *)
(* be none at the seat yet.                                                *)
ImportAtStart ==
  /\ starting /\ saving = None
  /\ \/ Present /\ InitializeState(MigratedState)
     \/ UNCHANGED <<state, saving>>
  /\ starting' = (saving' # None)
  /\ UNCHANGED <<disk, desktop, calm, histories>>

(* persist, for a setting that a client or a key has set.                  *)
Changed(part, v) ==
  [fan |-> IF part = "fan" THEN v ELSE state.fan,
   rest |-> IF part = "rest" THEN v ELSE state.rest,
   by |-> "user"]

Persist(part, v) ==
  /\ Serves
  /\ state' = Changed(part, v)
  /\ StartSave(state')

Accept ==
  /\ \E p \in Parts, v \in Values : Persist(p, v)
  /\ own' = None
  /\ UNCHANGED <<starting, disk, desktop, calm, promised>>

(* What is saved is in force: already, or now if it is an import.          *)
SaveEnds ==
  /\ disk' = saving.policy /\ state' = saving.policy
  /\ promised' = saving.policy /\ own' = None
  /\ saving' = None /\ starting' = FALSE

(* Faulty: state.json is written in its place.                             *)
SaveStateInPlace ==
  /\ saving # None
  /\ \/ /\ saving.at = "create" /\ disk' = Torn
        /\ saving' = [saving EXCEPT !.at = "rename"]
        /\ UNCHANGED <<state, starting, histories>>
     \/ saving.at = "rename" /\ SaveEnds
  /\ UNCHANGED <<desktop, calm>>

(* save_state: a temporary file, which nobody reads, is created and        *)
(* written, and renamed.                                                   *)
SaveState ==
  /\ saving # None
  /\ \/ /\ saving.at = "create" /\ saving' = [saving EXCEPT !.at = "rename"]
        /\ UNCHANGED <<state, starting, disk, histories>>
     \/ saving.at = "rename" /\ SaveEnds
  /\ UNCHANGED <<desktop, calm>>

(* It fails: persist logs it, an import is given up.                       *)
SaveFails ==
  /\ ~calm /\ saving # None
  /\ saving' = None /\ starting' = FALSE
  /\ UNCHANGED <<state, disk, desktop, calm, histories>>

Crash ==
  /\ ~calm /\ state # None
  /\ state' = None /\ starting' = FALSE /\ saving' = None /\ pending' = None
  /\ UNCHANGED <<disk, copies, window, fetched, calm, histories>>

-----------------------------------------------------------------------------

(* hydrate_live: only what somebody chose is copied; else the copies are   *)
(* offered to the daemon.                                                  *)
Mirrors(policy) == Initialized(policy)

OpenWindow ==
  /\ window = "closed"
  /\ \/ /\ Serves /\ Mirrors(state)
        /\ fetched' = state /\ window' = "fan"
     \/ /\ Serves /\ ~Mirrors(state)
        /\ window' = "migrate" /\ UNCHANGED fetched
     \/ /\ state = None \/ ~calm
        /\ window' = "open" /\ UNCHANGED fetched
  /\ UNCHANGED <<daemon, copies, pending, calm, histories>>

(* mirror_daemon: the first write that fails is the last.                  *)
MirrorDaemon ==
  /\ window \in Parts
  /\ \/ /\ copies' = [copies EXCEPT ![window] = fetched[window]]
        /\ window' = IF window = "fan" THEN "rest" ELSE "open"
     \/ ~calm /\ window' = "open" /\ UNCHANGED copies
  /\ fetched' = IF window' = "open" THEN Defaults ELSE fetched
  /\ UNCHANGED <<daemon, pending, calm, histories>>

MigrateLegacy ==
  /\ window = "migrate"
  /\ IF Present THEN window' = "sent" /\ pending' = MigratedState
                ELSE window' = "open" /\ UNCHANGED pending
  /\ UNCHANGED <<daemon, copies, fetched, calm, histories>>

(* The daemon handles the request, at any time after it was sent.          *)
HandleInitialize ==
  /\ pending # None /\ Serves
  /\ InitializeState(pending) /\ pending' = None
  /\ UNCHANGED <<starting, disk, copies, window, fetched, calm, histories>>

(* The answer, or ten seconds without one.                                 *)
Migrated ==
  /\ window = "sent"
  /\ (pending = None /\ saving = None) \/ ~calm
  /\ window' = "open"
  /\ UNCHANGED <<daemon, copies, fetched, pending, calm, histories>>

(* flush_lighting and flush_fan: first the copy, which may fail, then the  *)
(* daemon, which may refuse.                                               *)
Edit ==
  /\ window = "open"
  /\ \E p \in Parts, v \in Values :
       /\ \/ copies' = [copies EXCEPT ![p] = v]
          \/ ~calm /\ UNCHANGED copies
       /\ \/ Persist(p, v) /\ own' = None
          \/ /\ state = None \/ ~calm
             /\ own' = IF own = None THEN None ELSE [own EXCEPT ![p] = v]
             /\ UNCHANGED <<state, saving>>
  /\ UNCHANGED <<starting, disk, window, fetched, pending, calm, promised>>

CloseWindow ==
  /\ window = "open" \/ (window # "closed" /\ ~calm)
  /\ window' = "closed" /\ fetched' = Defaults
  /\ UNCHANGED <<daemon, copies, pending, calm, histories>>

CalmDown ==
  /\ ~calm /\ calm' = TRUE
  /\ UNCHANGED <<daemon, desktop, histories>>

-----------------------------------------------------------------------------
Init ==
  /\ state = None /\ starting = FALSE /\ saving = None
  /\ disk \in {None} \cup {[fan |-> v, rest |-> v, by |-> "user"] : v \in Values}
  /\ copies \in [Parts -> Values \cup {None}] \cup [fan : Values, rest : {Rejected}]
  /\ window = "closed" /\ fetched = Defaults /\ pending = None /\ calm = FALSE
  /\ own = (IF disk = None THEN copies ELSE None) /\ promised = disk

DaemonStep == Start \/ ImportAtStart \/ SaveState \/ HandleInitialize
WindowStep == OpenWindow \/ MirrorDaemon \/ MigrateLegacy \/ Migrated \/ CloseWindow

Next ==
  \/ DaemonStep \/ WindowStep \/ Accept \/ SaveFails \/ Crash \/ Edit \/ CalmDown

Spec == Init /\ [][Next]_vars

(* systemd starts the daemon, which handles what it is asked; the user     *)
(* opens the window again some day.                                        *)
FairSpec == Spec /\ WF_vars(DaemonStep) /\ WF_vars(WindowStep)

-----------------------------------------------------------------------------
TypeOK ==
  /\ state \in Policies \cup {None} /\ starting \in BOOLEAN
  /\ saving \in Saves \cup {None}
  /\ disk \in Policies \cup {None}
  /\ copies \in [Parts -> Copied \cup {None}]
  /\ window \in {"closed", "migrate", "sent", "open"} \cup Parts
  /\ fetched \in Policies /\ pending \in Policies \cup {None}
  /\ calm \in BOOLEAN /\ own \in [Parts -> Copied \cup {None}] \cup {None}
  /\ promised \in Policies \cup {None}

(* A start finds the last policy whose save succeeded, wherever in a save  *)
(* the daemon ended; and an import that is in force has been saved, so it  *)
(* can be tried again until it is (state.rs save_state, runtime.rs         *)
(* initialize_state: "A failed save must remain retryable").               *)
SavedSurvives ==
  /\ Loaded(disk) = Loaded(promised)
  /\ state # None /\ state.by = "import" => disk = state

(* Until the daemon has a policy nothing but the user changes the copies   *)
(* in his home: its defaults never replace what was there to be imported   *)
(* (shell.rs hydrate_live).                                                *)
CopiesKept ==
  own # None => \A p \in Parts : copies[p] # own[p] => own[p] \in Values /\ copies[p] # Default

(* What is to be found at the next start or import is there: the saved     *)
(* policy, and before there is one the copies in the user's home.          *)
FilesKept == SavedSurvives /\ CopiesKept

(* What a user has set is never replaced by an import, at a start or late  *)
(* from another window (runtime.rs initialize_state).                      *)
UserKept ==
  [][state # None /\ state' # None /\ state.by = "user" => state'.by = "user"]_vars

(* Settings that are there to be imported, and not rejected, end up saved, *)
(* unless somebody sets something first: every failed attempt is made      *)
(* again (runtime.rs import_desktop_config, shell.rs migrate_legacy).      *)
Migrates ==
  calm /\ Present /\ copies.rest # Rejected
    ~> Initialized(Loaded(disk)) \/ (state # None /\ state.by = "user")
=============================================================================
