---------------------------- MODULE NvidiaSource -----------------------------
(***************************************************************************)
(* What one query of the GPU worker does (SysPlatform::nvidia_fields in    *)
(* crates/victus-hubd/src/system.rs, nvidia.rs in victus-hw): hwmon gives  *)
(* the temperature, NVML what it can, and nvidia-smi, a process that may   *)
(* hang and that must not be started for nothing every second, the rest,   *)
(* with a back-off for each field.  hwmon, NVML and nvidia-smi are         *)
(* external: any of their answers may be missing at any time.              *)
(***************************************************************************)
EXTENDS Integers

CONSTANTS
  SmiFields,     (* "temp" and what else the worker can ask for                 *)
  Backoff     (* SMI_BACKOFF_S in ticks                                      *)

ASSUME SourceAssumption == "temp" \in SmiFields /\ Backoff \in Nat \ {0}

VARIABLES
  nvml,       (* an NVML session is open                                     *)
  wait,       (* the time until each field may be asked of nvidia-smi        *)
  missing,    (* SmiBackoff.known_missing                                    *)
  since,      (* the time since nvidia-smi last failed to give the field,    *)
              (* up to Backoff                                               *)
  query       (* the last query: the turn, what it wanted, what hwmon and    *)
              (* NVML gave, and what it asked of nvidia-smi                  *)

sourceVars == <<nvml, wait, missing, since, query>>

Due(fields) == {f \in fields : wait[f] = 0}

Queried(wanted, given, asked) ==
  query' = [turn |-> ~query.turn, wanted |-> wanted, given |-> given,
            asked |-> asked]

(* Faulty: a run that gave no line at all is not noted.                    *)
FailedIfAnswered(due, answered, got) ==
  IF answered THEN due \ got ELSE {}

(* note_smi_failures: a run that fails is one of every field, asked or not *)
Failed(due, answered, got) == IF answered THEN due \ got ELSE SmiFields

NoteFailures(failed) ==
  wait' = [f \in SmiFields |-> IF f \in failed THEN Backoff ELSE wait[f]]

(* fill_from_smi, for the fields that the others did not give              *)
FillFromSmi(wanted, given, installed, answered, got) ==
  LET due == Due(wanted \ given)
  IN  IF missing \/ due = {} THEN
        /\ Queried(wanted, given, {})
        /\ UNCHANGED <<wait, missing, since>>
      ELSE IF ~installed THEN
        /\ missing' = TRUE
        /\ Queried(wanted, given, {})
        /\ UNCHANGED <<wait, since>>
      ELSE
        /\ NoteFailures(Failed(due, answered, got))
        /\ since' = [f \in SmiFields |->
                       IF f \in due /\ ~(answered /\ f \in got) THEN 0
                       ELSE since[f]]
        /\ Queried(wanted, given, due)
        /\ UNCHANGED missing

(* The GPU sleeps or is gone: no source is touched, the session is closed. *)
QueryDark ==
  /\ nvml' = FALSE
  /\ Queried({}, {}, {})
  /\ UNCHANGED <<wait, missing, since>>

(* Only the temperature is wanted and hwmon has it.                        *)
QueryTemperature ==
  /\ Queried({"temp"}, {"temp"}, {})
  /\ UNCHANGED <<nvml, wait, missing, since>>

(* hwmon, NVML, and nvidia-smi for the rest                                *)
Query(wanted, hwmon, opens, gives, installed, answered, got) ==
  LET given == (wanted \cap hwmon) \cup (IF nvml' THEN wanted \cap gives ELSE {})
  IN  /\ ~(wanted = {"temp"} /\ "temp" \in hwmon)
      /\ nvml' = (nvml \/ opens)
      /\ FillFromSmi(wanted, given, installed, answered, got)

BackoffPasses ==
  /\ wait' = [f \in SmiFields |-> IF wait[f] = 0 THEN 0 ELSE wait[f] - 1]
  /\ since' = [f \in SmiFields |->
                 IF since[f] = Backoff THEN Backoff ELSE since[f] + 1]
  /\ UNCHANGED <<nvml, missing, query>>

SourceInit ==
  /\ nvml = FALSE /\ missing = FALSE
  /\ wait = [f \in SmiFields |-> 0] /\ since = [f \in SmiFields |-> Backoff]
  /\ query = [turn |-> FALSE, wanted |-> {}, given |-> {}, asked |-> {}]

SourceNext ==
  \/ QueryDark
  \/ QueryTemperature
  \/ \E wanted \in SUBSET SmiFields \ {{}} : \E hwmon \in {{}, {"temp"}} :
       \E gives, got \in SUBSET wanted :
         \E opens, installed, answered \in BOOLEAN :
           Query(wanted, hwmon, opens, gives, installed, answered, got)
  \/ BackoffPasses

SourceSpec == SourceInit /\ [][SourceNext]_sourceVars

-----------------------------------------------------------------------------
(* nvidia-smi is not started for a field that it failed to give less than  *)
(* the back-off ago; and the back-off holds nothing longer than that: a    *)
(* field that nothing else gives is asked for unless nvidia-smi is missing *)
(* or has failed, for this field or with another, within the back-off.     *)
SmiPaced ==
  [][query'.turn # query.turn =>
       /\ \A f \in query'.asked : since[f] = Backoff
       /\ \A f \in query'.wanted \ (query'.given \cup query'.asked) :
            missing' \/ \E g \in SmiFields : since[g] < Backoff]_sourceVars
=============================================================================
