------------------------------ MODULE StateFeed ------------------------------
(***************************************************************************)
(* What the event stream of the daemon promises to one desktop window.     *)
(* Every run of the daemon (an instance) publishes numbered revisions of   *)
(* its state.  The window records which of them it shows.  It only ever    *)
(* shows a state that was really published, and while it hears the same    *)
(* instance it never goes back to an older revision, whatever the sockets, *)
(* the queues and the reconnections in between do to the lines.            *)
(***************************************************************************)
EXTENDS Naturals

CONSTANTS
  MaxInstance   (* bound: runs of the daemon                               *)

Instances == 1..MaxInstance

VARIABLES
  instance,   (* the present run of the daemon                             *)
  revs,       (* the newest revision each run has published                *)
  shown       (* the state the window shows: a run and a revision of it    *)

feedVars == <<instance, revs, shown>>

(* A window that has shown nothing yet. *)
Nothing == [instance |-> 0, revision |-> 0]

(* s was published, by this run of the daemon or an earlier one. *)
Published(s) == s.instance \in 1..instance /\ s.revision \in 0..revs[s.instance]

-----------------------------------------------------------------------------
FeedInit ==
  /\ instance = 1
  /\ revs = [i \in Instances |-> 0]
  /\ shown = Nothing

Publish ==
  /\ revs' = [revs EXCEPT ![instance] = @ + 1]
  /\ UNCHANGED <<instance, shown>>

Restart ==
  /\ instance' = instance + 1
  /\ UNCHANGED <<revs, shown>>

(* An earlier run may still be shown late, an older revision never is. *)
Show ==
  /\ Published(shown')
  /\ shown'.instance = shown.instance => shown'.revision >= shown.revision
  /\ UNCHANGED <<instance, revs>>

NewWindow == shown' = Nothing /\ UNCHANGED <<instance, revs>>

FeedNext == Publish \/ Restart \/ Show \/ NewWindow

FeedSpec == FeedInit /\ [][FeedNext]_feedVars
=============================================================================
