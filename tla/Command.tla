------------------------------- MODULE Command -------------------------------
(***************************************************************************)
(* How the daemon runs ryzenadj, tuned-adm, powerprofilesctl and           *)
(* nvidia-smi (run_prepared_command in crates/victus-hw/src/lib.rs): a     *)
(* child in a process group of its own, both its pipes drained while it    *)
(* runs, a deadline, and a kill of what the child leaves behind holding    *)
(* the pipes.  The child and what it forks are external: any of them may   *)
(* fork, leave the group, close or redirect a pipe, write and exit.        *)
(***************************************************************************)
EXTENDS Integers, FiniteSetsExt

CONSTANTS
  Capacity,   (* of a pipe                                                   *)
  Chunk,      (* what one drain takes at most, the 16 reads                  *)
  Cap,        (* what is kept of a pipe's output, the mebibyte               *)
  Output,     (* bound: what is written to a pipe                            *)
  MaxHeirs,   (* bound: heirs that differ in their group or pipes            *)
  Patience    (* the timeout in ticks                                        *)

ASSUME CommandAssumption ==
  /\ {Capacity, Chunk, Patience} \subseteq Nat \ {0}
  /\ {Cap, Output, MaxHeirs} \subseteq Nat

Streams == {"out", "err"}

(* A process that the child has left behind, or will: whether it is of the *)
(* child's group, and the pipes it has open.                               *)
Heirs == [group : BOOLEAN, pipes : SUBSET Streams]

VARIABLES
  child,      (* "running", "exited" or, once waited for, "reaped"           *)
  open,       (* the pipes that the child has open while it runs             *)
  heirs,      (* the heirs that live, equal ones as one                      *)
  written,    (* to each pipe                                                *)
  taken,      (* from each pipe                                              *)
  kept,       (* of that: the length of stdout and stderr                    *)
  ended,      (* the pipes found at their end: out_done, err_done            *)
  remaining,  (* the time to the deadline                                    *)
  loop        (* where the caller is: "check", "out", "err", "judge",        *)
              (* "poll", or its result, "ok" or "failed"                     *)

processes == <<child, open, heirs, written>>
buffers == <<taken, kept, ended>>
commandVars == <<processes, buffers, remaining, loop>>

Done == loop \in {"ok", "failed"}
Held(s) == written[s] - taken[s]

(* Somebody may still write to the pipe.                                   *)
Writer(s) ==
  \/ child = "running" /\ s \in open
  \/ \E heir \in heirs : s \in heir.pipes

(* The child and its heirs                                                 *)
Writes(s) ==
  /\ Writer(s) /\ Held(s) < Capacity /\ written[s] < Output
  /\ written' = [written EXCEPT ![s] = @ + 1]
  /\ UNCHANGED <<child, open, heirs, buffers, remaining, loop>>

(* A process has the pipes that its parent gives it, and may leave the     *)
(* group, but not come back to it.                                         *)
Forks(heir) ==
  /\ Cardinality(heirs) < MaxHeirs
  /\ \/ child = "running" /\ heir.pipes \subseteq open
     \/ \E parent \in heirs :
          heir.pipes \subseteq parent.pipes /\ (heir.group => parent.group)
  /\ heirs' = heirs \cup {heir}
  /\ UNCHANGED <<child, open, written, buffers, remaining, loop>>

(* A pipe is closed, or stdio redirected to something else.                *)
Closes(s) ==
  /\ \/ child = "running" /\ open' = open \ {s} /\ UNCHANGED heirs
     \/ \E heir \in heirs :
          heirs' = (heirs \ {heir}) \cup {[heir EXCEPT !.pipes = @ \ {s}]}
        /\ UNCHANGED open
  /\ UNCHANGED <<child, written, buffers, remaining, loop>>

Exits ==
  /\ \/ child = "running" /\ child' = "exited" /\ UNCHANGED heirs
     \/ \E heir \in heirs : heirs' = heirs \ {heir} /\ UNCHANGED child
  /\ UNCHANGED <<open, written, buffers, remaining, loop>>

TimePasses ==
  /\ remaining > 0
  /\ remaining' = remaining - 1
  /\ UNCHANGED <<processes, buffers, loop>>

-----------------------------------------------------------------------------
(* The caller.  killpg reaches the group and not what has left it.         *)
HeirsKilled == {heir \in heirs : ~heir.group}

(* try_wait, unless the child has been waited for before                   *)
Waited == IF child = "exited" THEN "reaped" ELSE child

(* Faulty: the deadline is looked at only while the child runs.            *)
CheckUntilExit ==
  /\ loop = "check"
  /\ IF remaining = 0 /\ child = "running" THEN
       loop' = "failed" /\ child' = "reaped" /\ heirs' = HeirsKilled
     ELSE loop' = "out" /\ child' = Waited /\ UNCHANGED heirs
  /\ UNCHANGED <<open, written, buffers, remaining>>

(* Past the deadline the group is killed and the child waited for.         *)
Check ==
  /\ loop = "check"
  /\ IF remaining = 0 THEN
       loop' = "failed" /\ child' = "reaped" /\ heirs' = HeirsKilled
     ELSE loop' = "out" /\ child' = Waited /\ UNCHANGED heirs
  /\ UNCHANGED <<open, written, buffers, remaining>>

(* drain_available: until the pipe is empty, at its end, or another has    *)
(* its turn; a pipe at its end is not read again.  What is past the cap is *)
(* read and dropped.                                                       *)
Drain(s) ==
  /\ loop = s
  /\ loop' = IF s = "out" THEN "err" ELSE "judge"
  /\ IF s \in ended THEN UNCHANGED buffers
     ELSE LET count == Min({Held(s), Chunk})
          IN  /\ taken' = [taken EXCEPT ![s] = @ + count]
              /\ kept' = [kept EXCEPT ![s] = Min({Cap, @ + count})]
              /\ ended' = IF Held(s) < Chunk /\ ~Writer(s) THEN ended \cup {s}
                          ELSE ended
  /\ UNCHANGED <<processes, remaining>>

(* Faulty: the command is over when its child is.                          *)
CompleteAtExit == child = "reaped"

Complete == child = "reaped" /\ ended = Streams

(* Of a child that is gone the pipes are closed by killing the group; a    *)
(* group that has no pipe is left alone.                                   *)
Judge ==
  /\ loop = "judge"
  /\ IF Complete THEN loop' = "ok" /\ UNCHANGED heirs
     ELSE /\ loop' = "poll"
          /\ heirs' = IF child = "reaped" THEN HeirsKilled ELSE heirs
  /\ UNCHANGED <<child, open, written, buffers, remaining>>

(* poll returns for data, an end, a signal or its own timeout.             *)
PollReturns ==
  /\ loop = "poll"
  /\ loop' = "check"
  /\ UNCHANGED <<processes, buffers, remaining>>

(* fcntl, try_wait, a read or poll itself fails: as at the deadline.       *)
CallFails ==
  /\ ~Done
  /\ loop' = "failed" /\ child' = "reaped" /\ heirs' = HeirsKilled
  /\ UNCHANGED <<open, written, buffers, remaining>>

Caller == Check \/ (\E s \in Streams : Drain(s)) \/ Judge \/ PollReturns

CommandInit ==
  /\ child = "running" /\ open = Streams /\ heirs = {}
  /\ written = [s \in Streams |-> 0] /\ taken = written /\ kept = written
  /\ ended = {} /\ remaining = Patience /\ loop = "check"

CommandNext ==
  \/ \E s \in Streams : Writes(s) \/ Closes(s)
  \/ \E heir \in Heirs : Forks(heir)
  \/ Exits
  \/ TimePasses
  \/ Caller \/ CallFails

CommandSpec == CommandInit /\ [][CommandNext]_commandVars

-----------------------------------------------------------------------------
(* A command that succeeds gives all that was ever written to its pipes,   *)
(* up to the cap, though the child may exit before they are empty and its  *)
(* heirs go on writing: nobody is left who could write more.  However the  *)
(* command ends its child is waited for, and if it fails its group is      *)
(* gone.  (Heirs without a pipe outlive a success, of its group or not.)   *)
OutputWhole ==
  /\ loop = "ok" =>
       \A s \in Streams : kept[s] = Min({Cap, written[s]}) /\ ~Writer(s)
  /\ Done => child = "reaped"
  /\ loop = "failed" => \A heir \in heirs : ~heir.group

(* The caller gets its result, whatever a child that never exits, fills    *)
(* its pipes or leaves them to a daemon of its own does: every loop of the *)
(* daemon that runs a command goes on.                                     *)
CommandEnds == <>Done
=============================================================================
