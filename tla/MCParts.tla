------------------------------ MODULE MCParts --------------------------------
(* The parts that keep a state of their own and share none: of victus-hw   *)
(* the two meters, the queries of the GPU, one command, the cpufreq        *)
(* limits, the voltage offsets and the power limits; the way of the        *)
(* readings to the window; and the editor of a fan curve.  A behaviour     *)
(* runs one of them, and the others rest: their product would only         *)
(* multiply the states.                                                    *)
EXTENDS CpuMeters, NvidiaSource, Command, Tuning, Telemetry, CurveEditor

MCSmiFields == {"temp", "power"}
MCOffsets == {-251, -250, -125, -1, 0}
MCNoRange == [min |-> 0, max |-> 0]
MCRanges == {MCNoRange, [min |-> 15000000, max |-> 45000000], [min |-> 15001000, max |-> 0]}
MCKeys == {"fan", "gpu"}
MCGpuKeys == {"gpu"}
MCPageKeys == [home |-> {"fan", "gpu"}, keyboard |-> {}]
MCFileTemps == {-1, 0, 2, 4, 5}
MCHardwares == {[gauges |-> MCKeys, dark |-> FALSE],
                [gauges |-> {"gpu"}, dark |-> TRUE]}

VARIABLE part

vars == <<part, metersVars, sourceVars, commandVars, tuningVars, telemetryVars,
          editorVars>>

Parts == {"rapl", "stat", "source", "command", "frequency", "offsets",
          "limits", "telemetry", "editor"}

Init ==
  /\ part \in Parts
  /\ MetersInit /\ SourceInit /\ CommandInit /\ TuningInit /\ TelemetryInit
  /\ EditorInit
  /\ part # "rapl" => present = {} /\ counter = [p \in Packages |-> 0]
  /\ part # "frequency" =>
       \A p \in CpuPolicies : requests[p] = [min |-> 1, max |-> 1]
  /\ \A p \in PowerPackages :
       regulator.value[[name |-> "enabled", package |-> p]] = IF p = 0 THEN 0 ELSE NoFile
  /\ part # "limits" => regulator.range = MCNoRange
  /\ part # "telemetry" => page = "home" /\ ~hardware.dark
  /\ part # "editor" => tidy /\ points = Normalize(<<>>)

Next ==
  /\ UNCHANGED part
  /\ \/ /\ \/ part = "rapl" /\ RaplNext
           \/ part = "stat" /\ StatNext
        /\ UNCHANGED <<sourceVars, commandVars, tuningVars, telemetryVars, editorVars>>
     \/ /\ part = "source" /\ SourceNext
        /\ UNCHANGED <<metersVars, commandVars, tuningVars, telemetryVars, editorVars>>
     \/ /\ part = "command" /\ CommandNext
        /\ UNCHANGED <<metersVars, sourceVars, tuningVars, telemetryVars, editorVars>>
     \/ /\ \/ part = "frequency" /\ FrequencyNext
           \/ part = "offsets" /\ MailboxNext(OffsetPlans)
           \/ part = "limits" /\ MailboxNext(LimitPlans)
        /\ UNCHANGED <<metersVars, sourceVars, commandVars, telemetryVars, editorVars>>
     \/ /\ part = "telemetry" /\ TelemetryNext
        /\ UNCHANGED <<metersVars, sourceVars, commandVars, tuningVars, editorVars>>
     \/ /\ part = "editor" /\ EditorNext
        /\ UNCHANGED <<metersVars, sourceVars, commandVars, tuningVars, telemetryVars>>

(* The thread that waits for a command runs, and time passes.  The thread  *)
(* of the readings runs, the main thread comes back to its loop and sees   *)
(* the byte in its pipe, and time passes.                                  *)
Fairness ==
  /\ WF_commandVars(part = "command" /\ Caller)
  /\ WF_commandVars(part = "command" /\ TimePasses)
  /\ WF_telemetryVars(part = "telemetry" /\ Thread)
  /\ WF_telemetryVars(part = "telemetry" /\ NotifySensors)
  /\ SF_telemetryVars(part = "telemetry" /\ woken /\ OnTick /\ ~woken')
  /\ WF_telemetryVars(part = "telemetry" /\ Expires)

FairSpec == Init /\ [][Next]_vars /\ Fairness

(* CommandEnds, of the behaviours that run a command                       *)
CommandsEnd == part = "command" => CommandEnds

(* PageServed and NothingForNobody, of the behaviours with a window        *)
WindowServed == part = "telemetry" => PageServed /\ NothingForNobody
=============================================================================
