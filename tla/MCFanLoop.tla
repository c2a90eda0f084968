------------------------------ MODULE MCFanLoop ------------------------------
(* FanLoop on a 2.5 degree grid from 80 degrees, at 85 to 90; the GPU      *)
(* is asleep and reads nothing.                                            *)
EXTENDS FanLoop, TLC

MCGrid == 4
MCTemps == {2, 3, 4}
MCHysteresis == 2
MCThreshold == 4
MCRelease == 2

Quiet == [t \in 0..6 |-> IF t < 4 THEN 20 ELSE 30]
Loud == [t \in 0..6 |-> IF t < 4 THEN 20 ELSE 100]

MCCurve == "quiet" :> [s \in Sensors |-> Quiet]
             @@ "loud" :> ("cpu" :> Loud @@ "gpu" :> Quiet)

MCReadings == {r \in Samples : r["gpu"] = None}
MCSeeds == {None, 83}
=============================================================================
