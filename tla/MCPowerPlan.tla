----------------------------- MODULE MCPowerPlan -----------------------------
(* PowerPlan with two clients, two enabled policies with intervals of one  *)
(* and two ticks and one that is off, and two frequency limits.            *)
EXTENDS PowerPlan, TLC

CONSTANTS off, short, long

MCPolicies == {off, short, long}
MCEnabled == {short, long}
MCInterval == off :> 1 @@ short :> 1 @@ long :> 2
=============================================================================
