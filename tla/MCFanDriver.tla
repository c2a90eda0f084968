----------------------------- MODULE MCFanDriver -----------------------------
(* FanDriver with the driver's 90 s and 5 s and the firmware's 120 s, in   *)
(* ticks of five seconds.                                                  *)
EXTENDS FanDriver

MCDelay == 90 \div 5
MCRetry == 5 \div 5
MCFirmwareTimeout == 120 \div 5
=============================================================================
