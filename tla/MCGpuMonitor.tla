---------------------------- MODULE MCGpuMonitor -----------------------------
(* GpuMonitor with the temperature and one field that no fan curve needs,  *)
(* and lifetimes of one tick.                                              *)
EXTENDS GpuMonitor

MCFields == {"temp", "power"}
=============================================================================
