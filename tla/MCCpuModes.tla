----------------------------- MODULE MCCpuModes -----------------------------
(* Instance of CpuModes: all three engines.                                *)
EXTENDS CpuModes
MCEngines == {"interpreter", "x86", "sh4"}
=============================================================================
