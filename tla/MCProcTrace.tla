---------------------------- MODULE MCProcTrace ----------------------------
(* The instance for TLC: four processes and three ids, so that a process   *)
(* can have a thread and an id can come back.                              *)
EXTENDS ProcTrace
=============================================================================
