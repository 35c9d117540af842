---------------------------- MODULE MCEventQueue ----------------------------
(* A small instance of the event cache for TLC: two workers, room for      *)
(* three events, five events in all, so that the queue overflows while     *)
(* requests are being answered.  The count parameters cover one in range,  *)
(* the limit, and the two kinds that fall back to the default.             *)
EXTENDS EventQueue

MCCounts == {0, 1, MaxQueue, MaxQueue + 1}
=============================================================================
