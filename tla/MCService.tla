----------------------------- MODULE MCService -----------------------------
(* The instance for TLC: two processes, so that a scan has more than one   *)
(* key and one process can stay active while the other is idle.            *)
EXTENDS Service
=============================================================================
