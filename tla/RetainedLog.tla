----------------------------- MODULE RetainedLog -----------------------------
(***************************************************************************)
(* What the event cache promises the clients of GET /monitor_file_status:  *)
(* reported events form a log of which the most recent Capacity are        *)
(* retained; a request is given a run of the oldest retained events, never *)
(* one that an earlier request was given or that fell out of the window,   *)
(* and it is told there is nothing only when nothing is retained.          *)
(***************************************************************************)
EXTENDS Integers, Sequences

CONSTANTS Reports, Clients, Capacity

VARIABLES
  log,      \* every event reported, oldest first
  cursor,   \* log[1..cursor] has been handed out or has fallen out
  answer,   \* answer[c]: the events being returned to client c
  serving   \* the clients that are being answered

logVars == <<log, cursor, answer, serving>>

MaxOf(a, b) == IF a >= b THEN a ELSE b
MinOf(a, b) == IF a <= b THEN a ELSE b

LogInit ==
  /\ log = <<>>
  /\ cursor = 0
  /\ answer = [c \in Clients |-> <<>>]
  /\ serving = {}

Report(e) ==
  /\ log' = Append(log, e)
  /\ cursor' = MaxOf(cursor, Len(log) + 1 - Capacity)
  /\ UNCHANGED <<answer, serving>>

(* A client is given the next k retained events, at least one if there is one. *)
Collect(c, k) ==
  /\ c \notin serving
  /\ k \in 0..(Len(log) - cursor)
  /\ k = 0 => cursor = Len(log)
  /\ answer' = [answer EXCEPT ![c] = SubSeq(log, cursor + 1, cursor + k)]
  /\ serving' = serving \cup {c}
  /\ cursor' = cursor + k
  /\ UNCHANGED log

Finish(c) ==
  /\ c \in serving
  /\ serving' = serving \ {c}
  /\ answer' = [answer EXCEPT ![c] = <<>>]
  /\ UNCHANGED <<log, cursor>>

LogNext ==
  \/ \E e \in Reports : Report(e)
  \/ \E c \in Clients : Finish(c) \/ \E k \in 0..(Len(log) - cursor) : Collect(c, k)

LogSpec == LogInit /\ [][LogNext]_logVars
=============================================================================
