---------------------------- MODULE DurableList ----------------------------
(***************************************************************************)
(* What POST /filetrace promises its clients: a list that is changed one   *)
(* request at a time and stored.  A request is acknowledged in the very    *)
(* step that stores its change, together with every change that was made   *)
(* before and not undone by a crash; one that is not acknowledged may or   *)
(* may not be stored later.  There is one exception, which the clients are *)
(* not told of: the write is not checked, so that the step may leave       *)
(* nothing readable stored, neither the change nor what was stored before, *)
(* and acknowledge the request all the same.  After the process ended it   *)
(* goes on from what is stored, and not at all when that is unreadable.    *)
(* How a change gets there, and that requests overlap, is not seen here.   *)
(***************************************************************************)
EXTENDS Integers

CONSTANT Items

VARIABLES
  running,   \* the process that keeps the list is there
  list,      \* the list it works with
  stored,    \* the list that is stored
  readable,  \*   unless it was cut short
  requests,  \* the number of requests taken
  acked      \* those that were acknowledged

durableVars == <<running, list, stored, readable, requests, acked>>

DurableInit ==
  /\ running = TRUE
  /\ stored = list
  /\ readable = TRUE
  /\ requests = 0
  /\ acked = {}

Take(changed) ==
  /\ running
  /\ list' = changed
  /\ requests' = requests + 1
  /\ UNCHANGED <<running, stored, readable, acked>>

(* Only the last request taken can be acknowledged: they do not overtake.  *)
(* The second case is the lost write of the exception.                     *)
Acknowledge ==
  /\ running
  /\ requests \notin acked
  /\ requests # 0
  /\ \/ stored' = list /\ readable' = TRUE
     \/ stored' = {} /\ readable' = FALSE
  /\ acked' = acked \cup {requests}
  /\ UNCHANGED <<running, list, requests>>

End ==
  /\ running
  /\ running' = FALSE
  /\ list' = {}
  /\ UNCHANGED <<stored, readable, requests, acked>>

Resume ==
  /\ ~running
  /\ readable
  /\ running' = TRUE
  /\ list' = stored
  /\ UNCHANGED <<stored, readable, requests, acked>>

DurableNext ==
  \/ \E x \in Items : Take(list \cup {x}) \/ Take(list \ {x})
  \/ Acknowledge \/ End \/ Resume

DurableSpec == DurableInit /\ [][DurableNext]_durableVars
=============================================================================
