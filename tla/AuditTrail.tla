----------------------------- MODULE AuditTrail -----------------------------
(***************************************************************************)
(* What the tracer promises as a whole: an audit trail of the operations   *)
(* that touched a monitored file.  Operations are observed one after the   *)
(* other and judged in that order, each once, by the file they touch and   *)
(* the list as it then is.  Those entered in the trail are reported to     *)
(* every output, in the order of the trail, and no operation is judged     *)
(* while an output has not been given the whole trail.  The directory      *)
(* fields of events, the ring buffer and its records, the filters and the  *)
(* steps of a callback are not seen here.                                  *)
(***************************************************************************)
EXTENDS Integers, Sequences

CONSTANTS
  Operations,    \* what may be observed: records of the file touched,
                 \*   whether the tracer itself did it (own) and whether it
                 \*   is of a kind the trail may not leave out (plain)
  FirstWatched,  \* the files monitored at first
  Changing,      \* the files that may be monitored or not
  Outputs        \* where the trail is reported to

VARIABLES
  observed,   \* the operations observed, oldest first
  judged,     \* how many of them have been judged
  watched,    \* the files monitored now
  trail,      \* the places in observed of the operations on monitored files
  reported,   \* reported[o]: what output o has been given of the trail
  running     \* the tracer has not ended

trailVars == <<observed, judged, watched, trail, reported, running>>

TrailInit ==
  /\ observed = <<>>
  /\ judged = 0
  /\ watched = FirstWatched
  /\ trail = <<>>
  /\ reported = [o \in Outputs |-> <<>>]
  /\ running = TRUE

Observe(op) ==
  /\ running
  /\ ~op.own
  /\ observed' = Append(observed, op)
  /\ UNCHANGED <<judged, watched, trail, reported, running>>

NothingToReport == \A o \in Outputs : reported[o] = trail

Subject == observed[judged + 1]

Judge ==
  /\ running
  /\ NothingToReport
  /\ judged < Len(observed)
  /\ judged' = judged + 1
  /\ UNCHANGED <<observed, watched, reported, running>>

(* An operation is entered only if its file is monitored, *)
Enter ==
  /\ Judge
  /\ Subject.file \in watched
  /\ trail' = Append(trail, judged + 1)

(* and a plain one is left out only if it is not.         *)
LeaveOut ==
  /\ Judge
  /\ Subject.plain => Subject.file \notin watched
  /\ UNCHANGED trail

(* The next entry is reported to an output; the tracer may end in doing so. *)
Report(o) ==
  /\ running
  /\ Len(reported[o]) < Len(trail)
  /\ reported' = [reported EXCEPT ![o] = Append(@, trail[Len(@) + 1])]
  /\ running' \in BOOLEAN
  /\ UNCHANGED <<observed, judged, watched, trail>>

ChangeWatched(file) ==
  /\ running
  /\ watched' \in {watched \cup {file}, watched \ {file}}
  /\ UNCHANGED <<observed, judged, trail, reported, running>>

TrailNext ==
  \/ \E op \in Operations : Observe(op)
  \/ Enter
  \/ LeaveOut
  \/ \E o \in Outputs : Report(o)
  \/ \E file \in Changing : ChangeWatched(file)

TrailSpec == TrailInit /\ [][TrailNext]_trailVars
=============================================================================
