------------------------------ MODULE Presence ------------------------------
(***************************************************************************)
(* What the exporter promises to who reads its series: a board of the      *)
(* processes that touched monitored files lately.  A process is put up     *)
(* only by an event of its own and taken down alone, and not before it may *)
(* have been quiet for Timeout seconds, by a clock that is read up to      *)
(* Delay seconds early.  Only the end of the tracer clears the board.      *)
(* Threads, locks, scans and the noted times are not seen here.            *)
(***************************************************************************)
EXTENDS Integers

CONSTANTS
  Processes,  \* who can be on the board
  Timeout,    \* seconds of quiet after which one may be taken down
  Delay,      \* how early the clock may be read
  Longest     \* seconds of quiet beyond which nothing is told apart

VARIABLES
  shown,   \* who is on the board
  quiet    \* quiet[p]: seconds since the last event of p

boardVars == <<shown, quiet>>

Cleared(board, ages) == board = {} /\ ages = [p \in Processes |-> Longest]

BoardInit == Cleared(shown, quiet)

Act(p) ==
  /\ shown' = shown \cup {p}
  /\ quiet' = [quiet EXCEPT ![p] = 0]

Second ==
  /\ quiet' = [p \in Processes |-> IF quiet[p] < Longest THEN quiet[p] + 1 ELSE Longest]
  /\ UNCHANGED shown

TakeDown(p) ==
  /\ p \in shown
  /\ quiet[p] + Delay > Timeout
  /\ shown' = shown \ {p}
  /\ UNCHANGED quiet

End == Cleared(shown', quiet')

BoardNext == Second \/ End \/ \E p \in Processes : Act(p) \/ TakeDown(p)

BoardSpec == BoardInit /\ [][BoardNext]_boardVars
=============================================================================
