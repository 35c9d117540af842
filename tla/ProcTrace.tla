----------------------------- MODULE ProcTrace -----------------------------
(***************************************************************************)
(* The process trace of a report: the hooks that note each exec's parent   *)
(* in exec_map (filetrace.bpf.c), and the walk of generate_proc_trace from *)
(* a process to its ancestors, through exec_map and, where that has no     *)
(* entry, /proc/<id>/stat (post.cpp).  Forks, threads, exits and the reuse *)
(* of ids are the kernel's and happen at any time, also during a walk.     *)
(*                                                                         *)
(* A process is known by its place in procs, the order of birth; its ids   *)
(* are given to others when it is gone.  Command names are left out.       *)
(***************************************************************************)
EXTENDS Integers, Sequences, FiniteSets

CONSTANTS
  Ids,       \* the ids the kernel gives to processes and threads
  MapSize,   \* max_entries of exec_map
  MaxProcs   \* bound of the model on the number of processes born

Init1 == 1   \* the id of the first process, which has no parent
NoId  == 0   \*   and what stands for its parent's

ASSUME ProcTraceAssumption ==
  /\ Ids \subseteq Nat \ {0}
  /\ Init1 \in Ids
  /\ MapSize \in Nat
  /\ MaxProcs \in Nat \ {0}

VARIABLES
  procs,      \* every process born, oldest first
  exec_map,   \* exec_map[id]: the id noted for the parent
  walk,       \* the walk under way, or what became of the last one
  reused      \* history: some id has been given out twice

vars == <<procs, exec_map, walk, reused>>

(* Of a process: the thread group id and another thread's, the ids it has  *)
(* ever had, its parent and that parent's thread, and every parent it had. *)
Process(id, parent, via) ==
  [tgid |-> id, thread |-> NoId, had |-> {id}, alive |-> TRUE,
   parent |-> parent, via |-> via, parents |-> {parent}]

Births       == DOMAIN procs
Threads(b)   == IF procs[b].alive THEN {procs[b].tgid, procs[b].thread} \ {NoId} ELSE {}
Taken        == UNION {Threads(b) : b \in Births}
Given        == UNION {procs[b].had : b \in Births}
(* The process an id belonged to, which reuse makes ambiguous.             *)
Owner(id)    == CHOOSE b \in Births : id \in procs[b].had

(* The walk is at an id; "open" has its stat file open, for process of.    *)
Idle == [state |-> "idle", at |-> NoId, of |-> 0, last |-> NoId]

Init ==
  /\ procs = <<Process(Init1, 0, NoId)>>
  /\ exec_map = << >>
  /\ walk = Idle
  /\ reused = FALSE
-----------------------------------------------------------------------------
(* The kernel (external).  A child's real_parent is the thread that forks. *)
Give(id) == id \notin Taken /\ reused' = (reused \/ id \in Given)

Fork(b, t, id) ==
  /\ t \in Threads(b)
  /\ Len(procs) < MaxProcs
  /\ Give(id)
  /\ procs' = Append(procs, Process(id, b, t))
  /\ UNCHANGED <<exec_map, walk>>

Clone(b, id) ==
  /\ procs[b].alive
  /\ procs[b].thread = NoId
  /\ Give(id)
  /\ procs' = [procs EXCEPT ![b].thread = id, ![b].had = @ \cup {id}]
  /\ UNCHANGED <<exec_map, walk>>

(* The children of a thread that ends go to the first thread, those of a   *)
(* process that ends to the first process.                                 *)
EndThread(b) ==
  /\ procs[b].thread # NoId
  /\ procs' = [c \in Births |->
       IF c = b THEN [procs[c] EXCEPT !.thread = NoId]
       ELSE IF procs[c].parent = b THEN [procs[c] EXCEPT !.via = procs[b].tgid]
       ELSE procs[c]]
  /\ UNCHANGED <<exec_map, walk, reused>>

EndProcess(b) ==
  /\ procs[b].alive
  /\ b # 1
  /\ procs' = [c \in Births |->
       IF c = b THEN [procs[c] EXCEPT !.alive = FALSE, !.thread = NoId]
       ELSE IF procs[c].parent = b
         THEN [procs[c] EXCEPT !.parent = 1, !.via = Init1, !.parents = @ \cup {1}]
       ELSE procs[c]]
  /\ UNCHANGED <<exec_map, walk, reused>>

(* Faulty versions, named Bad..., stand before what they replace: no action *)
(* uses them; they are there to show that the properties would notice.      *)
BadNoted(b) == procs[b].tgid

(* What an exec hook notes for process b: the id of its parent's thread.   *)
Noted(b) == procs[b].via

Entered(id, parent) ==
  [i \in DOMAIN exec_map \cup {id} |-> IF i = id THEN parent ELSE exec_map[i]]

BadUpdateMap(id, parent) == exec_map' = Entered(id, parent)

(* A new entry does not go into a full map; nothing ever removes one.      *)
UpdateMap(id, parent) ==
  exec_map' = IF id \in DOMAIN exec_map \/ Cardinality(DOMAIN exec_map) < MapSize
              THEN Entered(id, parent)
              ELSE exec_map

(* enter_execve and sched_process_exec note the same, under the tgid.      *)
Exec(b) ==
  /\ procs[b].alive
  /\ UpdateMap(procs[b].tgid, Noted(b))
  /\ UNCHANGED <<procs, walk, reused>>
-----------------------------------------------------------------------------
(* generate_proc_trace for an event of process b, which may be gone.       *)
StartWalk(b) ==
  /\ walk.state = "idle"
  /\ procs[b].tgid > 1
  /\ walk' = [state |-> "next", at |-> procs[b].tgid, of |-> 0, last |-> NoId]
  /\ UNCHANGED <<procs, exec_map, reused>>

(* The id is listed, and the walk goes on with the parent's. *)
List(parent) ==
  walk' = [state |-> "next", at |-> parent, of |-> 0, last |-> walk.at]

FromMap ==
  /\ walk.state = "next"
  /\ walk.at \in DOMAIN exec_map
  /\ List(exec_map[walk.at])
  /\ UNCHANGED <<procs, exec_map, reused>>

BadOpenStat ==
  /\ walk.state = "next"
  /\ walk.at # NoId
  /\ walk.at \notin DOMAIN exec_map
  /\ walk.at \in Taken
  /\ walk' = [walk EXCEPT !.state = "open",
                          !.of = CHOOSE b \in Births : walk.at \in Threads(b)]
  /\ UNCHANGED <<procs, exec_map, reused>>

(* The stat file of any thread can be opened; no such thread: the walk ends. *)
OpenStat ==
  /\ walk.state = "next"
  /\ walk.at # NoId
  /\ walk.at \notin DOMAIN exec_map
  /\ IF walk.at \in Taken
       THEN walk' = [walk EXCEPT !.state = "open",
                                 !.of = CHOOSE b \in Births : walk.at \in Threads(b)]
       ELSE walk' = Idle
  /\ UNCHANGED <<procs, exec_map, reused>>

BadParentOf(b) == procs[b].tgid

(* The fourth field of the stat file. *)
ParentOf(b) == IF b = 1 THEN NoId ELSE procs[procs[b].parent].tgid

(* It is read, unless the thread ended meanwhile: then the line is empty,  *)
(* split_stat_line throws, and nothing catches that.                       *)
ReadStat ==
  /\ walk.state = "open"
  /\ IF walk.at \in Threads(walk.of)
       THEN List(ParentOf(walk.of))
       ELSE walk' = [Idle EXCEPT !.state = "thrown"]
  /\ UNCHANGED <<procs, exec_map, reused>>

EndWalk ==
  /\ walk.state = "next"
  /\ walk.at = NoId
  /\ walk' = Idle
  /\ UNCHANGED <<procs, exec_map, reused>>

WalkStep == FromMap \/ OpenStat \/ ReadStat \/ EndWalk

KernelStep ==
  \E b \in Births :
    \/ \E id \in Ids : Clone(b, id) \/ \E t \in Ids : Fork(b, t, id)
    \/ EndThread(b) \/ EndProcess(b) \/ Exec(b)

Next == KernelStep \/ (\E b \in Births : StartWalk(b)) \/ WalkStep

Spec     == Init /\ [][Next]_vars
LiveSpec == Spec /\ WF_vars(WalkStep)
-----------------------------------------------------------------------------
ProcessType ==
  [tgid : Ids, thread : Ids \cup {NoId}, had : SUBSET Ids, alive : BOOLEAN,
   parent : Nat, via : Ids \cup {NoId}, parents : SUBSET Nat]

WalkType ==
  [state : {"idle", "next", "open", "thrown"}, at : Ids \cup {NoId}, of : Nat,
   last : Ids \cup {NoId}]

TypeOK ==
  /\ procs \in Seq(ProcessType)
  /\ DOMAIN exec_map \subseteq Ids
  /\ Cardinality(DOMAIN exec_map) <= MapSize
  /\ exec_map \in [DOMAIN exec_map -> Ids \cup {NoId}]
  /\ walk \in WalkType
  /\ walk.state = "open" => walk.of \in Births
  /\ reused \in BOOLEAN

(* As long as no id is reused, each id in a trace is one that a parent, at  *)
(* some time, of the process before it has had: the walk never strays into *)
(* another family, although it mixes entries of different times, thread    *)
(* ids and process ids, and what /proc says now (generate_proc_trace).     *)
TraceIsLineage ==
  ~reused /\ walk.last # NoId =>
    LET parents == procs[Owner(walk.last)].parents
    IN  IF walk.at = NoId THEN parents = {0} ELSE Owner(walk.at) \in parents

(* As long as no id is reused, each process listed is older than the one   *)
(* listed before it, and whatever forks, execs, ends or is adopted while   *)
(* the walk stands at an id, that id goes on to mean the same process: the *)
(* loop of generate_proc_trace turns at most once for each process born up *)
(* to the one it starts from.                                              *)
WalkClimbs ==
  [][~reused' /\ walk.at # NoId /\ walk'.at # NoId =>
       IF UNCHANGED <<walk.at, walk.last>>
         THEN Owner(walk.at)' = Owner(walk.at)
         ELSE Owner(walk.at)' < Owner(walk.at)]_vars

(* Where a walk goes from an id as things stand, and the ids from which it *)
(* goes round for ever.                                                    *)
Above(id) ==
  IF id \in DOMAIN exec_map THEN exec_map[id]
  ELSE IF id \in Taken THEN ParentOf(CHOOSE b \in Births : id \in Threads(b))
  ELSE NoId

Trapped(id) == \E C \in SUBSET Ids : id \in C /\ \A i \in C : Above(i) \in C

(* Only reused ids can close such a ring (exec_map, never cleaned).        *)
RingsNeedReuse == ~reused => \A id \in Ids : ~Trapped(id)

(* Every walk ends, unless it meets a ring: the polling thread, which      *)
(* walks for every event it sends, goes on (generate_proc_trace).          *)
WalkEnds ==
  walk.state \in {"next", "open"} ~>
    walk.state \notin {"next", "open"} \/ Trapped(walk.at)
=============================================================================
