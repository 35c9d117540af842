------------------------------ MODULE Pipeline ------------------------------
(***************************************************************************)
(* The path of an event from the kernel to its consumers: the hooks and    *)
(* the ring buffer (Tracer), the one thread that polls the ring and runs   *)
(* handle_event / process_event for each record (filetrace.cpp, post.cpp), *)
(* the event cache with its HTTP workers (EventQueue) and the requests     *)
(* that change the monitored list while events are being handled.          *)
(*                                                                         *)
(* pc says where the polling thread is: in "poll" between two callbacks,   *)
(* in "send", "post" or "cache" inside the callback for record consumed+1, *)
(* and "down" once an exception left the callback and ended the process.   *)
(***************************************************************************)
EXTENDS Tracer

CONSTANTS
  Clients, Counts, MaxQueue, DefaultCount, CacheData, Publish, \* see EventQueue
  Verbose,          \* started with -f: print only
  MonitorFile,      \*   the path given with -f
  InitialList,      \* conf_list as loaded at start
  ListChanges,      \* paths that requests add and remove
  SkipProcesses,    \* skip_processes
  DotNames          \* the names that begin with a dot

ASSUME PipelineAssumption ==
  /\ Counts \subseteq Int
  /\ MaxQueue \in Nat \ {0}
  /\ DefaultCount \in Nat \ {0}
  /\ {CacheData, Publish, Verbose} \subseteq BOOLEAN
  /\ MonitorFile \in Path
  /\ InitialList \cup ListChanges \subseteq Path

VARIABLES
  event_queue, cached, serving, batch, delivered, spoiled,   \* see EventQueue
  pc,          \* where the polling thread is
  conf_list,   \* the monitored list; only membership is ever asked of it
  accepted,    \* records is_valid_event let through, in order, each with
               \*   the list it was compared with: a Seq of [id, list]
  rejected,    \* the ones it refused: a set of [id, list]
  metered,     \* records counted by set_metrics, in order
  posted,      \* records whose POST has returned, in order
  logged       \* rejected records that wrote to the log file

Q == INSTANCE EventQueue WITH MaxEvents <- MaxRecords

queueVars == <<event_queue, cached, serving, batch, delivered, spoiled>>
dispVars  == <<pc, conf_list, accepted, rejected, metered, posted, logged>>
vars      == <<tracerVars, queueVars, dispVars>>

Idle == pc = "poll"
Up   == pc # "down"

Init ==
  /\ TracerInit
  /\ Q!QueueInit
  /\ pc = "poll"
  /\ conf_list = InitialList
  /\ accepted = <<>>
  /\ rejected = {}
  /\ metered = <<>>
  /\ posted = <<>>
  /\ logged = {}
-----------------------------------------------------------------------------
(* is_valid_filename: not empty, no leading dot. *)
IsValidFilename(name) == name # <<>> /\ name[1] \notin DotNames

(* Faulty versions, named Bad..., stand before what they replace: no action *)
(* uses them; they are there to show that the properties would notice.      *)
BadCompareConfigFile(path, list) ==
  IF Verbose THEN path = MonitorFile ELSE path # <<>> /\ path \in list

(* compare_config_file, with config_mutex held while the list is read. *)
CompareConfigFile(path, list) ==
  \/ Verbose /\ path = MonitorFile
  \/ path # <<>> /\ path \in list

(* is_valid_event up to the switch: no path has been looked at yet.        *)
(* match_process_name compares what follows the last slash of a command    *)
(* name; the names here stand for that part.                               *)
PassesFilters(e) ==
  IsValidFilename(e.name) /\ e.pid # 0 /\ e.comm \notin SkipProcesses

(* The string the switch compares: the rebuilt path for files and unlinkat, *)
(* the raw new path for a rename; every other syscall is rejected.          *)
ComparedPath(e) ==
  IF e.op \in RenameOps THEN e.name ELSE GetFullPath(e.dirs, e.name)

IsValidEvent(e, list) ==
  /\ PassesFilters(e)
  /\ e.op # "openat"
  /\ CompareConfigFile(ComparedPath(e), list)

(* get_full_path logs the path it built, and compare_config_file what it   *)
(* compares in verbose mode, whatever the verdict will be.                 *)
JudgingLogs(e) ==
  PassesFilters(e) /\ e.op # "openat" /\ (Verbose \/ e.op \notin RenameOps)

(* The object cache_event builds.  convert_to_string, before it, has dumped *)
(* cmd and the compared path; what only the cached object holds is the old  *)
(* name of a rename and, for renameat2, the directory fields: oldutf8 is    *)
(* about all of these.                                                      *)
ReportOf(i) == [id |-> i, utf8 |-> recs[i].ev.cmdutf8 /\ recs[i].ev.oldutf8]

Current == consumed + 1

Verdict == [id |-> Current, list |-> conf_list]
-----------------------------------------------------------------------------
(* The hooks, while the programs are attached. *)
HookStarts(t, c) ==
  /\ Up
  /\ Reserve(t, c)
  /\ UNCHANGED <<queueVars, dispVars>>

HookEnds(t) ==
  /\ Up
  /\ Submit(t) \/ Discard(t)
  /\ UNCHANGED <<queueVars, dispVars>>

Skip ==
  /\ Idle
  /\ SkipDiscarded
  /\ UNCHANGED <<queueVars, dispVars>>

(* process_event on an event that is_valid_event refuses. *)
Reject ==
  /\ Idle
  /\ HeadIs("ready")
  /\ ~IsValidEvent(HeadEvent, conf_list)
  /\ rejected' = rejected \cup {Verdict}
  /\ logged' = IF JudgingLogs(HeadEvent) THEN logged \cup {Current} ELSE logged
  /\ Release
  /\ UNCHANGED <<queueVars, pc, conf_list, accepted, metered, posted>>

BadPrintGoesOn ==
  /\ Idle
  /\ HeadIs("ready")
  /\ IsValidEvent(HeadEvent, conf_list)
  /\ Verbose
  /\ accepted' = Append(accepted, Verdict)
  /\ pc' = "send"
  /\ UNCHANGED <<tracerVars, queueVars, conf_list, rejected, metered, posted, logged>>

(* process_event in verbose mode: the accepted event is printed, no more. *)
PrintEvent ==
  /\ Idle
  /\ HeadIs("ready")
  /\ IsValidEvent(HeadEvent, conf_list)
  /\ Verbose
  /\ accepted' = Append(accepted, Verdict)
  /\ Release
  /\ UNCHANGED <<queueVars, pc, conf_list, rejected, metered, posted, logged>>

(* The record given back as soon as the event is accepted, and used after. *)
BadAcceptReleases ==
  /\ Idle
  /\ HeadIs("ready")
  /\ IsValidEvent(HeadEvent, conf_list)
  /\ ~Verbose
  /\ accepted' = Append(accepted, Verdict)
  /\ pc' = "send"
  /\ Release
  /\ UNCHANGED <<queueVars, conf_list, rejected, metered, posted, logged>>

(* process_event otherwise: the event is validated once, here. *)
Accept ==
  /\ Idle
  /\ HeadIs("ready")
  /\ IsValidEvent(HeadEvent, conf_list)
  /\ ~Verbose
  /\ accepted' = Append(accepted, Verdict)
  /\ pc' = "send"
  /\ UNCHANGED <<tracerVars, queueVars, conf_list, rejected, metered, posted, logged>>

(* An exception that is caught and dropped: the event stays half sent.     *)
BadSendSwallows ==
  /\ pc = "send"
  /\ metered' = Append(metered, Current)
  /\ IF HeadEvent.cmdutf8
       THEN pc' = (IF Publish THEN "post" ELSE "cache") /\ UNCHANGED tracerVars
       ELSE pc' = "poll" /\ Release
  /\ UNCHANGED <<queueVars, conf_list, accepted, rejected, posted, logged>>

(* send up to the POST: set_metrics, print_event, convert_to_string.  dump  *)
(* throws on a command name that is not UTF-8; nothing catches it and the   *)
(* process ends.                                                            *)
Send ==
  /\ pc = "send"
  /\ metered' = Append(metered, Current)
  /\ pc' = IF ~HeadEvent.cmdutf8 THEN "down"
           ELSE IF Publish THEN "post" ELSE "cache"
  /\ UNCHANGED <<tracerVars, queueVars, conf_list, accepted, rejected, posted, logged>>

(* Returning as soon as publishing failed, before the event is cached. *)
BadPostReturns ==
  /\ pc = "post"
  /\ posted' = Append(posted, Current)
  /\ \/ pc' = "cache" /\ UNCHANGED tracerVars
     \/ pc' = "poll" /\ Release
  /\ UNCHANGED <<queueVars, conf_list, accepted, rejected, metered, logged>>

(* Caching where publishing fails, and again when send has returned. *)
BadPostCaches ==
  /\ pc = "post"
  /\ posted' = Append(posted, Current)
  /\ pc' = "cache"
  /\ Q!CacheEvent(ReportOf(Current)) \/ UNCHANGED queueVars
  /\ UNCHANGED <<tracerVars, conf_list, accepted, rejected, metered, logged>>

(* curl_easy_perform returns; the result is logged and dropped. *)
PostReturns ==
  /\ pc = "post"
  /\ posted' = Append(posted, Current)
  /\ pc' = "cache"
  /\ UNCHANGED <<tracerVars, queueVars, conf_list, accepted, rejected, metered, logged>>

(* cache_event, and the return to the ring buffer library. *)
Cache ==
  /\ pc = "cache"
  /\ Q!CacheEvent(ReportOf(Current))
  /\ pc' = "poll"
  /\ Release
  /\ UNCHANGED <<conf_list, accepted, rejected, metered, posted, logged>>

(* A POST /filetrace request, while another thread is in the callback or   *)
(* not: only what is_valid_event can see of it.                            *)
UpdateList(path) ==
  /\ Up /\ Publish
  /\ \/ conf_list' = conf_list \cup {path}
     \/ conf_list' = conf_list \ {path}
  /\ UNCHANGED <<tracerVars, queueVars, pc, accepted, rejected, metered,
                 posted, logged>>

Request(c) ==
  /\ Up
  /\ \E n \in Counts : Q!Pop(c, n)
  /\ UNCHANGED <<tracerVars, dispVars>>

Answer(c) ==
  /\ Up
  /\ Q!Respond(c)
  /\ UNCHANGED <<tracerVars, dispVars>>

Dispatch == Skip \/ Reject \/ PrintEvent \/ Accept \/ Send \/ Cache

Next ==
  \/ \E t \in Tasks : (\E c \in Calls : HookStarts(t, c)) \/ HookEnds(t)
  \/ Dispatch
  \/ PostReturns
  \/ \E path \in ListChanges : UpdateList(path)
  \/ \E c \in Clients : Request(c) \/ Answer(c)

(* A BPF program runs to its end; the polling thread keeps calling          *)
(* ring_buffer__poll, config_mutex and event_queue_mutex are given back to  *)
(* it, and the ancestors generate_proc_trace walks up are taken to end.     *)
(* Nothing makes the peer of a POST answer: no timeout is set on the        *)
(* transfer, so PostReturns has no fairness.                                *)
Fairness ==
  /\ \A t \in Tasks : WF_vars(HookEnds(t))
  /\ WF_vars(Dispatch)

Spec     == Init /\ [][Next]_vars
LiveSpec == Spec /\ Fairness
-----------------------------------------------------------------------------
VerdictType == [id : 1..MaxRecords, list : SUBSET Path]

TypeOK ==
  /\ recs \in Seq(RecordType) /\ Len(recs) <= MaxRecords
  /\ consumed \in 0..Len(recs) /\ Len(recs) - consumed <= RingSlots
  /\ hook \in [Tasks -> 0..Len(recs)]
  /\ Q!QueueTypeOK
  /\ pc \in {"poll", "send", "post", "cache", "down"}
  /\ ~Idle => HeadIs("ready")
  /\ conf_list \subseteq Path
  /\ accepted \in Seq(VerdictType)
  /\ rejected \subseteq VerdictType
  /\ metered \in Seq(1..MaxRecords)
  /\ posted \in Seq(1..MaxRecords)
  /\ logged \subseteq 1..MaxRecords

Ids(s) == [k \in 1..Len(s) |-> s[k].id]

(* Every output sees the accepted events, all of them, in the same order,  *)
(* each once and no others: between two callbacks the exporter has counted, *)
(* the remote service been sent, and the cache been given exactly the       *)
(* accepted sequence; inside a callback only the current event may be       *)
(* missing, from the outputs not reached yet.  An output that is switched   *)
(* off, and every output in verbose mode, sees nothing (process_event).     *)
EffectsFollow ==
  LET upTo(done, enabled, out) ==
        IF Verbose \/ ~enabled THEN out = <<>>
        ELSE Ids(accepted) = IF done THEN out ELSE Append(out, Current)
  IN  /\ upTo(pc # "send", TRUE, metered)
      /\ upTo(pc \in {"poll", "cache"}, Publish, posted)
      /\ upTo(Idle, CacheData, Ids(cached))

(* The last record that has its verdict. *)
Settled == IF Idle THEN consumed ELSE Current

(* Records are settled in the order they were reserved, each exactly once: *)
(* every record the consumer has passed was discarded by its hook, accepted *)
(* or rejected, none was passed while its hook was still writing it, and    *)
(* the accepted ones form an increasing sequence (ring_buffer__poll,        *)
(* process_event).                                                          *)
SettledInOrder ==
  LET ruled   == {accepted[k].id : k \in 1..Len(accepted)}
      refused == {v.id : v \in rejected}
  IN  /\ \A i \in 1..consumed :
           \/ recs[i].state = "discarded"
           \/ recs[i].state = "ready" /\ i \in ruled \cup refused
      /\ ruled \cup refused \subseteq 1..Settled
      /\ ruled \cap refused = {}
      /\ \A k \in 1..Len(accepted), l \in 1..Len(accepted) :
           k < l => accepted[k].id < accepted[l].id

(* The file a call really touches. *)
TargetOf(c) ==
  IF c.op \in FileOps THEN RealPath(c.mount, c.file)
  ELSE IF IsAbsolute(c.arg) THEN c.arg
  ELSE RealPath(c.mount, c.base) \o c.arg

Watched(path, list) == path \in list \/ (Verbose /\ path = MonitorFile)

(* On the root file system, with monitored paths no deeper than MAX_DEPTH, *)
(* the path rebuilt from the truncated directory fields decides as the real *)
(* path would: an accepted event touched a file that was monitored when it  *)
(* was judged, by another process than the tracer, and a write or copy to a *)
(* monitored file by a process that is not skipped is never rejected, even  *)
(* while requests change the list (bpf_create_ringbuf, fill_parent_dirs,    *)
(* fill_dir_chain, get_full_path, is_valid_event).                          *)
CaptureIsExact ==
  /\ \A k \in 1..Len(accepted) :
       LET r == recs[accepted[k].id]
       IN  r.task.tgid # SelfTgid /\ Watched(TargetOf(r.call), accepted[k].list)
  /\ \A v \in rejected :
       LET r == recs[v.id]
       IN  /\ r.call.op \in FileOps
           /\ DName(r.call.file)[1] \notin DotNames
           /\ r.task.comm \notin SkipProcesses
           /\ r.task.tgid # 0
           => ~Watched(TargetOf(r.call), v.list)

(* A call as the audit trail sees it: the file it touches, whether it is   *)
(* one of the tracer's own, and whether it is plain, a write or a copy to  *)
(* an open regular file that no filter of is_valid_event is about.         *)
OperationOf(task, call) ==
  [file  |-> TargetOf(call),
   own   |-> task.tgid = SelfTgid,
   plain |-> /\ call.op \in FileOps
             /\ ~GivesUp(call)
             /\ DName(call.file)[1] \notin DotNames
             /\ task.comm \notin SkipProcesses
             /\ task.tgid # 0]

Monitored == IF Verbose THEN conf_list \cup {MonitorFile} ELSE conf_list

(* What accepted events are given to. *)
EnabledOutputs ==
  IF Verbose THEN {}
  ELSE {"exporter"} \cup (IF Publish THEN {"service"} ELSE {})
                    \cup (IF CacheData THEN {"cache"} ELSE {})

GivenTo(output) ==
  CASE output = "exporter" -> metered
    [] output = "service"  -> posted
    [] output = "cache"    -> Ids(cached)

Observed  == [i \in 1..Len(recs) |-> OperationOf(recs[i].task, recs[i].call)]
Entered   == Ids(accepted)
Reported  == [o \in EnabledOutputs |-> GivenTo(o)]

(* Hooks, ring buffer, polling thread and its outputs together keep the    *)
(* promise of AuditTrail, on the root file system and with monitored paths *)
(* no deeper than MAX_DEPTH: verdicts fall in the order of the calls, one  *)
(* at a time, by the real path and the list of that moment, and the next   *)
(* falls only when every output has the one before, although hooks         *)
(* overlap, requests change the list, and an exception may end the process *)
(* in between (filetrace.bpf.c, process_event, send).                      *)
Trail == INSTANCE AuditTrail WITH
  Operations   <- {OperationOf(t, c) : t \in Tasks, c \in Calls},
  FirstWatched <- IF Verbose THEN InitialList \cup {MonitorFile} ELSE InitialList,
  Changing     <- ListChanges,
  Outputs      <- EnabledOutputs,
  observed     <- Observed,
  judged       <- Settled,
  watched      <- Monitored,
  trail        <- Entered,
  reported     <- Reported,
  running      <- Up

KeepsAuditTrail == Trail!TrailSpec

(* However the polling thread and two requests interleave, no event is     *)
(* given to two requests, and none that was given or evicted is still in   *)
(* the queue: records are cached once each (process_event,                 *)
(* get_events_from_queue).                                                 *)
GivenOnce == Q!HandedOutOnce

(* As long as the peer of every POST answers in the end, every record a     *)
(* hook reserves is taken from the ring, however the hooks of other threads *)
(* overlap with it, or the process has ended (main's polling loop).         *)
AllHandled ==
  []<>(pc # "post") =>
    \A i \in 1..MaxRecords : Len(recs) >= i ~> consumed >= i \/ ~Up
-----------------------------------------------------------------------------
(* What comments and tests of the repository say, and the code does not do. *)

(* tests/test_postdata.cpp:115: a rejected event writes no log entry        *)
(* (get_full_path logs before is_valid_event has decided).                  *)
RejectedAreSilent == logged = {}

(* post.cpp:254: accepted events are cached even when publishing fails      *)
(* (send waits for curl_easy_perform without a limit).                      *)
CachedInTheEnd ==
  \A i \in 1..MaxRecords :
    (\E k \in 1..Len(accepted) : accepted[k].id = i)
      ~> (\E k \in 1..Len(cached) : cached[k].id = i)

(* filetrace.bpf.c:464: user space resolves relative newpath arguments of   *)
(* renameat2 (is_valid_event compares the raw argument).                    *)
RelativeRenameResolved ==
  \A v \in rejected :
    LET r == recs[v.id]
    IN  r.call.op = "renameat2" /\ r.call.base # None /\ r.ev.name # <<>>
        => ~Watched(TargetOf(r.call), v.list)
=============================================================================
