------------------------------ MODULE Service ------------------------------
(***************************************************************************)
(* One life of the process after another (main in filetrace.cpp, the       *)
(* constructor and destructor of PostData in post.cpp, those of the        *)
(* exporter in exporter.cpp, and config/gala-filetrace.service, which      *)
(* restarts a process that did not exit with 0), around the exporter's     *)
(* gauges.  Signal handlers run on the main thread, where the kernel       *)
(* delivers a signal sent to the process while that thread takes it, and a *)
(* handler never returns to what it interrupted.                           *)
(***************************************************************************)
EXTENDS GaugeCache

CONSTANT MaxFailures   \* bound of the model on the steps that fail

ASSUME ServiceAssumption == MaxFailures \in Nat

VARIABLES
  main,       \* what the main thread does next, or why there is none
  skel,       \* the BPF skeleton
  exporter,   \* the exporter object: "none", "live" or "deleted"
  failures    \* the steps that have failed so far

serviceVars == <<main, skel, exporter, failures>>
vars        == <<gaugeVars, serviceVars>>

Starting  == {"open", "load", "construct", "attach", "ring"}
Teardown  == {"delete", "join", "destroy", "return"}
Running   == Starting \cup Teardown \cup {"polling", "handler"}

Init ==
  /\ main = "open" /\ skel = "null" /\ exporter = "none" /\ failures = 0
  /\ NoGauges("none")
-----------------------------------------------------------------------------
(* The end of the process takes its threads and its memory with it.        *)
Die(as) ==
  /\ main' = as
  /\ skel' = "null"
  /\ exporter' = "none"
  /\ NoGaugesNext("none")

(* main: open the skeleton and tell it the tracer's own TGID, load it.     *)
Open == main = "open" /\ main' = "load" /\ skel' = "opened"
        /\ UNCHANGED <<exporter, failures, gaugeVars>>
Load == main = "load" /\ main' = "construct" /\ skel' = "loaded"
        /\ UNCHANGED <<exporter, failures, gaugeVars>>

(* PostData's constructor: the exporter comes last, and with it its thread. *)
Construct ==
  /\ main = "construct"
  /\ main' = "attach"
  /\ exporter' = "live"
  /\ NoGaugesNext("testing")
  /\ UNCHANGED <<skel, failures>>

Attach == main = "attach" /\ main' = "ring" /\ skel' = "attached"
          /\ UNCHANGED <<exporter, failures, gaugeVars>>
NewRing == main = "ring" /\ main' = "polling"
           /\ UNCHANGED <<skel, exporter, failures, gaugeVars>>

(* Each may fail: without a skeleton, or by an exception of PostData's     *)
(* constructor, the process just ends; what could not be loaded is         *)
(* destroyed first; and once PostData is there it is deleted before that.  *)
StartFails ==
  /\ main \in Starting
  /\ failures < MaxFailures
  /\ failures' = failures + 1
  /\ IF main \in {"open", "construct"}
       THEN Die("failed")
       ELSE /\ main' = IF main = "load" THEN "destroy" ELSE "delete"
            /\ UNCHANGED <<skel, exporter, gaugeVars>>

(* ring_buffer__poll returns an error, between two callbacks. *)
PollFails ==
  /\ main = "polling"
  /\ setting = Nothing
  /\ failures < MaxFailures
  /\ failures' = failures + 1
  /\ main' = "delete"
  /\ UNCHANGED <<skel, exporter, gaugeVars>>

BadDelete ==
  /\ main = "delete"
  /\ main' = "join"
  /\ UNCHANGED <<skel, exporter, failures, gaugeVars>>

(* delete postdata_i: ~PrometheusExporter tells its thread to stop, *)
Delete ==
  /\ main = "delete"
  /\ main' = "join"
  /\ stop_thread_' = TRUE
  /\ UNCHANGED <<skel, exporter, failures, gauge_cache, gauge_cache_timestamps,
                 info_gauge_family, setting, expiry, todo, idle>>

BadJoin ==
  /\ main = "join"
  /\ main' = "destroy"
  /\ exporter' = "deleted"
  /\ UNCHANGED <<skel, failures, gaugeVars>>

(* and waits for its end before the maps and the mutex are destroyed.      *)
Join ==
  /\ main = "join"
  /\ expiry = "ended"
  /\ main' = "destroy"
  /\ exporter' = "deleted"
  /\ UNCHANGED <<skel, failures, gaugeVars>>

(* main destroys the skeleton, without forgetting it, *)
Destroyed == IF skel \in {"destroyed", "destroyed twice"} THEN "destroyed twice"
             ELSE "destroyed"

Destroy ==
  /\ main = "destroy"
  /\ main' = "return"
  /\ skel' = Destroyed
  /\ UNCHANGED <<exporter, failures, gaugeVars>>

(* and returns the error.                                                  *)
Return ==
  /\ main = "return"
  /\ Die("failed")
  /\ UNCHANGED failures

(* SIGINT or SIGTERM: sig_handler destroys the skeleton, then exit(0); the *)
(* other threads run on in between, and the other signal may interrupt it. *)
Signal ==
  /\ main \in Running
  /\ main' = "handler"
  /\ skel' = IF skel = "null" THEN skel ELSE Destroyed
  /\ UNCHANGED <<exporter, failures, gaugeVars>>
Exit ==
  /\ main = "handler"
  /\ Die("stopped")
  /\ UNCHANGED failures

(* An exception nothing catches ends the process in a callback. *)
Abort ==
  /\ main = "polling"
  /\ failures < MaxFailures
  /\ failures' = failures + 1
  /\ Die("failed")

(* Restart=on-failure *)
Restart ==
  /\ main = "failed"
  /\ main' = "open"
  /\ UNCHANGED <<skel, exporter, failures, gaugeVars>>

(* Callbacks run in ring_buffer__poll; the exporter's own thread runs as   *)
(* long as the process, unless it ends by itself.                          *)
BeginEvent == main = "polling" /\ (\E p \in Pids : ReadTime(p)) /\ UNCHANGED serviceVars
EndEvent   == main = "polling" /\ Refresh /\ UNCHANGED serviceVars
Expiry == ExpiryStep /\ UNCHANGED serviceVars
Time   == main \in Running /\ Tick /\ UNCHANGED serviceVars

MainStep == Open \/ Load \/ Construct \/ Attach \/ NewRing \/ Delete \/ Join
              \/ Destroy \/ Return \/ Exit \/ Restart

Next == MainStep \/ StartFails \/ PollFails \/ Signal \/ Abort
          \/ BeginEvent \/ EndEvent \/ Expiry \/ Time

(* Threads that can go on do, the service manager restarts, time passes,   *)
(* and an event being handled is handled to its end.                       *)
Fairness ==
  /\ WF_vars(MainStep)
  /\ WF_vars(Expiry)
  /\ WF_vars(Time)
  /\ WF_vars(EndEvent)

Spec     == Init /\ [][Next]_vars
LiveSpec == Spec /\ Fairness
-----------------------------------------------------------------------------
LifeTypeOK ==
  /\ main \in Running \cup {"failed", "stopped"}
  /\ skel \in {"null", "opened", "loaded", "attached", "destroyed", "destroyed twice"}
  /\ exporter \in {"none", "live", "deleted"}
  /\ failures \in 0..MaxFailures

TypeOK == GaugesTypeOK /\ LifeTypeOK

(* Whenever the mutex is free, the gauges cached, the times noted and the  *)
(* series exported are of the same processes: none is exported for ever    *)
(* because the cache lost it, and none cached after its series was removed *)
(* (set_metrics, task_gauge_cache_timeout).                                *)
SeriesTracked ==
  ~LockTaken => /\ gauge_cache = info_gauge_family
                /\ gauge_cache = DOMAIN gauge_cache_timestamps

(* A process that was active within the timeout, less the delay between    *)
(* reading the time and noting it, is exported: the scan never removes a   *)
(* gauge that has just been refreshed, however the two threads interleave. *)
RecentExported ==
  \A p \in Pids : idle[p] + MaxDelay <= Timeout => p \in info_gauge_family

(* Through restarts, with two threads at the maps and times noted late, the *)
(* series exported keep the promise of Presence: one appears only with an   *)
(* event of its process, and is removed, one by one, only after that has    *)
(* been quiet for the timeout, less the delay (set_metrics,                 *)
(* task_gauge_cache_timeout).                                               *)
Board == INSTANCE Presence WITH
  Processes <- Pids, Delay <- MaxDelay, Longest <- Oldest,
  shown <- info_gauge_family, quiet <- idle

ShowsActivity == Board!BoardSpec

(* Nobody uses the exporter's maps and mutex once it is deleted: its thread *)
(* has ended and no callback is under way (~PrometheusExporter).           *)
ExporterOutlivesUsers ==
  exporter # "live" => expiry \in {"none", "ended"} /\ setting = Nothing

(* The series of a process that has no more events is removed in the end,  *)
(* whatever the other processes do (task_gauge_cache_timeout).             *)
IdleExpires ==
  \A p \in Pids :
    p \in info_gauge_family ~> p \notin info_gauge_family \/ setting.pid = p

(* A process whose polling fails gets through its teardown and the service *)
(* polls again, unless it is told to stop; the join does not hang.         *)
ServiceReturns == main \in Teardown ~> main \in {"polling", "stopped"}
=============================================================================
