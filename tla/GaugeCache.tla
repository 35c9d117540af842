----------------------------- MODULE GaugeCache -----------------------------
(***************************************************************************)
(* The gauges the exporter keeps for each process id (exporter.cpp): the   *)
(* polling thread refreshes them in set_metrics, a thread of the exporter  *)
(* looks at them once a second and drops those not refreshed for Timeout   *)
(* seconds.                                                                *)
(*                                                                         *)
(* Time is told in seconds, as std::time does, and only by ages: a         *)
(* recorded time t is now - t, counted up to Oldest, beyond which no       *)
(* comparison tells two ages apart.  The clock is not set back.  The       *)
(* labels of a gauge, which stay those of the event that created it, are   *)
(* left out: a gauge is known by its process id.                           *)
(***************************************************************************)
EXTENDS Integers

CONSTANTS
  Pids,      \* the process ids events carry
  NoPid,     \*   and what is none of them
  Timeout,   \* cache_timeout_seconds, which load_config makes positive
  MaxDelay   \* the longest the polling thread is held up between reading
             \*   the time and taking gauge_cache_mutex, in seconds

ASSUME GaugeCacheAssumption ==
  /\ NoPid \notin Pids
  /\ Timeout \in Nat \ {0}
  /\ MaxDelay \in Nat

VARIABLES
  gauge_cache,              \* the process ids with a cached gauge
  gauge_cache_timestamps,   \* for some process ids, the age of the time noted
  info_gauge_family,        \* the process ids with a series in the family
  setting,                  \* the event set_metrics is at, with the age of
                            \*   the time it has read
  expiry,                   \* where task_gauge_cache_timeout is
  todo,                     \* the keys it has not come to in this scan
  stop_thread_,             \* it has been told to stop
  idle                      \* history: seconds since a gauge was last set

gaugeVars == <<gauge_cache, gauge_cache_timestamps, info_gauge_family,
               setting, expiry, todo, stop_thread_, idle>>

Oldest    == Timeout + MaxDelay + 1
Ages      == 0..Oldest
Older(a)  == IF a < Oldest THEN a + 1 ELSE a
Nothing   == [pid |-> NoPid, age |-> 0]
(* gauge_cache_mutex: the polling thread holds it only within one step.    *)
LockTaken == expiry = "scanning"

(* The state of an exporter that has just been made, or that is gone.      *)
NoGauges(at) ==
  /\ gauge_cache = {} /\ gauge_cache_timestamps = << >> /\ info_gauge_family = {}
  /\ setting = Nothing /\ expiry = at /\ todo = {} /\ stop_thread_ = FALSE
  /\ idle = [p \in Pids |-> Oldest]
NoGaugesNext(at) ==
  /\ gauge_cache' = {} /\ gauge_cache_timestamps' = << >> /\ info_gauge_family' = {}
  /\ setting' = Nothing /\ expiry' = at /\ todo' = {} /\ stop_thread_' = FALSE
  /\ idle' = [p \in Pids |-> Oldest]
-----------------------------------------------------------------------------
(* set_metrics reads the time before it takes the mutex.                   *)
ReadTime(p) ==
  /\ setting = Nothing
  /\ setting' = [pid |-> p, age |-> 0]
  /\ UNCHANGED <<gauge_cache, gauge_cache_timestamps, info_gauge_family,
                 expiry, todo, stop_thread_, idle>>

(* Faulty versions, named Bad..., stand before what they replace: no action *)
(* uses them; they are there to show that the properties would notice.      *)
BadNote(p, age) ==
  [q \in DOMAIN gauge_cache_timestamps \cup {p} |->
     IF q \in DOMAIN gauge_cache_timestamps THEN gauge_cache_timestamps[q] ELSE age]

(* The time noted for a gauge that was refreshed. *)
Note(p, age) ==
  [q \in DOMAIN gauge_cache_timestamps \cup {p} |->
     IF q = p THEN age ELSE gauge_cache_timestamps[q]]

(* Under the mutex it finds or adds the gauge and notes the time it read.  *)
Refresh ==
  /\ setting # Nothing
  /\ ~LockTaken
  /\ gauge_cache' = gauge_cache \cup {setting.pid}
  /\ info_gauge_family' =
       IF setting.pid \in gauge_cache THEN info_gauge_family
       ELSE info_gauge_family \cup {setting.pid}
  /\ gauge_cache_timestamps' = Note(setting.pid, setting.age)
  /\ idle' = [idle EXCEPT ![setting.pid] = 0]
  /\ setting' = Nothing
  /\ UNCHANGED <<expiry, todo, stop_thread_>>
-----------------------------------------------------------------------------
(* task_gauge_cache_timeout: the loop's test, and the sleep of a second,   *)
(* which ends with a Tick.                                                 *)
LoopTest ==
  /\ expiry = "testing"
  /\ expiry' = IF stop_thread_ THEN "ended" ELSE "asleep"
  /\ UNCHANGED <<gauge_cache, gauge_cache_timestamps, info_gauge_family,
                 setting, todo, stop_thread_, idle>>

(* It takes the mutex, which it holds for the whole scan. *)
StartScan ==
  /\ expiry = "awake"
  /\ expiry' = "scanning"
  /\ todo' = DOMAIN gauge_cache_timestamps
  /\ UNCHANGED <<gauge_cache, gauge_cache_timestamps, info_gauge_family,
                 setting, stop_thread_, idle>>

BadExpired(p) == gauge_cache_timestamps[p] >= Timeout

Expired(p) == gauge_cache_timestamps[p] > Timeout

BadForget(p) ==
  /\ gauge_cache' = gauge_cache \ {p}
  /\ info_gauge_family' = info_gauge_family
  /\ gauge_cache_timestamps' =
       [q \in DOMAIN gauge_cache_timestamps \ {p} |-> gauge_cache_timestamps[q]]

(* The gauge leaves the cache and, if it was there, its series the family. *)
Forget(p) ==
  /\ gauge_cache' = gauge_cache \ {p}
  /\ info_gauge_family' = IF p \in gauge_cache THEN info_gauge_family \ {p}
                          ELSE info_gauge_family
  /\ gauge_cache_timestamps' =
       [q \in DOMAIN gauge_cache_timestamps \ {p} |-> gauge_cache_timestamps[q]]

BadScanKey(p) ==
  /\ p \in todo
  /\ IF Expired(p)
       THEN todo' = todo \ {p} /\ Forget(p)
       ELSE todo' = {} /\ UNCHANGED <<gauge_cache, info_gauge_family, gauge_cache_timestamps>>
  /\ UNCHANGED <<setting, expiry, stop_thread_, idle>>

(* One key, which the time now decides; the keys may come in any order.    *)
ScanKey(p) ==
  /\ p \in todo
  /\ todo' = todo \ {p}
  /\ IF Expired(p) THEN Forget(p)
     ELSE UNCHANGED <<gauge_cache, info_gauge_family, gauge_cache_timestamps>>
  /\ UNCHANGED <<setting, expiry, stop_thread_, idle>>

BadEndScan ==
  /\ LockTaken
  /\ expiry' = "testing"
  /\ UNCHANGED <<gauge_cache, gauge_cache_timestamps, info_gauge_family,
                 setting, todo, stop_thread_, idle>>

(* The mutex is given back when all keys have been looked at. *)
EndScan ==
  /\ expiry = "scanning"
  /\ todo = {}
  /\ expiry' = "testing"
  /\ UNCHANGED <<gauge_cache, gauge_cache_timestamps, info_gauge_family,
                 setting, todo, stop_thread_, idle>>

ExpiryStep == LoopTest \/ StartScan \/ EndScan \/ \E p \in Pids : ScanKey(p)

(* A second passes; the polling thread is not held up longer than MaxDelay. *)
Tick ==
  /\ setting # Nothing => setting.age < MaxDelay
  /\ gauge_cache_timestamps' =
       [p \in DOMAIN gauge_cache_timestamps |-> Older(gauge_cache_timestamps[p])]
  /\ setting' = IF setting = Nothing THEN setting ELSE [setting EXCEPT !.age = @ + 1]
  /\ idle' = [p \in Pids |-> Older(idle[p])]
  /\ expiry' = IF expiry = "asleep" THEN "awake" ELSE expiry
  /\ UNCHANGED <<gauge_cache, info_gauge_family, todo, stop_thread_>>
-----------------------------------------------------------------------------
GaugesTypeOK ==
  /\ gauge_cache \subseteq Pids
  /\ DOMAIN gauge_cache_timestamps \subseteq Pids
  /\ gauge_cache_timestamps \in [DOMAIN gauge_cache_timestamps -> Ages]
  /\ info_gauge_family \subseteq Pids
  /\ setting = Nothing \/ setting \in [pid : Pids, age : 0..MaxDelay]
  /\ expiry \in {"none", "testing", "asleep", "awake", "scanning", "ended"}
  /\ todo \subseteq DOMAIN gauge_cache_timestamps
  /\ todo # {} => LockTaken
  /\ stop_thread_ \in BOOLEAN
  /\ idle \in [Pids -> Ages]
=============================================================================
