--------------------------- MODULE ServiceProofs ---------------------------
(***************************************************************************)
(* The exporter's gauges and the life of the process around them, for any  *)
(* number of process ids, any timeout, any delay of the polling thread and *)
(* any number of failures.                                                 *)
(***************************************************************************)
EXTENDS Service, TLAPS

(* Cache, timestamps and family change together, even while the scan holds *)
(* the mutex.                                                              *)
InStep ==
  gauge_cache = info_gauge_family /\ gauge_cache = DOMAIN gauge_cache_timestamps

(* The time noted for a gauge is no older than its last use by more than   *)
(* the delay, and a gauge goes only when it has not been used for so long. *)
NotedInTime ==
  \A p \in Pids :
    IF p \in DOMAIN gauge_cache_timestamps
      THEN gauge_cache_timestamps[p] <= idle[p] + MaxDelay
      ELSE idle[p] + MaxDelay > Timeout

GaugesInv == GaugesTypeOK /\ InStep /\ NotedInTime

(* Where the main thread is, an exporter is there to be used.              *)
LifeInv ==
  /\ main \in {"attach", "ring", "polling"} => exporter = "live"
  /\ setting # Nothing => main \in {"polling", "handler"}
  /\ ExporterOutlivesUsers

ServiceInv == GaugesInv /\ LifeTypeOK /\ LifeInv

LEMMA Constants ==
  /\ Timeout \in Nat /\ Timeout > 0 /\ MaxDelay \in Nat /\ NoPid \notin Pids
  /\ Oldest \in Nat /\ Oldest > Timeout /\ Oldest > MaxDelay /\ MaxFailures \in Nat
  BY GaugeCacheAssumption, ServiceAssumption DEF Oldest

(* Ages grow by one up to Oldest. *)
LEMMA OlderProperties ==
  ASSUME NEW a \in Ages
  PROVE  Older(a) \in Ages /\ a <= Older(a) /\ Older(a) <= a + 1
                           /\ (a < Oldest => Older(a) = a + 1)
  BY Constants DEF Older, Ages

LEMMA NoGaugesInv ==
  ASSUME NEW at \in {"none", "testing"}, NoGaugesNext(at)
  PROVE  GaugesInv' /\ setting' = Nothing
<1>1. gauge_cache_timestamps' = << >> /\ DOMAIN gauge_cache_timestamps' = {}
      /\ gauge_cache_timestamps' \in [DOMAIN gauge_cache_timestamps' -> Ages]
  BY DEF NoGaugesNext
<1>2. idle' \in [Pids -> Ages] /\ \A p \in Pids : idle'[p] = Oldest
  BY Constants DEF NoGaugesNext, Ages
<1>3. GaugesTypeOK'
  BY <1>1, <1>2 DEF NoGaugesNext, GaugesTypeOK, LockTaken
<1>4. InStep'
  BY <1>1 DEF NoGaugesNext, InStep
<1>5. NotedInTime'
  <2>1. Oldest + MaxDelay > Timeout
    BY Constants
  <2>2. \A p \in Pids : idle'[p] + MaxDelay > Timeout
    BY ONLY <1>2, <2>1
  <2> QED BY <1>1, <2>2 DEF NotedInTime
<1> QED BY <1>3, <1>4, <1>5 DEF GaugesInv, NoGaugesNext

(* The polling thread's steps. *)
LEMMA ReadTimeKeeps ==
  ASSUME GaugesInv, NEW p \in Pids, ReadTime(p)
  PROVE  GaugesInv'
<1>1. setting' \in [pid : Pids, age : 0..MaxDelay]
  BY Constants DEF ReadTime
<1> QED BY <1>1 DEF ReadTime, GaugesInv, GaugesTypeOK, InStep, NotedInTime, LockTaken

LEMMA RefreshKeeps ==
  ASSUME GaugesInv, Refresh
  PROVE  GaugesInv' /\ setting' = Nothing
<1> DEFINE ts == gauge_cache_timestamps
           q == setting.pid
<1>1. q \in Pids /\ setting.age \in 0..MaxDelay
  BY DEF Refresh, GaugesInv, GaugesTypeOK
<1>2. /\ DOMAIN ts' = DOMAIN ts \cup {q}
      /\ ts'[q] = setting.age
      /\ \A p \in DOMAIN ts : p # q => ts'[p] = ts[p]
      /\ ts' = [p \in DOMAIN ts \cup {q} |-> IF p = q THEN setting.age ELSE ts[p]]
  BY DEF Refresh, Note
<1>3. ts' \in [DOMAIN ts' -> Ages] /\ DOMAIN ts' \subseteq Pids
  BY <1>1, <1>2, Constants DEF GaugesInv, GaugesTypeOK, Ages
<1>4. idle' \in [Pids -> Ages] /\ idle'[q] = 0 /\ \A p \in Pids : p # q => idle'[p] = idle[p]
  BY <1>1, Constants DEF Refresh, GaugesInv, GaugesTypeOK, Ages
<1>5. todo' = {}
  BY DEF Refresh, GaugesInv, GaugesTypeOK
<1>6. GaugesTypeOK'
  BY <1>1, <1>3, <1>4, <1>5 DEF Refresh, GaugesInv, GaugesTypeOK
<1>7. InStep'
  BY <1>2 DEF Refresh, GaugesInv, InStep
<1>8. NotedInTime'
  <2> SUFFICES ASSUME NEW p \in Pids
               PROVE  IF p \in DOMAIN ts' THEN ts'[p] <= idle'[p] + MaxDelay
                      ELSE idle'[p] + MaxDelay > Timeout
    BY DEF NotedInTime
  <2>1. CASE p = q
    BY <1>1, <1>2, <1>4, <2>1, Constants
  <2>2. CASE p # q
    BY <1>2, <1>4, <2>2 DEF GaugesInv, NotedInTime
  <2> QED BY <2>1, <2>2
<1> QED BY <1>6, <1>7, <1>8 DEF GaugesInv, Refresh

(* The expiry thread's steps. *)
LEMMA ScanKeyKeeps ==
  ASSUME GaugesInv, NEW q \in Pids, ScanKey(q)
  PROVE  GaugesInv'
<1> DEFINE ts == gauge_cache_timestamps
<1>0. q \in DOMAIN ts /\ todo' = todo \ {q} /\ idle' = idle /\ LockTaken /\ LockTaken'
  BY DEF ScanKey, GaugesInv, GaugesTypeOK, LockTaken
<1>1. CASE ~Expired(q)
  BY <1>0, <1>1 DEF ScanKey, GaugesInv, GaugesTypeOK, InStep, NotedInTime
<1>2. CASE Expired(q)
  <2>1. /\ gauge_cache' = gauge_cache \ {q}
        /\ info_gauge_family' = info_gauge_family \ {q}
        /\ DOMAIN ts' = DOMAIN ts \ {q}
        /\ \A p \in DOMAIN ts' : ts'[p] = ts[p]
        /\ ts' = [p \in DOMAIN ts \ {q} |-> ts[p]]
    BY <1>0, <1>2 DEF ScanKey, Forget, GaugesInv, InStep
  <2>2. ts' \in [DOMAIN ts' -> Ages]
    BY <2>1 DEF GaugesInv, GaugesTypeOK
  <2>3. GaugesTypeOK'
    BY <1>0, <2>1, <2>2 DEF ScanKey, GaugesInv, GaugesTypeOK
  <2>4. NotedInTime'
    <3>1. ts[q] > Timeout /\ ts[q] <= idle[q] + MaxDelay
      BY <1>0, <1>2 DEF Expired, GaugesInv, NotedInTime, GaugesTypeOK
    <3>2. ts[q] \in Nat /\ idle[q] \in Nat
      BY <1>0, Constants DEF GaugesInv, GaugesTypeOK, Ages
    <3>3. idle'[q] + MaxDelay > Timeout
      BY <1>0, <3>1, <3>2, Constants
    <3> QED BY <1>0, <2>1, <3>3 DEF GaugesInv, NotedInTime
  <2> QED BY <2>1, <2>3, <2>4 DEF GaugesInv, InStep
<1> QED BY <1>1, <1>2

LEMMA ExpiryStepKeeps ==
  ASSUME GaugesInv, ExpiryStep
  PROVE  GaugesInv' /\ setting' = setting
<1>1. CASE LoopTest
  BY <1>1 DEF LoopTest, GaugesInv, GaugesTypeOK, InStep, NotedInTime, LockTaken
<1>2. CASE StartScan
  BY <1>2 DEF StartScan, GaugesInv, GaugesTypeOK, InStep, NotedInTime, LockTaken
<1>3. CASE EndScan
  BY <1>3 DEF EndScan, GaugesInv, GaugesTypeOK, InStep, NotedInTime, LockTaken
<1>4. CASE \E p \in Pids : ScanKey(p)
  BY <1>4, ScanKeyKeeps DEF ScanKey
<1> QED BY <1>1, <1>2, <1>3, <1>4 DEF ExpiryStep

LEMMA TickKeeps ==
  ASSUME GaugesInv, Tick
  PROVE  GaugesInv' /\ (setting' = Nothing <=> setting = Nothing)
<1> DEFINE ts == gauge_cache_timestamps
<1>1. /\ DOMAIN ts' = DOMAIN ts
      /\ ts' = [p \in DOMAIN ts |-> Older(ts[p])]
      /\ \A p \in DOMAIN ts : ts'[p] = Older(ts[p]) /\ ts[p] \in Ages
  BY DEF Tick, GaugesInv, GaugesTypeOK
<1>2. /\ idle' = [p \in Pids |-> Older(idle[p])]
      /\ \A p \in Pids : idle'[p] = Older(idle[p]) /\ idle[p] \in Ages
  BY DEF Tick, GaugesInv, GaugesTypeOK
<1>3. ts' \in [DOMAIN ts' -> Ages] /\ idle' \in [Pids -> Ages]
  BY <1>1, <1>2, OlderProperties
<1>4. /\ setting = Nothing => setting' = Nothing
      /\ setting # Nothing => setting' \in [pid : Pids, age : 0..MaxDelay] /\ setting' # Nothing
  <2>1. CASE setting = Nothing
    BY <2>1 DEF Tick
  <2>2. CASE setting # Nothing
    <3>1. setting.pid \in Pids /\ setting.age \in 0..MaxDelay /\ setting.age < MaxDelay
          /\ setting' = [setting EXCEPT !.age = setting.age + 1]
          /\ setting \in [pid : Pids, age : 0..MaxDelay]
      BY <2>2 DEF Tick, GaugesInv, GaugesTypeOK
    <3>2. setting.age + 1 \in 0..MaxDelay
      BY <3>1, Constants
    <3>3. setting' \in [pid : Pids, age : 0..MaxDelay] /\ setting'.pid \in Pids
      BY <3>1, <3>2
    <3>4. Nothing.pid \notin Pids
      BY Constants DEF Nothing
    <3> QED BY <2>2, <3>3, <3>4
  <2> QED BY <2>1, <2>2
<1>5. GaugesTypeOK'
  <2>1. expiry' \in {"none", "testing", "asleep", "awake", "scanning", "ended"}
        /\ (LockTaken => LockTaken')
    BY DEF Tick, GaugesInv, GaugesTypeOK, LockTaken
  <2> QED BY <1>1, <1>3, <1>4, <2>1 DEF Tick, GaugesInv, GaugesTypeOK
<1>6. InStep'
  BY <1>1 DEF Tick, GaugesInv, InStep
<1>7. NotedInTime'
  <2> SUFFICES ASSUME NEW p \in Pids
               PROVE  IF p \in DOMAIN ts' THEN ts'[p] <= idle'[p] + MaxDelay
                      ELSE idle'[p] + MaxDelay > Timeout
    BY DEF NotedInTime
  <2>1. /\ idle[p] \in Ages /\ idle'[p] = Older(idle[p]) /\ Older(idle[p]) \in Ages
        /\ idle[p] <= Older(idle[p]) /\ (idle[p] < Oldest => Older(idle[p]) = idle[p] + 1)
    BY <1>2, OlderProperties
  <2>2. CASE p \in DOMAIN ts
    <3>1. ts[p] <= idle[p] + MaxDelay
      BY <2>2 DEF GaugesInv, NotedInTime
    <3>2. ts[p] \in Ages /\ ts'[p] = Older(ts[p]) /\ Older(ts[p]) \in Ages
          /\ Older(ts[p]) <= ts[p] + 1
      BY <1>1, <2>2, OlderProperties
    <3>3. ts'[p] <= idle'[p] + MaxDelay
      BY <2>1, <3>1, <3>2, Constants DEF Ages
    <3> QED BY <1>1, <2>2, <3>3
  <2>3. CASE p \notin DOMAIN ts
    <3>1. idle[p] + MaxDelay > Timeout
      BY <2>3 DEF GaugesInv, NotedInTime
    <3>2. idle'[p] + MaxDelay > Timeout
      BY <2>1, <3>1, Constants DEF Ages
    <3> QED BY <1>1, <2>3, <3>2
  <2> QED BY <2>2, <2>3
<1> QED BY <1>4, <1>5, <1>6, <1>7 DEF GaugesInv
-----------------------------------------------------------------------------
LEMMA ServiceInvInit == Init => ServiceInv
<1> SUFFICES ASSUME Init PROVE ServiceInv
  OBVIOUS
<1>1. gauge_cache_timestamps = << >> /\ DOMAIN gauge_cache_timestamps = {}
      /\ gauge_cache_timestamps \in [DOMAIN gauge_cache_timestamps -> Ages]
  BY DEF Init, NoGauges
<1>2. idle \in [Pids -> Ages] /\ \A p \in Pids : idle[p] = Oldest
  BY Constants DEF Init, NoGauges, Ages
<1>3. GaugesInv
  <2>1. GaugesTypeOK
    BY <1>1, <1>2 DEF Init, NoGauges, GaugesTypeOK, LockTaken
  <2>2. NotedInTime
    <3>1. Oldest + MaxDelay > Timeout
      BY Constants
    <3>2. \A p \in Pids : idle[p] + MaxDelay > Timeout
      BY ONLY <1>2, <3>1
    <3> QED BY <1>1, <3>2 DEF NotedInTime
  <2> QED BY <1>1, <2>1, <2>2 DEF Init, NoGauges, GaugesInv, InStep
<1>4. LifeTypeOK /\ LifeInv
  BY Constants
     DEF Init, NoGauges, LifeTypeOK, LifeInv, ExporterOutlivesUsers, Running, Starting
<1> QED BY <1>3, <1>4 DEF ServiceInv

LEMMA GaugesUnchanged ==
  ASSUME GaugesInv, UNCHANGED gaugeVars
  PROVE  GaugesInv'
BY DEF gaugeVars, GaugesInv, GaugesTypeOK, InStep, NotedInTime, LockTaken

LEMMA DieKeeps ==
  ASSUME NEW as \in {"failed", "stopped"}, Die(as), failures' \in 0..MaxFailures
  PROVE  ServiceInv'
<1>1. GaugesInv' /\ setting' = Nothing
  BY NoGaugesInv DEF Die
<1>2. LifeTypeOK' /\ LifeInv'
  BY <1>1 DEF Die, NoGaugesNext, LifeTypeOK, LifeInv, ExporterOutlivesUsers
<1> QED BY <1>1, <1>2 DEF ServiceInv

LEMMA MainStepKeeps ==
  ASSUME ServiceInv, MainStep
  PROVE  ServiceInv'
<1> USE DEF Running, Starting, Teardown
<1>1. CASE Open
  BY <1>1, GaugesUnchanged
     DEF Open, ServiceInv, LifeTypeOK, LifeInv, ExporterOutlivesUsers, gaugeVars
<1>2. CASE Load
  BY <1>2, GaugesUnchanged
     DEF Load, ServiceInv, LifeTypeOK, LifeInv, ExporterOutlivesUsers, gaugeVars
<1>3. CASE Construct
  <2>1. GaugesInv' /\ setting' = Nothing
    BY <1>3, NoGaugesInv DEF Construct
  <2> QED BY <1>3, <2>1
          DEF Construct, ServiceInv, LifeTypeOK, LifeInv, ExporterOutlivesUsers
<1>4. CASE Attach
  BY <1>4, GaugesUnchanged
     DEF Attach, ServiceInv, LifeTypeOK, LifeInv, ExporterOutlivesUsers, gaugeVars
<1>5. CASE NewRing
  BY <1>5, GaugesUnchanged
     DEF NewRing, ServiceInv, LifeTypeOK, LifeInv, ExporterOutlivesUsers, gaugeVars
<1>6. CASE Delete
  <2>1. GaugesInv'
    BY <1>6
       DEF Delete, ServiceInv, GaugesInv, GaugesTypeOK, InStep, NotedInTime, LockTaken
  <2> QED BY <1>6, <2>1
          DEF Delete, ServiceInv, LifeTypeOK, LifeInv, ExporterOutlivesUsers
<1>7. CASE Join
  BY <1>7, GaugesUnchanged
     DEF Join, ServiceInv, LifeTypeOK, LifeInv, ExporterOutlivesUsers, gaugeVars
<1>8. CASE Destroy
  BY <1>8, GaugesUnchanged
     DEF Destroy, Destroyed, ServiceInv, LifeTypeOK, LifeInv, ExporterOutlivesUsers, gaugeVars
<1>9. CASE Return
  BY <1>9, DieKeeps DEF Return, ServiceInv, LifeTypeOK
<1>10. CASE Exit
  BY <1>10, DieKeeps DEF Exit, ServiceInv, LifeTypeOK
<1>11. CASE Restart
  BY <1>11, GaugesUnchanged
     DEF Restart, ServiceInv, LifeTypeOK, LifeInv, ExporterOutlivesUsers, gaugeVars
<1> QED BY <1>1, <1>2, <1>3, <1>4, <1>5, <1>6, <1>7, <1>8, <1>9, <1>10, <1>11 DEF MainStep

LEMMA FailureKeeps ==
  ASSUME ServiceInv, StartFails \/ PollFails \/ Abort
  PROVE  ServiceInv'
<1> USE DEF Running, Starting, Teardown
<1>1. failures' \in 0..MaxFailures
  <2>1. failures \in 0..MaxFailures /\ failures < MaxFailures /\ failures' = failures + 1
    BY DEF StartFails, PollFails, Abort, ServiceInv, LifeTypeOK
  <2> QED BY <2>1, Constants
<1>2. CASE StartFails
  <2>1. CASE main \notin {"open", "construct"}
    BY <1>1, <1>2, <2>1, GaugesUnchanged
       DEF StartFails, ServiceInv, LifeTypeOK, LifeInv, ExporterOutlivesUsers, gaugeVars
  <2>2. CASE main \in {"open", "construct"}
    BY <1>1, <1>2, <2>2, DieKeeps DEF StartFails
  <2> QED BY <2>1, <2>2
<1>3. CASE PollFails
  BY <1>1, <1>3, GaugesUnchanged
     DEF PollFails, ServiceInv, LifeTypeOK, LifeInv, ExporterOutlivesUsers, gaugeVars
<1>4. CASE Abort
  BY <1>1, <1>4, DieKeeps DEF Abort
<1> QED BY <1>2, <1>3, <1>4

LEMMA GaugeStepKeeps ==
  ASSUME ServiceInv, BeginEvent \/ EndEvent \/ Expiry \/ Time
  PROVE  ServiceInv'
<1>1. CASE BeginEvent
  <2>1. GaugesInv'
    BY <1>1, ReadTimeKeeps DEF BeginEvent, ServiceInv
  <2>2. expiry' = expiry
    BY <1>1 DEF BeginEvent, ReadTime
  <2> QED BY <1>1, <2>1, <2>2
          DEF BeginEvent, serviceVars, ServiceInv, LifeTypeOK, LifeInv, ExporterOutlivesUsers
<1>2. CASE EndEvent
  <2>1. GaugesInv' /\ setting' = Nothing /\ expiry' = expiry
    BY <1>2, RefreshKeeps DEF EndEvent, Refresh, ServiceInv
  <2> QED BY <1>2, <2>1
          DEF EndEvent, serviceVars, ServiceInv, LifeTypeOK, LifeInv, ExporterOutlivesUsers
<1>3. CASE Expiry
  <2>1. GaugesInv' /\ setting' = setting
    BY <1>3, ExpiryStepKeeps DEF Expiry, ServiceInv
  <2>2. expiry \in {"none", "ended"} => expiry' = expiry
    BY <1>3
       DEF Expiry, ExpiryStep, LoopTest, StartScan, EndScan, ScanKey,
           ServiceInv, GaugesInv, GaugesTypeOK
  <2> QED BY <1>3, <2>1, <2>2
          DEF Expiry, serviceVars, ServiceInv, LifeTypeOK, LifeInv, ExporterOutlivesUsers
<1>4. CASE Time
  <2>1. GaugesInv' /\ (setting' = Nothing <=> setting = Nothing)
    BY <1>4, TickKeeps DEF Time, ServiceInv
  <2>2. expiry \in {"none", "ended"} => expiry' = expiry
    BY <1>4 DEF Time, Tick
  <2> QED BY <1>4, <2>1, <2>2
          DEF Time, serviceVars, ServiceInv, LifeTypeOK, LifeInv, ExporterOutlivesUsers
<1> QED BY <1>1, <1>2, <1>3, <1>4

LEMMA SignalKeeps ==
  ASSUME ServiceInv, Signal
  PROVE  ServiceInv'
BY GaugesUnchanged
   DEF Signal, Destroyed, ServiceInv, LifeTypeOK, LifeInv, ExporterOutlivesUsers, Running,
       Starting, Teardown, gaugeVars

LEMMA ServiceInvAlways == Spec => []ServiceInv
<1>1. ASSUME ServiceInv, [Next]_vars
      PROVE  ServiceInv'
  <2>1. CASE Next
    BY <1>1, <2>1, MainStepKeeps, FailureKeeps, GaugeStepKeeps, SignalKeeps DEF Next
  <2>2. CASE UNCHANGED vars
    BY <1>1, <2>2, GaugesUnchanged
       DEF vars, serviceVars, gaugeVars, ServiceInv, LifeTypeOK, LifeInv, ExporterOutlivesUsers
  <2> QED BY <1>1, <2>1, <2>2
<1> QED BY <1>1, ServiceInvInit, PTL DEF Spec

(* Type correctness: ages stay within their bound, the scan's keys are     *)
(* noted ones, and the delay of the polling thread stays within MaxDelay.  *)
THEOREM ServiceTypeCorrect == Spec => []TypeOK
<1>1. ServiceInv => TypeOK
  BY DEF ServiceInv, GaugesInv, LifeTypeOK, TypeOK
<1> QED BY <1>1, ServiceInvAlways, PTL

(* Whenever the mutex is free, gauges, times and series are of the same    *)
(* processes (set_metrics, task_gauge_cache_timeout).                      *)
THEOREM SeriesAlwaysTracked == Spec => []SeriesTracked
<1>1. ServiceInv => SeriesTracked
  BY DEF ServiceInv, GaugesInv, InStep, SeriesTracked
<1> QED BY <1>1, ServiceInvAlways, PTL

(* A process active within the timeout, less the delay, is exported.       *)
THEOREM RecentAlwaysExported == Spec => []RecentExported
<1>1. ServiceInv => RecentExported
  <2> SUFFICES ASSUME ServiceInv, NEW p \in Pids, idle[p] + MaxDelay <= Timeout
               PROVE  p \in info_gauge_family
    BY DEF RecentExported
  <2>1. idle[p] \in Nat
    BY Constants DEF ServiceInv, GaugesInv, GaugesTypeOK, Ages
  <2>2. ~(idle[p] + MaxDelay > Timeout)
    BY <2>1, Constants
  <2> QED BY <2>2 DEF ServiceInv, GaugesInv, InStep, NotedInTime
<1> QED BY <1>1, ServiceInvAlways, PTL

(* Nobody uses the exporter once it is deleted (~PrometheusExporter).      *)
THEOREM ExporterAlwaysOutlivesUsers == Spec => []ExporterOutlivesUsers
<1>1. ServiceInv => ExporterOutlivesUsers
  BY DEF ServiceInv, LifeInv
<1> QED BY <1>1, ServiceInvAlways, PTL
-----------------------------------------------------------------------------
(* The board.  Its steps are those of the gauges and the end of a life.    *)
LEMMA ClearingEnds ==
  ASSUME NEW at \in {"none", "testing"}, NoGaugesNext(at)
  PROVE  Board!End
BY DEF NoGaugesNext, Board!End, Board!Cleared

LEMMA RefreshingActs ==
  ASSUME GaugesInv, Refresh
  PROVE  \E p \in Pids : Board!Act(p)
<1>1. setting.pid \in Pids
  BY DEF Refresh, GaugesInv, GaugesTypeOK
<1>2. info_gauge_family' = info_gauge_family \cup {setting.pid}
  BY DEF Refresh, GaugesInv, InStep
<1> QED BY <1>1, <1>2 DEF Refresh, Board!Act

LEMMA ExpiringTakesDown ==
  ASSUME GaugesInv, ExpiryStep
  PROVE  \/ \E p \in Pids : Board!TakeDown(p)
         \/ UNCHANGED Board!boardVars
<1>1. CASE LoopTest \/ StartScan \/ EndScan
  BY <1>1 DEF LoopTest, StartScan, EndScan, Board!boardVars
<1>2. ASSUME NEW p \in Pids, ScanKey(p), Expired(p)
      PROVE  Board!TakeDown(p)
  <2>1. p \in DOMAIN gauge_cache_timestamps
    BY <1>2 DEF ScanKey, GaugesInv, GaugesTypeOK
  <2>2. /\ gauge_cache_timestamps[p] > Timeout
        /\ gauge_cache_timestamps[p] <= idle[p] + MaxDelay
        /\ gauge_cache_timestamps[p] \in Ages /\ idle[p] \in Ages
    BY <1>2, <2>1 DEF Expired, GaugesInv, NotedInTime, GaugesTypeOK
  <2>3. idle[p] + MaxDelay > Timeout
    BY <2>2, Constants DEF Ages
  <2>4. p \in info_gauge_family /\ info_gauge_family' = info_gauge_family \ {p}
    BY <1>2, <2>1 DEF ScanKey, Forget, GaugesInv, InStep
  <2> QED BY <1>2, <2>3, <2>4 DEF ScanKey, Board!TakeDown
<1>3. ASSUME NEW p \in Pids, ScanKey(p), ~Expired(p)
      PROVE  UNCHANGED Board!boardVars
  BY <1>3 DEF ScanKey, Board!boardVars
<1> QED BY <1>1, <1>2, <1>3 DEF ExpiryStep

LEMMA TickingPasses ==
  ASSUME GaugesInv, Tick
  PROVE  Board!Second
<1>1. \A p \in Pids : idle[p] \in Ages
  BY DEF GaugesInv, GaugesTypeOK
<1>2. ASSUME NEW p \in Pids
      PROVE  Older(idle[p]) = IF idle[p] < Oldest THEN idle[p] + 1 ELSE Oldest
  <2>1. Oldest \in Nat /\ idle[p] \in 0..Oldest
    BY <1>1, Constants DEF Ages
  <2> QED BY <2>1 DEF Older
<1> QED BY <1>2 DEF Tick, Board!Second

LEMMA BoardSteps ==
  ASSUME ServiceInv, [Next]_vars
  PROVE  [Board!BoardNext]_(Board!boardVars)
<1>1. GaugesInv
  BY DEF ServiceInv
<1>2. CASE Construct \/ Return \/ Exit \/ Abort
  <2>1. NoGaugesNext("none") \/ NoGaugesNext("testing")
    BY <1>2 DEF Construct, Return, Exit, Abort, Die
  <2> QED BY <2>1, ClearingEnds DEF Board!BoardNext
<1>3. CASE StartFails
  <2>1. NoGaugesNext("none") \/ UNCHANGED gaugeVars
    BY <1>3 DEF StartFails, Die
  <2>2. CASE NoGaugesNext("none")
    BY <2>2, ClearingEnds DEF Board!BoardNext
  <2>3. CASE UNCHANGED gaugeVars
    BY <2>3 DEF gaugeVars, Board!boardVars
  <2> QED BY <2>1, <2>2, <2>3
<1>4. CASE \/ Open \/ Load \/ Attach \/ NewRing \/ Delete \/ Join \/ Destroy \/ Restart
           \/ PollFails \/ Signal \/ BeginEvent
           \/ UNCHANGED vars
  <2>1. UNCHANGED <<info_gauge_family, idle>>
    BY <1>4
       DEF Open, Load, Attach, NewRing, Delete, Join, Destroy, Restart, PollFails, Signal,
           BeginEvent, ReadTime, vars, gaugeVars
  <2> QED BY <2>1 DEF Board!boardVars
<1>5. CASE EndEvent
  BY <1>1, <1>5, RefreshingActs DEF EndEvent, Board!BoardNext
<1>6. CASE Expiry
  BY <1>1, <1>6, ExpiringTakesDown DEF Expiry, Board!BoardNext
<1>7. CASE Time
  BY <1>1, <1>7, TickingPasses DEF Time, Board!BoardNext
<1> QED BY <1>2, <1>3, <1>4, <1>5, <1>6, <1>7 DEF Next, MainStep

(* The exporter's series keep the promise of Presence, through restarts    *)
(* and for any timeout and delay.                                          *)
THEOREM ServiceShowsActivity == Spec => ShowsActivity
<1>1. Init => Board!BoardInit
  BY DEF Init, NoGauges, Board!BoardInit, Board!Cleared
<1>2. ServiceInv /\ [Next]_vars => [Board!BoardNext]_(Board!boardVars)
  BY BoardSteps
<1> QED BY <1>1, <1>2, ServiceInvAlways, PTL DEF Spec, ShowsActivity, Board!BoardSpec
=============================================================================
