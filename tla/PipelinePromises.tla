-------------------------- MODULE PipelinePromises --------------------------
(***************************************************************************)
(* The promises the pipeline keeps as a whole: it gives no event to two    *)
(* requests, and all its parts together are an AuditTrail.                 *)
(***************************************************************************)
EXTENDS PipelineProofs

(* The event that is cached is a report. *)
LEMMA CurrentIsReport ==
  ASSUME PipelineInv, ~Idle
  PROVE  ReportOf(Current) \in Q!ReportType /\ ReportOf(Current).id = Current
<1>1. Current \in 1..MaxRecords /\ recs[Current] \in RecordType
  BY InHand, HeadProperties DEF PipelineInv, DispInv
<1>2. recs[Current].ev.cmdutf8 \in BOOLEAN /\ recs[Current].ev.oldutf8 \in BOOLEAN
  BY <1>1 DEF RecordType, EventType
<1> QED BY <1>1, <1>2 DEF ReportOf, Q!ReportType

(* Only caching and the requests for events touch the cache. *)
LEMMA CacheStepsOnly ==
  ASSUME PipelineInv, [Next]_vars
  PROVE  \/ pc = "cache" /\ Q!CacheEvent(ReportOf(Current))
         \/ \E c \in Clients : (\E n \in Counts : Q!Pop(c, n)) \/ Q!Respond(c)
         \/ UNCHANGED queueVars
<1>1. CASE Cache
  BY <1>1 DEF Cache
<1>2. CASE \E c \in Clients : Request(c) \/ Answer(c)
  BY <1>2 DEF Request, Answer
<1>3. CASE \/ \E t \in Tasks : (\E c \in Calls : HookStarts(t, c)) \/ HookEnds(t)
           \/ Skip \/ Reject \/ PrintEvent \/ Accept \/ Send \/ PostReturns
           \/ \E path \in ListChanges : UpdateList(path)
           \/ UNCHANGED vars
  BY <1>3 DEF HookStarts, HookEnds, Skip, Reject, PrintEvent, Accept, Send, PostReturns,
              UpdateList, vars
<1> QED BY <1>1, <1>2, <1>3 DEF Next, Dispatch

(* No event twice.                                                         *)
GivenInv == QP!HandedOutInv

(* The record in hand has not been cached before: the records cached are   *)
(* those accepted before it, and those come in the order of reservation.   *)
LEMMA CurrentIsNew ==
  ASSUME PipelineInv, pc = "cache", CacheData
  PROVE  \A i \in 1..Len(cached) : cached[i].id # Current
<1>1. /\ accepted \in Seq(VerdictType) /\ cached \in Seq(Q!ReportType)
      /\ Increasing /\ ~Verbose /\ ~Idle /\ Current \in Nat
  BY InHand, HeadProperties
     DEF PipelineInv, DispInv, DispOK, ModesOK, SettledInv, QueueInv, Q!QueueTypeOK, Idle
<1>2. Ids(accepted) = Append(Ids(cached), Current)
  BY <1>1 DEF PipelineInv, DispInv, EffectsFollow
<1>3. /\ Len(accepted) \in Nat /\ Len(cached) \in Nat
      /\ \A k \in 1..Len(accepted) : accepted[k].id \in Nat
      /\ \A i \in 1..Len(cached) : cached[i].id \in Nat
  <2>1. \A i \in 1..Len(cached) : cached[i] \in Q!ReportType
    BY <1>1, ElementOfSeq
  <2>2. \A x \in Q!ReportType : x.id \in Nat
    BY DEF Q!ReportType
  <2> QED BY <1>1, <2>1, <2>2, RuledTypes, LenProperties DEF PipelineInv, DispInv
<1>4. /\ Ids(accepted) \in Seq(Nat) /\ Len(Ids(accepted)) = Len(accepted)
      /\ \A k \in 1..Len(accepted) : Ids(accepted)[k] = accepted[k].id
      /\ Ids(cached) \in Seq(Nat) /\ Len(Ids(cached)) = Len(cached)
      /\ \A k \in 1..Len(cached) : Ids(cached)[k] = cached[k].id
  BY <1>3, IsASeq DEF Ids
<1>5. /\ Len(accepted) = Len(cached) + 1 /\ accepted[Len(accepted)].id = Current
      /\ \A i \in 1..Len(cached) : accepted[i].id = cached[i].id
  <2>1. /\ Len(Ids(accepted)) = Len(Ids(cached)) + 1
        /\ Ids(accepted)[Len(Ids(cached)) + 1] = Current
        /\ \A i \in 1..Len(Ids(cached)) : Ids(accepted)[i] = Ids(cached)[i]
    BY <1>1, <1>2, <1>4, AppendProperties
  <2>2. \A i \in 1..Len(cached) : i \in 1..Len(accepted)
    BY <1>3, <1>4, <2>1
  <2>3. Len(accepted) \in 1..Len(accepted) /\ Len(accepted) = Len(cached) + 1
    BY <1>3, <1>4, <2>1
  <2> QED BY <1>4, <2>1, <2>2, <2>3
<1>6. \A i \in 1..Len(cached) :
        i \in 1..Len(accepted) /\ Len(accepted) \in 1..Len(accepted) /\ i < Len(accepted)
  BY <1>3, <1>5
<1>7. \A i \in 1..Len(cached) : accepted[i].id < accepted[Len(accepted)].id
  BY <1>1, <1>6 DEF Increasing
<1> QED BY <1>1, <1>3, <1>5, <1>7

LEMMA GivenStep == PipelineInv /\ GivenInv /\ [Next]_vars => GivenInv'
<1> SUFFICES ASSUME PipelineInv, GivenInv, [Next]_vars
             PROVE  QP!HandedOutInv'
  BY DEF GivenInv
<1>1. QP!QueueInv /\ QP!HandedOutInv
  BY SameQueueInv DEF PipelineInv, GivenInv
<1>2. CASE pc = "cache" /\ Q!CacheEvent(ReportOf(Current))
  <2>1. /\ ReportOf(Current) \in QP!ReportType /\ ReportOf(Current).id = Current
        /\ CacheData => \A i \in 1..Len(cached) : cached[i].id # Current
    BY <1>2, CurrentIsReport, CurrentIsNew DEF Idle, Q!ReportType, QP!ReportType
  <2>2. QP!CacheEvent(ReportOf(Current))
    BY <1>2 DEF QP!CacheEvent, Q!CacheEvent, Q!PushDroppingOldest, QP!PushDroppingOldest
  <2> QED BY <1>1, <2>1, <2>2, QueueConstants, QP!CachingHandsOutNothing
<1>3. ASSUME NEW c \in Clients, NEW n \in Counts, Q!Pop(c, n)
      PROVE  QP!HandedOutInv'
  <2>1. QP!Pop(c, n)
    BY <1>3 DEF QP!Pop, Q!Pop, QP!MinOf, Q!MinOf, QP!EffectiveCount, Q!EffectiveCount
  <2> QED BY <1>1, <2>1, QueueConstants, QP!PoppingHandsOutNew
<1>4. ASSUME NEW c \in Clients, Q!Respond(c)
      PROVE  QP!HandedOutInv'
  <2>1. QP!Respond(c)
    BY <1>4
       DEF QP!Respond, QP!RespondOK, QP!RespondError, QP!Printable, QP!EventsOf,
           Q!Respond, Q!RespondOK, Q!RespondError, Q!Printable, Q!EventsOf
  <2> QED BY <1>1, <2>1, QueueConstants, QP!RespondingSettles
<1>5. CASE UNCHANGED queueVars
  <2>1. UNCHANGED <<event_queue, cached, batch, delivered, spoiled>>
    BY <1>5 DEF queueVars
  <2>2. QP!Gone' = QP!Gone /\ (QP!OneOfEach' <=> QP!OneOfEach)
    BY <2>1 DEF QP!Gone, QP!OneOfEach, QP!Start
  <2>3. \A c \in Clients : QP!EventsOf(batch'[c]) = QP!EventsOf(batch[c])
    BY <2>1
  <2> QED BY <1>1, <2>1, <2>2, <2>3 DEF QP!HandedOutInv
<1> QED BY <1>2, <1>3, <1>4, <1>5, CacheStepsOnly

(* In the pipeline no event is given to two requests: what a request is    *)
(* given was accepted once, cached once and taken from the queue once.     *)
THEOREM PipelineGivesOnce == Spec => []GivenOnce
<1>1. Init => GivenInv
  <2>1. Q!QueueInit => QP!QueueInit
    BY DEF Q!QueueInit, QP!QueueInit
  <2>2. QP!QueueInit => QP!HandedOutInv
    BY QueueConstants, QP!HandedOutInit
  <2> QED BY <2>1, <2>2 DEF Init, GivenInv
<1>2. PipelineInv /\ GivenInv => GivenOnce
  <2>1. QP!QueueInv /\ QP!HandedOutInv => QP!HandedOutOnce
    BY QueueConstants, QP!HandedOutFollows
  <2>2. QP!HandedOutOnce => Q!HandedOutOnce
    BY DEF QP!HandedOutOnce, Q!HandedOutOnce, QP!EventsOf, Q!EventsOf
  <2> QED BY <2>1, <2>2, SameQueueInv DEF PipelineInv, GivenInv, GivenOnce
<1> QED BY <1>1, <1>2, GivenStep, PipelineInvAlways, PTL DEF Spec
-----------------------------------------------------------------------------
(* The audit trail.  A record that its hook discarded is not of a plain    *)
(* operation.                                                              *)
DiscardsGaveUp ==
  \A i \in 1..Len(recs) : recs[i].state = "discarded" => GivesUp(recs[i].call)

TrailInv == DiscardsGaveUp /\ CaptureInv

(* What a hook does to its record, in one form.                            *)
LEMMA HookEndsAt ==
  ASSUME TracerInv, NEW t \in Tasks, Submit(t) \/ Discard(t)
  PROVE  /\ hook[t] \in 1..Len(recs) /\ Len(recs') = Len(recs)
         /\ \A i \in 1..Len(recs) : i # hook[t] => recs'[i] = recs[i]
         /\ recs'[hook[t]].call = recs[hook[t]].call
         /\ recs'[hook[t]].task = recs[hook[t]].task
         /\ recs'[hook[t]].state = "discarded" => GivesUp(recs[hook[t]].call)
<1> DEFINE n == hook[t]
           r == recs[n]
<1>1. n \in 1..Len(recs) /\ r \in RecordType /\ recs \in Seq(RecordType)
  BY RecordTypes DEF TracerInv, TracerOK, Submit, Discard
<1>2. \E x \in RecordType :
        /\ recs' = [recs EXCEPT ![n] = x]
        /\ x.call = r.call /\ x.task = r.task
        /\ x.state = "discarded" => GivesUp(r.call)
  <2>1. CASE Submit(t)
    <3>1. PICK name \in NameReads(r.call) :
            recs' = [recs EXCEPT ![n] = [[r EXCEPT !.state = "ready"]
                                            EXCEPT !.ev = Filled(t, r.call, name)]]
      BY <2>1, <1>1 DEF Submit, RecordType
    <3>2. Filled(t, r.call, name) \in EventType
      BY <1>1, <2>1, FilledIsEvent DEF Submit, RecordType
    <3>3. ASSUME NEW e \in EventType
          PROVE  LET x == [[r EXCEPT !.state = "ready"] EXCEPT !.ev = e]
                 IN  x \in RecordType /\ x.task = r.task /\ x.call = r.call /\ x.state = "ready"
      BY <1>1 DEF RecordType
    <3> HIDE DEF r
    <3> DEFINE y == [[r EXCEPT !.state = "ready"] EXCEPT !.ev = Filled(t, r.call, name)]
    <3>4. y \in RecordType /\ y.task = r.task /\ y.call = r.call /\ y.state = "ready"
      BY <3>2, <3>3
    <3>5. recs' = [recs EXCEPT ![n] = y]
      BY <3>1
    <3> HIDE DEF y
    <3> QED BY <3>4, <3>5
  <2>2. CASE Discard(t)
    <3>1. recs' = [recs EXCEPT ![n] = [r EXCEPT !.state = "discarded"]] /\ GivesUp(r.call)
      BY <2>2 DEF Discard
    <3>2. LET x == [r EXCEPT !.state = "discarded"]
          IN  x \in RecordType /\ x.task = r.task /\ x.call = r.call
      BY <1>1 DEF RecordType
    <3> HIDE DEF r
    <3> QED BY <3>1, <3>2
  <2> QED BY <2>1, <2>2
<1>3. PICK x \in RecordType :
        /\ recs' = [recs EXCEPT ![n] = x]
        /\ x.call = r.call /\ x.task = r.task
        /\ x.state = "discarded" => GivesUp(r.call)
  BY <1>2
<1>4. Len(recs') = Len(recs) /\ \A i \in 1..Len(recs) : recs'[i] = IF i = n THEN x ELSE recs[i]
  BY <1>1, <1>3, ExceptSeq
<1> QED BY <1>1, <1>3, <1>4

LEMMA DiscardsStep == PipelineInv /\ DiscardsGaveUp /\ [Next]_vars => DiscardsGaveUp'
<1> SUFFICES ASSUME PipelineInv, DiscardsGaveUp, [Next]_vars PROVE DiscardsGaveUp'
  OBVIOUS
<1>1. TracerInv /\ Len(recs) \in Nat
  BY RecordTypes DEF PipelineInv
<1>2. ASSUME NEW t \in Tasks, NEW c \in Calls, HookStarts(t, c) PROVE DiscardsGaveUp'
  <2> DEFINE r == [state |-> "busy", ev |-> ZeroEvent(c.op), task |-> t, call |-> c]
  <2>1. /\ Len(recs') = Len(recs) + 1 /\ recs'[Len(recs) + 1] = r /\ r.state # "discarded"
        /\ \A i \in 1..Len(recs) : recs'[i] = recs[i]
    BY <1>1, <1>2 DEF HookStarts, Reserve
  <2> HIDE DEF r
  <2> SUFFICES ASSUME NEW i \in 1..Len(recs'), recs'[i].state = "discarded"
               PROVE  GivesUp(recs'[i].call)
    BY DEF DiscardsGaveUp
  <2>2. i \in 1..Len(recs)
    BY <1>1, <2>1
  <2> QED BY <2>1, <2>2 DEF DiscardsGaveUp
<1>3. ASSUME NEW t \in Tasks, HookEnds(t) PROVE DiscardsGaveUp'
  BY <1>1, <1>3, HookEndsAt DEF HookEnds, DiscardsGaveUp
<1>4. CASE UNCHANGED recs
  BY <1>4 DEF DiscardsGaveUp
<1>5. CASE \/ Dispatch \/ PostReturns
           \/ \E path \in ListChanges : UpdateList(path)
           \/ \E c \in Clients : Request(c) \/ Answer(c)
           \/ UNCHANGED vars
  <2>1. UNCHANGED recs
    BY <1>5
       DEF Dispatch, Skip, SkipDiscarded, Reject, PrintEvent, Accept, Send, Cache,
           PostReturns, UpdateList, Request, Answer, Release, vars, tracerVars
  <2> QED BY <1>4, <2>1
<1> QED BY <1>2, <1>3, <1>5 DEF Next

(* What the mapping sees of the steps that are not its business.           *)
LEMMA OutputsSame ==
  ASSUME UNCHANGED <<accepted, metered, posted, cached>>
  PROVE  Entered' = Entered /\ Reported' = Reported
BY DEF Entered, Reported, GivenTo, EnabledOutputs, Ids

LEMMA ObservedSame ==
  ASSUME UNCHANGED recs
  PROVE  Observed' = Observed
BY DEF Observed

LEMMA PlaceSame ==
  ASSUME UNCHANGED <<pc, consumed, conf_list>>
  PROVE  Settled' = Settled /\ Monitored' = Monitored /\ Up' = Up
BY DEF Settled, Current, Idle, Monitored, Up

(* A call is observed when its hook gets a record. *)
LEMMA ReservingObserves ==
  ASSUME PipelineInv, NEW t \in Tasks, NEW c \in Calls, HookStarts(t, c)
  PROVE  Trail!Observe(OperationOf(t, c))
<1> DEFINE r == [state |-> "busy", ev |-> ZeroEvent(c.op), task |-> t, call |-> c]
           op == OperationOf(t, c)
<1>1. TracerInv /\ Len(recs) \in Nat
  BY RecordTypes DEF PipelineInv
<1>2. /\ Len(recs') = Len(recs) + 1 /\ recs'[Len(recs) + 1] = r
      /\ \A i \in 1..Len(recs) : recs'[i] = recs[i]
  BY <1>1 DEF HookStarts, Reserve
<1>3. r.task = t /\ r.call = c
  OBVIOUS
<1> HIDE DEF r
<1>4. Up /\ UNCHANGED <<consumed, pc, conf_list, accepted, metered, posted, cached>>
  BY DEF HookStarts, Reserve, dispVars, queueVars
<1>5. op.own = FALSE
  BY DEF HookStarts, Reserve, NotSelf, OperationOf
<1> DEFINE Op(i) == OperationOf(recs[i].task, recs[i].call)
           NewOp(i) == OperationOf(recs'[i].task, recs'[i].call)
           S == {Op(i) : i \in 1..Len(recs)} \cup {op}
<1>6. Observed \in Seq(S) /\ Len(Observed) = Len(recs) /\ \A i \in 1..Len(recs) : Observed[i] = Op(i)
  <2>1. \A i \in 1..Len(recs) : Op(i) \in S
    OBVIOUS
  <2> HIDE DEF S, Op
  <2>2. Observed = [i \in 1..Len(recs) |-> Op(i)]
    BY DEF Observed, Op
  <2> QED BY <1>1, <2>1, <2>2, IsASeq
<1>7. \A i \in 1..Len(recs) : NewOp(i) = Op(i)
  BY <1>2
<1>8. NewOp(Len(recs) + 1) = op
  BY <1>2, <1>3
<1>9. op \in S
  OBVIOUS
<1>10. Observed' = [i \in 1..(Len(recs) + 1) |-> NewOp(i)]
  BY <1>2 DEF Observed
<1> HIDE DEF S, Op, NewOp, op
<1>11. \A i \in 1..(Len(recs) + 1) : NewOp(i) = IF i = Len(recs) + 1 THEN op ELSE Op(i)
  BY <1>1, <1>7, <1>8
<1>12. \A i \in 1..(Len(recs) + 1) : NewOp(i) \in S
  <2>1. \A i \in 1..Len(recs) : Op(i) \in S
    BY DEF S
  <2> QED BY <1>1, <1>9, <1>11, <2>1
<1>13. Observed' \in Seq(S) /\ Len(Observed') = Len(recs) + 1
       /\ \A i \in 1..(Len(recs) + 1) : Observed'[i] = NewOp(i)
  BY <1>1, <1>10, <1>12, IsASeq
<1>14. /\ Append(Observed, op) \in Seq(S) /\ Len(Append(Observed, op)) = Len(recs) + 1
       /\ \A i \in 1..Len(recs) : Append(Observed, op)[i] = Op(i)
       /\ Append(Observed, op)[Len(recs) + 1] = op
  BY <1>6, <1>9, AppendProperties
<1>15. \A i \in 1..(Len(recs) + 1) : Observed'[i] = Append(Observed, op)[i]
  BY <1>1, <1>11, <1>13, <1>14
<1>16. Observed' = Append(Observed, op)
  BY <1>13, <1>14, <1>15, SeqEqual
<1>17. Trail!Observe(op)
  BY <1>4, <1>5, <1>16, OutputsSame, PlaceSame DEF Trail!Observe, op
<1> QED BY <1>17 DEF op

(* Filling and submitting or discarding it is not seen. *)
LEMMA FillingIsHidden ==
  ASSUME PipelineInv, NEW t \in Tasks, HookEnds(t)
  PROVE  UNCHANGED Trail!trailVars
<1>1. /\ Len(recs') = Len(recs)
      /\ \A i \in 1..Len(recs) : recs'[i].task = recs[i].task /\ recs'[i].call = recs[i].call
  BY HookEndsAt DEF HookEnds, PipelineInv
<1>2. Observed' = Observed
  BY <1>1 DEF Observed
<1>3. UNCHANGED <<consumed, pc, conf_list, accepted, metered, posted, cached>>
  BY DEF HookEnds, Submit, Discard, dispVars, queueVars
<1> QED BY <1>2, <1>3, OutputsSame, PlaceSame DEF Trail!trailVars

(* Between two callbacks every output has been given the whole trail.      *)
LEMMA IdleHasReported ==
  ASSUME PipelineInv, Idle
  PROVE  Trail!NothingToReport
<1>1. EffectsFollow /\ pc = "poll"
  BY DEF PipelineInv, DispInv, Idle
<1>2. ASSUME NEW o \in EnabledOutputs PROVE GivenTo(o) = Ids(accepted)
  <2>1. ~Verbose /\ o \in {"exporter", "service", "cache"}
    BY DEF EnabledOutputs
  <2>2. CASE o = "exporter"
    BY <1>1, <2>1, <2>2 DEF EffectsFollow, GivenTo
  <2>3. CASE o = "service"
    BY <1>1, <2>1, <2>3 DEF EffectsFollow, GivenTo, EnabledOutputs
  <2>4. CASE o = "cache"
    BY <1>1, <2>1, <2>4 DEF EffectsFollow, GivenTo, EnabledOutputs, Idle
  <2> QED BY <2>1, <2>2, <2>3, <2>4
<1> QED BY <1>2 DEF Trail!NothingToReport, Reported, Entered

(* The record at the head of the ring is the next to be judged.            *)
LEMMA HeadIsSubject ==
  ASSUME PipelineInv, Idle, NEW state, HeadIs(state)
  PROVE  /\ Settled + 1 = Current /\ Settled \in Nat /\ Settled < Len(Observed)
         /\ Trail!Subject = OperationOf(recs[Current].task, recs[Current].call)
<1>1. /\ consumed \in Nat /\ Current = consumed + 1 /\ Current \in 1..Len(recs)
      /\ consumed < Len(recs) /\ Len(recs) \in Nat
  BY HeadProperties, RecordTypes DEF PipelineInv
<1>2. Settled = consumed
  BY DEF Settled
<1> DEFINE Op(i) == OperationOf(recs[i].task, recs[i].call)
<1>3. Observed = [i \in 1..Len(recs) |-> Op(i)]
  BY DEF Observed
<1>4. Op(Current) = OperationOf(recs[Current].task, recs[Current].call)
  OBVIOUS
<1> HIDE DEF Op
<1>5. Len(Observed) = Len(recs) /\ Observed[Current] = Op(Current)
  <2> DEFINE S == {Op(i) : i \in 1..Len(recs)}
  <2>1. \A i \in 1..Len(recs) : Op(i) \in S
    OBVIOUS
  <2> HIDE DEF S
  <2> QED BY <1>1, <1>3, <2>1, IsASeq
<1>6. Settled + 1 = Current /\ Settled \in Nat /\ Settled < Len(Observed)
  BY <1>1, <1>2, <1>5
<1> QED BY <1>4, <1>5, <1>6 DEF Trail!Subject

(* A step that settles it, and leaves outputs and list as they are.        *)
LEMMA SettlingJudges ==
  ASSUME PipelineInv, Idle, NEW state, HeadIs(state),
         \/ Release /\ pc' = pc
         \/ pc' = "send" /\ UNCHANGED tracerVars,
         UNCHANGED <<conf_list, metered, posted, cached>>
  PROVE  Trail!Judge
<1>1. /\ Settled + 1 = Current /\ Settled \in Nat /\ Settled < Len(Observed)
      /\ Settled = consumed /\ Current = consumed + 1
  BY HeadIsSubject DEF Settled, Current
<1>2. Settled' = Settled + 1
  BY <1>1 DEF Settled, Current, Release, tracerVars, Idle
<1>3. Up /\ Up' = Up
  BY DEF Up, Idle
<1>4. UNCHANGED recs
  BY DEF Release, tracerVars
<1>5. Reported' = Reported /\ Monitored' = Monitored
  BY DEF Reported, GivenTo, EnabledOutputs, Ids, Monitored
<1> QED BY <1>1, <1>2, <1>3, <1>4, <1>5, ObservedSame, IdleHasReported DEF Trail!Judge

LEMMA SkippingLeavesOut ==
  ASSUME PipelineInv, TrailInv, Skip
  PROVE  Trail!LeaveOut
<1>1. /\ Idle /\ HeadIs("discarded") /\ Release
      /\ UNCHANGED <<pc, conf_list, accepted, metered, posted, cached>>
  BY DEF Skip, SkipDiscarded, queueVars, dispVars
<1>2. Trail!Judge
  BY <1>1, SettlingJudges
<1>3. GivesUp(recs[Current].call)
  BY <1>1, HeadProperties DEF TrailInv, DiscardsGaveUp, PipelineInv
<1>4. ~Trail!Subject.plain
  BY <1>1, <1>3, HeadIsSubject DEF OperationOf
<1> QED BY <1>1, <1>2, <1>4, OutputsSame DEF Trail!LeaveOut

(* What the list decides is what Watched says. *)
LEMMA MonitoredIsWatched ==
  ASSUME NEW path
  PROVE  path \in Monitored <=> Watched(path, conf_list)
BY DEF Monitored, Watched

LEMMA RejectingLeavesOut ==
  ASSUME Exactable, PipelineInv, TrailInv, Reject
  PROVE  Trail!LeaveOut
<1>1. /\ Idle /\ HeadIs("ready") /\ Release /\ ~IsValidEvent(HeadEvent, conf_list)
      /\ UNCHANGED <<pc, conf_list, accepted, metered, posted, cached>>
  BY DEF Reject, queueVars
<1>2. Trail!Judge
  BY <1>1, SettlingJudges
<1>3. TracerInv /\ RecsTell /\ Judged(Verdict, FALSE)
  BY <1>1, JudgedNow DEF TrailInv, CaptureInv, PipelineInv
<1>4. Verdict.id = Current /\ Verdict.list = conf_list
  BY DEF Verdict
<1> DEFINE op == OperationOf(recs[Current].task, recs[Current].call)
<1>5. op.plain => op.file \notin Monitored
  <2> SUFFICES ASSUME op.plain PROVE ~Watched(TargetOf(recs[Current].call), conf_list)
    BY MonitoredIsWatched DEF OperationOf
  <2> QED BY <1>3, <1>4, RejectedIsElsewhere DEF OperationOf
<1> HIDE DEF op
<1>6. Trail!Subject = op
  BY <1>1, HeadIsSubject DEF op
<1> QED BY <1>1, <1>2, <1>5, <1>6, OutputsSame DEF Trail!LeaveOut

LEMMA AcceptingEnters ==
  ASSUME Exactable, PipelineInv, TrailInv, PrintEvent \/ Accept
  PROVE  Trail!Enter
<1>1. /\ Idle /\ HeadIs("ready") /\ IsValidEvent(HeadEvent, conf_list)
      /\ accepted' = Append(accepted, Verdict)
      /\ \/ Release /\ pc' = pc
         \/ pc' = "send" /\ UNCHANGED tracerVars
      /\ UNCHANGED <<conf_list, metered, posted, cached>>
  BY DEF PrintEvent, Accept, queueVars
<1>2. Trail!Judge
  BY <1>1, SettlingJudges
<1>3. TracerInv /\ RecsTell /\ Judged(Verdict, TRUE)
  BY <1>1, JudgedNow DEF TrailInv, CaptureInv, PipelineInv
<1>4. Verdict.id = Current /\ Verdict.list = conf_list
  BY DEF Verdict
<1>5. TargetOf(recs[Current].call) \in Monitored
  BY <1>3, <1>4, AcceptedTouches, MonitoredIsWatched
<1>6. Trail!Subject.file \in Monitored
  BY <1>1, <1>5, HeadIsSubject DEF OperationOf
<1>7. Entered' = Append(Entered, Settled + 1)
  <2>1. Ids(accepted') = Append(Ids(accepted), Current)
    BY <1>1, AcceptCurrent DEF PipelineInv, DispInv
  <2>2. Settled + 1 = Current
    BY <1>1, HeadIsSubject
  <2> QED BY <2>1, <2>2 DEF Entered
<1> QED BY <1>2, <1>6, <1>7 DEF Trail!Enter

LEMMA ReportedGrows ==
  ASSUME NEW o \in EnabledOutputs,
         GivenTo(o)' = Append(GivenTo(o), Current),
         \A x \in EnabledOutputs \ {o} : GivenTo(x)' = GivenTo(x)
  PROVE  Reported' = [Reported EXCEPT ![o] = Append(@, Current)]
<1>1. Reported' = [x \in EnabledOutputs |-> GivenTo(x)']
  BY DEF Reported, EnabledOutputs
<1>2. \A x \in EnabledOutputs : Reported[x] = GivenTo(x)
  BY DEF Reported
<1>3. Reported = [x \in EnabledOutputs |-> Reported[x]]
  BY DEF Reported
<1> QED BY <1>1, <1>2, <1>3

(* The output that gets the record in hand is given the next entry.        *)
LEMMA GivingReports ==
  ASSUME PipelineInv, ~Idle, Up, NEW o \in EnabledOutputs,
         GivenTo(o) \in Seq(Nat),
         Ids(accepted) = Append(GivenTo(o), Current),
         Reported' = [Reported EXCEPT ![o] = Append(@, Current)],
         UNCHANGED <<recs, conf_list, accepted>>, Settled' = Settled
  PROVE  Trail!Report(o)
<1>1. Current \in Nat
  BY InHand DEF PipelineInv
<1>2. /\ Entered = Append(GivenTo(o), Current) /\ Reported[o] = GivenTo(o)
      /\ UNCHANGED <<Observed, Monitored, Entered>>
  BY ObservedSame DEF Entered, Reported, Monitored, Ids
<1>3. /\ Len(GivenTo(o)) < Len(Entered) /\ Entered[Len(GivenTo(o)) + 1] = Current
  <2>1. /\ Len(Entered) = Len(GivenTo(o)) + 1 /\ Entered[Len(GivenTo(o)) + 1] = Current
        /\ Len(GivenTo(o)) \in Nat
    BY <1>1, <1>2, AppendProperties, LenProperties
  <2> QED BY <2>1
<1>4. Reported' = [Reported EXCEPT ![o] = Append(@, Entered[Len(@) + 1])]
  BY <1>2, <1>3
<1>5. Up /\ Up' \in BOOLEAN
  BY DEF Up
<1> QED BY <1>2, <1>3, <1>4, <1>5 DEF Trail!Report

LEMMA SendingReports ==
  ASSUME PipelineInv, Send
  PROVE  Trail!Report("exporter")
<1>1. /\ pc = "send" /\ pc' # "poll" /\ ~Idle /\ Up
      /\ metered' = Append(metered, Current)
      /\ UNCHANGED <<recs, consumed, conf_list, accepted, posted, cached>>
  BY DEF Send, Idle, Up, tracerVars, queueVars
<1>2. ~Verbose /\ metered \in Seq(Nat) /\ Ids(accepted) = Append(metered, Current)
  <2>1. ~Verbose /\ EffectsFollow /\ metered \in Seq(1..MaxRecords)
    BY <1>1, InHand DEF PipelineInv, DispInv, DispOK
  <2>2. metered \in Seq(Nat)
    <3>1. 1..MaxRecords \subseteq Nat
      OBVIOUS
    <3> QED BY <2>1, <3>1, SeqMonotonic
  <2> QED BY <1>1, <2>1, <2>2 DEF EffectsFollow
<1>3. "exporter" \in EnabledOutputs
  BY <1>2 DEF EnabledOutputs
<1>4. Settled' = Settled
  BY <1>1 DEF Settled, Current, Idle
<1>5. Reported' = [Reported EXCEPT !["exporter"] = Append(@, Current)]
  <2>1. GivenTo("exporter")' = Append(GivenTo("exporter"), Current)
    BY <1>1 DEF GivenTo
  <2>2. \A x \in EnabledOutputs \ {"exporter"} : GivenTo(x)' = GivenTo(x)
    BY <1>1 DEF GivenTo, EnabledOutputs, Ids
  <2> QED BY <1>3, <2>1, <2>2, ReportedGrows
<1>6. GivenTo("exporter") = metered
  BY DEF GivenTo
<1> QED BY <1>1, <1>2, <1>3, <1>4, <1>5, <1>6, GivingReports

LEMMA PostingReports ==
  ASSUME PipelineInv, PostReturns
  PROVE  Trail!Report("service") /\ "service" \in EnabledOutputs
<1>1. /\ pc = "post" /\ pc' # "poll" /\ ~Idle /\ Up
      /\ posted' = Append(posted, Current)
      /\ UNCHANGED <<recs, consumed, conf_list, accepted, metered, cached>>
  BY DEF PostReturns, Idle, Up, tracerVars, queueVars
<1>2. ~Verbose /\ Publish /\ posted \in Seq(Nat) /\ Ids(accepted) = Append(posted, Current)
  <2>1. ~Verbose /\ Publish /\ EffectsFollow /\ posted \in Seq(1..MaxRecords)
    BY <1>1, InHand DEF PipelineInv, DispInv, DispOK, ModesOK
  <2>2. posted \in Seq(Nat)
    <3>1. 1..MaxRecords \subseteq Nat
      OBVIOUS
    <3> QED BY <2>1, <3>1, SeqMonotonic
  <2> QED BY <1>1, <2>1, <2>2 DEF EffectsFollow
<1>3. "service" \in EnabledOutputs
  BY <1>2 DEF EnabledOutputs
<1>4. Settled' = Settled
  BY <1>1 DEF Settled, Current, Idle
<1>5. Reported' = [Reported EXCEPT !["service"] = Append(@, Current)]
  <2>1. GivenTo("service")' = Append(GivenTo("service"), Current)
    BY <1>1 DEF GivenTo
  <2>2. \A x \in EnabledOutputs \ {"service"} : GivenTo(x)' = GivenTo(x)
    BY <1>1 DEF GivenTo, EnabledOutputs, Ids
  <2> QED BY <1>3, <2>1, <2>2, ReportedGrows
<1>6. GivenTo("service") = posted
  BY DEF GivenTo
<1> QED BY <1>1, <1>2, <1>3, <1>4, <1>5, <1>6, GivingReports

(* Caching reports the record, where events are cached, and ends the      *)
(* callback, after which the record still is the last one judged.          *)
LEMMA CachingTells ==
  ASSUME PipelineInv, Cache
  PROVE  \/ "cache" \in EnabledOutputs /\ Trail!Report("cache")
         \/ UNCHANGED Trail!trailVars
<1>1. /\ pc = "cache" /\ pc' = "poll" /\ ~Idle /\ Up /\ Up'
      /\ consumed' = consumed + 1 /\ Q!CacheEvent(ReportOf(Current))
      /\ UNCHANGED <<recs, conf_list, accepted, posted, metered>>
  BY DEF Cache, Release, Idle, Up
<1>2. Settled' = Settled /\ Monitored' = Monitored
  BY <1>1 DEF Settled, Current, Idle, Monitored
<1>3. ~Verbose /\ EffectsFollow /\ cached \in Seq(Q!ReportType)
  BY <1>1, InHand DEF PipelineInv, DispInv, QueueInv, Q!QueueTypeOK
<1>4. CASE CacheData
  <2>1. "cache" \in EnabledOutputs
    BY <1>3, <1>4 DEF EnabledOutputs
  <2>2. /\ ReportOf(Current) \in Q!ReportType /\ ReportOf(Current).id = Current
        /\ \A x \in Q!ReportType : x.id \in Nat
    BY <1>1, CurrentIsReport DEF Q!ReportType
  <2>3. cached' = Append(cached, ReportOf(Current))
    BY <1>1, <1>4 DEF Q!CacheEvent
  <2>4. Ids(cached)' = Append(Ids(cached), Current)
    <3>1. Ids(Append(cached, ReportOf(Current))) = Append(Ids(cached), Current)
      BY <1>3, <2>2, IdsAppend
    <3> QED BY <2>3, <3>1 DEF Ids
  <2>5. Ids(accepted) = Append(Ids(cached), Current)
    BY <1>1, <1>3, <1>4 DEF EffectsFollow
  <2>6. Ids(cached) \in Seq(Nat)
    <3>1. Len(cached) \in Nat /\ \A k \in 1..Len(cached) : cached[k].id \in Nat
      BY <1>3, <2>2, LenProperties, ElementOfSeq
    <3> QED BY <3>1, IsASeq DEF Ids
  <2>7. Reported' = [Reported EXCEPT !["cache"] = Append(@, Current)]
    <3>1. GivenTo("cache")' = Append(GivenTo("cache"), Current)
      BY <2>4 DEF GivenTo
    <3>2. \A x \in EnabledOutputs \ {"cache"} : GivenTo(x)' = GivenTo(x)
      BY <1>1 DEF GivenTo, EnabledOutputs
    <3> QED BY <2>1, <3>1, <3>2, ReportedGrows
  <2>8. GivenTo("cache") = Ids(cached)
    BY DEF GivenTo
  <2> QED BY <1>1, <1>2, <2>1, <2>5, <2>6, <2>7, <2>8, GivingReports
<1>5. CASE ~CacheData
  <2>1. UNCHANGED cached
    BY <1>1, <1>5 DEF Q!CacheEvent
  <2>2. UNCHANGED <<Observed, Entered, Reported>>
    BY <1>1, <2>1, ObservedSame, OutputsSame
  <2> QED BY <1>1, <1>2, <2>2 DEF Trail!trailVars
<1> QED BY <1>4, <1>5

(* A request to change the list is the list changing, whether or not it is *)
(* looked at.                                                              *)
LEMMA UpdatingChanges ==
  ASSUME NEW path \in ListChanges, UpdateList(path)
  PROVE  Trail!ChangeWatched(path)
<1>1. /\ Up /\ UNCHANGED <<recs, consumed, pc, accepted, metered, posted, cached>>
      /\ conf_list' \in {conf_list \cup {path}, conf_list \ {path}}
  BY DEF UpdateList, tracerVars, queueVars
<1>2. Monitored' \in {Monitored \cup {path}, Monitored \ {path}}
  BY <1>1 DEF Monitored
<1>3. Settled' = Settled /\ Up' = Up
  BY <1>1 DEF Settled, Current, Idle, Up
<1> QED BY <1>1, <1>2, <1>3, ObservedSame, OutputsSame DEF Trail!ChangeWatched

(* The requests for events are not seen. *)
LEMMA RequestsAreHidden ==
  ASSUME UNCHANGED <<recs, consumed, pc, conf_list, accepted, metered, posted, cached>>
  PROVE  UNCHANGED Trail!trailVars
BY ObservedSame, OutputsSame, PlaceSame DEF Trail!trailVars

LEMMA TrailInvStep == PipelineInv /\ TrailInv /\ [Next]_vars => TrailInv'
BY DiscardsStep, CaptureStep DEF TrailInv

LEMMA TrailStarts == Init => Trail!TrailInit /\ TrailInv
<1> SUFFICES ASSUME Init PROVE Trail!TrailInit /\ TrailInv
  OBVIOUS
<1>1. /\ recs = <<>> /\ consumed = 0 /\ pc = "poll" /\ conf_list = InitialList
      /\ accepted = <<>> /\ metered = <<>> /\ posted = <<>> /\ cached = <<>>
  BY DEF Init, TracerInit, Q!QueueInit
<1>2. Ids(<<>>) = <<>>
  BY EmptySeq DEF Ids
<1>3. Observed = <<>>
  BY <1>1, EmptySeq DEF Observed
<1>4. Settled = 0 /\ Up
  BY <1>1 DEF Settled, Idle, Up
<1>5. Entered = <<>> /\ Reported = [o \in EnabledOutputs |-> <<>>]
  BY <1>1, <1>2 DEF Entered, Reported, GivenTo, EnabledOutputs
<1>6. Monitored = IF Verbose THEN InitialList \cup {MonitorFile} ELSE InitialList
  BY <1>1 DEF Monitored
<1>7. Trail!TrailInit
  BY <1>3, <1>4, <1>5, <1>6 DEF Trail!TrailInit
<1>8. DiscardsGaveUp
  BY <1>1, EmptySeq DEF DiscardsGaveUp
<1> QED BY <1>7, <1>8, CaptureInvInit DEF TrailInv

LEMMA TrailSteps ==
  ASSUME Exactable, PipelineInv, TrailInv, [Next]_vars
  PROVE  [Trail!TrailNext]_(Trail!trailVars)
<1>1. CASE \E t \in Tasks, c \in Calls : HookStarts(t, c)
  BY <1>1, ReservingObserves DEF Trail!TrailNext
<1>2. CASE \E t \in Tasks : HookEnds(t)
  BY <1>2, FillingIsHidden
<1>3. CASE Skip \/ Reject
  BY <1>3, SkippingLeavesOut, RejectingLeavesOut DEF Trail!TrailNext
<1>4. CASE PrintEvent \/ Accept
  BY <1>4, AcceptingEnters DEF Trail!TrailNext
<1>5. CASE Send
  <2>1. "exporter" \in EnabledOutputs
    BY <1>5, InHand DEF EnabledOutputs, Send, Idle, PipelineInv
  <2> QED BY <1>5, <2>1, SendingReports DEF Trail!TrailNext
<1>6. CASE PostReturns
  BY <1>6, PostingReports DEF Trail!TrailNext
<1>7. CASE Cache
  BY <1>7, CachingTells DEF Trail!TrailNext
<1>8. CASE \E path \in ListChanges : UpdateList(path)
  BY <1>8, UpdatingChanges DEF Trail!TrailNext
<1>9. CASE \/ \E c \in Clients : Request(c) \/ Answer(c)
           \/ UNCHANGED vars
  <2>1. UNCHANGED <<recs, consumed, pc, conf_list, accepted, metered, posted, cached>>
    BY <1>9 DEF Request, Answer, Q!Pop, Q!Respond, Q!RespondOK, Q!RespondError,
                vars, tracerVars, queueVars, dispVars
  <2> QED BY <2>1, RequestsAreHidden
<1> QED BY <1>1, <1>2, <1>3, <1>4, <1>5, <1>6, <1>7, <1>8, <1>9 DEF Next, Dispatch

(* On the root file system, with monitored paths within MaxDepth levels,   *)
(* the hooks, the ring buffer, the polling thread and the outputs together *)
(* keep the promise of AuditTrail, for any number of threads, requests,    *)
(* outputs and records.                                                    *)
THEOREM PipelineKeepsAuditTrail == ASSUME Exactable PROVE Spec => KeepsAuditTrail
<1>1. PipelineInv /\ TrailInv /\ [Next]_vars => [Trail!TrailNext]_(Trail!trailVars)
  BY TrailSteps
<1> QED
  BY <1>1, TrailStarts, TrailInvStep, PipelineInvAlways, PTL
     DEF Spec, KeepsAuditTrail, Trail!TrailSpec
=============================================================================
