--------------------------- MODULE PipelineProofs ---------------------------
(***************************************************************************)
(* The pipeline, for any tasks, calls, ring size, modes and monitored      *)
(* lists: types, the order in which records are settled, that every output *)
(* sees exactly the accepted events and, for files the events can name     *)
(* whole, that the verdicts are those of the real paths.                   *)
(***************************************************************************)
EXTENDS Pipeline, PathsProofs

QP == INSTANCE EventQueueProofs WITH MaxEvents <- MaxRecords

(* The kernel side: a hook that holds a record is the only one to fill it. *)
TracerOK ==
  /\ recs \in Seq(RecordType) /\ Len(recs) <= MaxRecords
  /\ consumed \in 0..Len(recs) /\ Len(recs) - consumed <= RingSlots
  /\ hook \in [Tasks -> 0..Len(recs)]

HookOwns ==
  \A t \in Tasks :
    hook[t] # 0 => recs[hook[t]].state = "busy" /\ recs[hook[t]].task = t

TracerInv == TracerOK /\ HookOwns

QueueInv == Q!QueueTypeOK /\ Q!QueueIsRecent

DispOK ==
  /\ pc \in {"poll", "send", "post", "cache", "down"}
  /\ ~Idle => HeadIs("ready")
  /\ conf_list \subseteq Path
  /\ accepted \in Seq(VerdictType)
  /\ rejected \subseteq VerdictType
  /\ metered \in Seq(1..MaxRecords)
  /\ posted \in Seq(1..MaxRecords)
  /\ logged \subseteq 1..MaxRecords

(* Which parts of the callback the modes rule out. *)
ModesOK == (Verbose => Idle) /\ (pc = "post" => Publish)

(* The parts of SettledInOrder, and what holds inside the callback. *)
Ruled   == {accepted[k].id : k \in 1..Len(accepted)}
Refused == {v.id : v \in rejected}

PassedAreSettled ==
  \A i \in 1..consumed :
    \/ recs[i].state = "discarded"
    \/ recs[i].state = "ready" /\ i \in Ruled \cup Refused
NoneAhead  == Ruled \cup Refused \subseteq 1..Settled
OneVerdict == Ruled \cap Refused = {}
Increasing ==
  \A k \in 1..Len(accepted), l \in 1..Len(accepted) :
    k < l => accepted[k].id < accepted[l].id
InHandIsRuled == ~Idle => Current \in Ruled

SettledInv == PassedAreSettled /\ NoneAhead /\ OneVerdict /\ Increasing /\ InHandIsRuled

DispInv == DispOK /\ ModesOK /\ SettledInv /\ EffectsFollow

PipelineInv == TracerInv /\ QueueInv /\ DispInv
-----------------------------------------------------------------------------
(* The kernel side.                                                        *)

(* A record that its hook has let go of stays as it is, and none is lost.  *)
RecsKept ==
  /\ Len(recs) <= Len(recs')
  /\ \A i \in 1..Len(recs) :
       recs[i].state \in {"ready", "discarded"} => recs'[i] = recs[i]

LEMMA RecordTypes ==
  ASSUME TracerInv
  PROVE  /\ Len(recs) \in Nat /\ consumed \in Nat
         /\ \A i \in 1..Len(recs) : recs[i] \in RecordType
BY LenProperties, ElementOfSeq DEF TracerInv, TracerOK

LEMMA ReserveStep ==
  ASSUME TracerInv, NEW t \in Tasks, NEW c \in Calls, Reserve(t, c)
  PROVE  TracerInv' /\ RecsKept
<1> DEFINE r == [state |-> "busy", ev |-> ZeroEvent(c.op), task |-> t, call |-> c]
<1>1. ZeroEvent(c.op) \in EventType
  <2>1. c.op \in Ops
    BY TracerAssumption DEF CallType
  <2>2. <<>> \in Path
    BY EmptySeq DEF Path
  <2> QED BY <2>1, <2>2, PathsAssumption DEF ZeroEvent, EventType
<1>2. r \in RecordType /\ r.state = "busy" /\ r.task = t
  BY <1>1 DEF RecordType
<1>3. recs \in Seq(RecordType) /\ Len(recs) \in Nat /\ recs' = Append(recs, r)
  BY RecordTypes DEF TracerInv, TracerOK, Reserve
<1> HIDE DEF r
<1>4. /\ recs' \in Seq(RecordType) /\ Len(recs') = Len(recs) + 1
      /\ \A i \in 1..Len(recs) : recs'[i] = recs[i]
      /\ recs'[Len(recs) + 1] = r
  BY <1>2, <1>3, AppendProperties
<1>5. TracerOK'
  <2>1. /\ Len(recs') <= MaxRecords /\ consumed' \in 0..Len(recs')
        /\ Len(recs') - consumed' <= RingSlots
    BY <1>3, <1>4, RecordTypes, TracerAssumption
       DEF TracerInv, TracerOK, Reserve, RingHasRoom
  <2>2. hook' \in [Tasks -> 0..Len(recs')]
    BY <1>3, <1>4 DEF TracerInv, TracerOK, Reserve
  <2> QED BY <1>4, <2>1, <2>2 DEF TracerOK
<1>6. HookOwns'
  <2> SUFFICES ASSUME NEW u \in Tasks, hook'[u] # 0
               PROVE  recs'[hook'[u]].state = "busy" /\ recs'[hook'[u]].task = u
    BY DEF HookOwns
  <2>1. CASE u = t
    <3>1. hook'[u] = Len(recs) + 1
      BY <2>1 DEF TracerInv, TracerOK, Reserve
    <3> QED BY <1>2, <1>4, <2>1, <3>1
  <2>2. CASE u # t
    <3>1. hook'[u] = hook[u] /\ hook[u] \in 1..Len(recs)
      BY <1>3, <2>2 DEF TracerInv, TracerOK, Reserve
    <3> QED BY <1>4, <3>1 DEF TracerInv, HookOwns
  <2> QED BY <2>1, <2>2
<1>7. RecsKept
  BY <1>3, <1>4 DEF RecsKept
<1> QED BY <1>5, <1>6, <1>7 DEF TracerInv

(* What Filled builds is an event. *)
LEMMA ParentIsPath ==
  ASSUME NEW d \in Path
  PROVE  DParent(d) \in Path
<1>1. Len(d) \in Nat /\ \A i \in 1..Len(d) : d[i] \in Names
  BY ElementOfSeq, LenProperties DEF Path
<1>2. \A i \in 1..Len(d) - 1 : d[i] \in Names
  BY <1>1
<1>3. SubSeq(d, 1, Len(d) - 1) \in Seq(Names)
  BY <1>1, <1>2, SubSeqProperties DEF Path
<1> QED BY <1>3 DEF DParent, Path

LEMMA FilledIsEvent ==
  ASSUME NEW t \in Tasks, NEW c \in Calls, ~GivesUp(c), NEW name \in NameReads(c)
  PROVE  Filled(t, c, name) \in EventType
<1>1. c \in CallType /\ t \in TaskType
  BY TracerAssumption
<1>2. c.op \in Ops /\ c.file \in Path /\ c.base \in Path /\ c.arg \in Path /\ c.oldutf8 \in BOOLEAN
  BY <1>1 DEF CallType
<1>3. name \in Path
  <2>1. CASE c.op \in FileOps
    <3>1. c.file # <<>> /\ name = DName(c.file)
      BY <2>1, TracerAssumption DEF GivesUp, NameReads
    <3>2. Len(c.file) \in Nat \ {0}
      BY <1>2, <3>1, EmptySeq, LenProperties DEF Path
    <3>3. c.file[Len(c.file)] \in Names
      BY <1>2, <3>2, ElementOfSeq DEF Path
    <3> QED BY <3>1, <3>3 DEF DName, Path
  <2>2. CASE c.op \notin FileOps
    BY <1>2, <2>2, EmptySeq DEF NameReads, Path
  <2> QED BY <2>1, <2>2
<1>4. DirsOf(c, name) \in Path
  <2>1. <<>> \in Path
    BY EmptySeq DEF Path
  <2>2. /\ FillParentDirs(c.file) \in Path
        /\ FillParentDirs(c.base) \in Path
        /\ FillDirChain(c.base) \in Path
    BY <1>2, LastNProperties, ParentIsPath, PathsAssumption
       DEF FillParentDirs, FillDirChain, Path
  <2> QED BY <2>1, <2>2 DEF DirsOf
<1>5. t.tgid \in Nat /\ t.comm \in Names /\ t.utf8 \in BOOLEAN
  BY <1>1 DEF TaskType
<1> QED BY <1>2, <1>3, <1>4, <1>5 DEF Filled, EventType

LEMMA HookEndsStep ==
  ASSUME TracerInv, NEW t \in Tasks, Submit(t) \/ Discard(t)
  PROVE  TracerInv' /\ RecsKept /\ Len(recs') = Len(recs) /\ consumed' = consumed
<1> DEFINE i == hook[t]
           r == recs[i]
<1>1. /\ i \in 1..Len(recs) /\ r \in RecordType /\ r.state = "busy" /\ r.task = t
      /\ Len(recs) \in Nat
  BY RecordTypes DEF TracerInv, TracerOK, HookOwns, Submit, Discard
<1>2. \E x \in RecordType : recs' = [recs EXCEPT ![i] = x] /\ x.task = t
  <2>1. CASE Submit(t)
    <3>1. PICK name \in NameReads(r.call) :
            recs' = [recs EXCEPT ![i] = [[r EXCEPT !.state = "ready"]
                                            EXCEPT !.ev = Filled(t, r.call, name)]]
      BY <2>1, <1>1 DEF Submit, RecordType
    <3>2. r.call \in Calls /\ ~GivesUp(r.call)
      BY <1>1, <2>1 DEF Submit, RecordType
    <3>3. Filled(t, r.call, name) \in EventType
      BY <3>2, FilledIsEvent
    <3>4. ASSUME NEW e \in EventType
          PROVE  LET x == [[r EXCEPT !.state = "ready"] EXCEPT !.ev = e]
                 IN  x \in RecordType /\ x.task = t
      BY <1>1 DEF RecordType
    <3> HIDE DEF r
    <3> QED BY <3>1, <3>3, <3>4
  <2>2. CASE Discard(t)
    <3>1. recs' = [recs EXCEPT ![i] = [r EXCEPT !.state = "discarded"]]
      BY <2>2 DEF Discard
    <3>2. LET x == [r EXCEPT !.state = "discarded"] IN x \in RecordType /\ x.task = t
      BY <1>1 DEF RecordType
    <3> HIDE DEF r
    <3> QED BY <3>1, <3>2
  <2> QED BY <2>1, <2>2
<1>3. PICK x \in RecordType : recs' = [recs EXCEPT ![i] = x] /\ x.task = t
  BY <1>2
<1>4. /\ recs' \in Seq(RecordType) /\ Len(recs') = Len(recs)
      /\ \A j \in 1..Len(recs) : recs'[j] = IF j = i THEN x ELSE recs[j]
  BY <1>1, <1>3, ExceptSeq DEF TracerInv, TracerOK
<1>5. hook' = [hook EXCEPT ![t] = 0] /\ consumed' = consumed
  BY DEF Submit, Discard
<1>6. TracerOK'
  BY <1>1, <1>4, <1>5 DEF TracerInv, TracerOK
<1>7. HookOwns'
  <2> SUFFICES ASSUME NEW u \in Tasks, hook'[u] # 0
               PROVE  recs'[hook'[u]].state = "busy" /\ recs'[hook'[u]].task = u
    BY DEF HookOwns
  <2>1. u # t /\ hook'[u] = hook[u] /\ hook[u] \in 1..Len(recs)
    BY <1>1, <1>5 DEF TracerInv, TracerOK
  <2>2. recs[hook[u]].state = "busy" /\ recs[hook[u]].task = u
    BY <2>1 DEF TracerInv, HookOwns
  <2>3. hook[u] # i
    BY <1>1, <2>1, <2>2
  <2> QED BY <1>4, <2>1, <2>2, <2>3
<1>8. RecsKept
  BY <1>1, <1>4 DEF RecsKept
<1> QED BY <1>4, <1>5, <1>6, <1>7, <1>8 DEF TracerInv

LEMMA ReleaseStep ==
  ASSUME TracerInv, consumed < Len(recs), Release
  PROVE  TracerInv' /\ RecsKept
<1>1. Len(recs) \in Nat /\ consumed' = consumed + 1 /\ recs' = recs /\ hook' = hook
  BY RecordTypes DEF Release
<1>2. TracerOK'
  BY <1>1, TracerAssumption DEF TracerInv, TracerOK
<1> QED BY <1>1, <1>2 DEF TracerInv, HookOwns, RecsKept
-----------------------------------------------------------------------------
(* The event cache: the lemmas of EventQueueProofs, for this instance.     *)
LEMMA QueueConstants ==
  /\ Counts \subseteq Int
  /\ MaxQueue \in Nat \ {0}
  /\ DefaultCount \in Nat \ {0}
  /\ CacheData \in BOOLEAN
  /\ Publish \in BOOLEAN
  /\ MaxRecords \in Nat
BY PipelineAssumption, TracerAssumption

LEMMA SameQueueInv == QueueInv <=> QP!QueueInv
BY DEF QueueInv, QP!QueueInv, QP!QueueTypeOK, QP!QueueIsRecent, QP!ReportType, QP!Start,
       Q!QueueTypeOK, Q!QueueIsRecent, Q!ReportType, Q!Start

LEMMA SameQueueInvNext == QueueInv' <=> QP!QueueInv'
BY DEF QueueInv, QP!QueueInv, QP!QueueTypeOK, QP!QueueIsRecent, QP!ReportType, QP!Start,
       Q!QueueTypeOK, Q!QueueIsRecent, Q!ReportType, Q!Start

LEMMA QueueInvInit == Q!QueueInit => QueueInv
<1>1. Q!QueueInit => QP!QueueInit
  BY DEF Q!QueueInit, QP!QueueInit
<1>2. QP!QueueInit => QP!QueueInv
  BY QueueConstants, QP!QueueInvInit
<1> QED BY <1>1, <1>2, SameQueueInv

LEMMA QueueUnchanged ==
  ASSUME QueueInv, UNCHANGED queueVars
  PROVE  QueueInv'
BY DEF queueVars, QueueInv, Q!QueueTypeOK, Q!QueueIsRecent, Q!ReportType, Q!Start

LEMMA CacheKeepsQueueInv ==
  ASSUME QueueInv, NEW e \in Q!ReportType, Q!CacheEvent(e)
  PROVE  QueueInv'
<1>1. CASE CacheData
  <2>1. QP!CacheEvent(e) /\ e \in QP!ReportType
    BY DEF QP!CacheEvent, Q!CacheEvent, Q!PushDroppingOldest, QP!PushDroppingOldest,
           Q!ReportType, QP!ReportType
  <2>2. QP!QueueInv
    BY SameQueueInv
  <2>3. QP!QueueInv'
    BY <1>1, <2>1, <2>2, QueueConstants, QP!CacheEventStep
  <2> QED BY <2>3, SameQueueInvNext
<1>2. CASE ~CacheData
  BY <1>2, QueueUnchanged DEF Q!CacheEvent, queueVars
<1> QED BY <1>1, <1>2

LEMMA PopKeepsQueueInv ==
  ASSUME QueueInv, NEW c \in Clients, NEW count \in Counts, Q!Pop(c, count)
  PROVE  QueueInv'
<1>1. QP!Pop(c, count)
  BY DEF QP!Pop, Q!Pop, QP!MinOf, Q!MinOf, QP!EffectiveCount, Q!EffectiveCount
<1>2. QP!QueueInv
  BY SameQueueInv
<1>3. QP!QueueInv'
  BY <1>1, <1>2, QueueConstants, QP!PopStep
<1> QED BY <1>3, SameQueueInvNext

LEMMA RespondKeepsQueueInv ==
  ASSUME QueueInv, NEW c \in Clients, Q!Respond(c)
  PROVE  QueueInv'
<1>1. QP!Respond(c)
  BY DEF QP!Respond, QP!RespondOK, QP!RespondError, QP!Printable, QP!EventsOf,
         Q!Respond, Q!RespondOK, Q!RespondError, Q!Printable, Q!EventsOf
<1>2. QP!QueueInv
  BY SameQueueInv
<1>3. QP!QueueInv'
  BY <1>1, <1>2, QueueConstants, QP!RespondStep
<1> QED BY <1>3, SameQueueInvNext
-----------------------------------------------------------------------------
(* The polling thread.                                                     *)
LEMMA IdsAppend ==
  ASSUME NEW S, \A x \in S : x.id \in Nat, NEW s \in Seq(S), NEW e \in S
  PROVE  Ids(Append(s, e)) = Append(Ids(s), e.id)
<1> DEFINE a == Append(s, e)
<1>1. Len(s) \in Nat /\ \A k \in 1..Len(s) : s[k] \in S
  BY LenProperties, ElementOfSeq
<1>2. /\ Len(a) = Len(s) + 1 /\ a[Len(s) + 1] = e
      /\ \A k \in 1..Len(s) : a[k] = s[k]
  BY AppendProperties
<1> HIDE DEF a
<1>3. Ids(s) \in Seq(Nat) /\ Len(Ids(s)) = Len(s) /\ \A k \in 1..Len(s) : Ids(s)[k] = s[k].id
  BY <1>1, IsASeq DEF Ids
<1>4. \A k \in 1..Len(a) : a[k].id \in Nat
  BY <1>1, <1>2
<1>5. Ids(a) \in Seq(Nat) /\ Len(Ids(a)) = Len(a) /\ \A k \in 1..Len(a) : Ids(a)[k] = a[k].id
  BY <1>1, <1>2, <1>4, IsASeq DEF Ids
<1>6. /\ Append(Ids(s), e.id) \in Seq(Nat)
      /\ Len(Append(Ids(s), e.id)) = Len(s) + 1
      /\ \A k \in 1..Len(s) : Append(Ids(s), e.id)[k] = s[k].id
      /\ Append(Ids(s), e.id)[Len(s) + 1] = e.id
  BY <1>3, AppendProperties
<1>7. \A k \in 1..Len(s) + 1 : Ids(a)[k] = Append(Ids(s), e.id)[k]
  BY <1>1, <1>2, <1>5, <1>6
<1>8. Ids(a) = Append(Ids(s), e.id)
  BY <1>2, <1>5, <1>6, <1>7, SeqEqual, SMTT(30)
<1> QED BY <1>8 DEF a

(* The record in hand is one that was reserved.                            *)
LEMMA HeadProperties ==
  ASSUME TracerInv, NEW state, HeadIs(state)
  PROVE  /\ consumed \in Nat /\ consumed < Len(recs)
         /\ Current = consumed + 1 /\ Current \in 1..MaxRecords
         /\ Current \in 1..Len(recs)
         /\ recs[Current] \in RecordType /\ recs[Current].state = state
BY RecordTypes, TracerAssumption DEF TracerInv, TracerOK, HeadIs, Current

LEMMA VerdictIsTyped ==
  ASSUME TracerInv, DispOK, HeadIs("ready")
  PROVE  Verdict \in VerdictType /\ Verdict.id = Current
BY HeadProperties DEF Verdict, VerdictType, DispOK

LEMMA RuledTypes ==
  ASSUME DispOK
  PROVE  /\ Len(accepted) \in Nat
         /\ \A k \in 1..Len(accepted) : accepted[k] \in VerdictType /\ accepted[k].id \in Nat
<1>1. accepted \in Seq(VerdictType)
  BY DEF DispOK
<1>2. Len(accepted) \in Nat /\ \A k \in 1..Len(accepted) : accepted[k] \in VerdictType
  BY <1>1, LenProperties, ElementOfSeq
<1>3. \A x \in VerdictType : x.id \in Nat
  BY DEF VerdictType
<1> QED BY <1>2, <1>3

(* Accepting the record in hand.                                           *)
LEMMA AcceptCurrent ==
  ASSUME TracerInv, DispOK, SettledInv, Idle, HeadIs("ready"),
         accepted' = Append(accepted, Verdict)
  PROVE  /\ accepted' \in Seq(VerdictType)
         /\ Ids(accepted') = Append(Ids(accepted), Current)
         /\ Ruled' = Ruled \cup {Current}
         /\ Increasing'
         /\ Current \notin Ruled \cup Refused
<1>1. Verdict \in VerdictType /\ Verdict.id = Current
  BY VerdictIsTyped
<1>2. /\ accepted \in Seq(VerdictType) /\ Len(accepted) \in Nat
      /\ \A k \in 1..Len(accepted) : accepted[k].id \in Nat
  BY RuledTypes DEF DispOK
<1>3. /\ accepted' \in Seq(VerdictType) /\ Len(accepted') = Len(accepted) + 1
      /\ accepted'[Len(accepted) + 1] = Verdict
      /\ \A k \in 1..Len(accepted) : accepted'[k] = accepted[k]
  BY <1>1, <1>2, AppendProperties
<1>4. Ids(accepted') = Append(Ids(accepted), Current)
  <2>1. \A x \in VerdictType : x.id \in Nat
    BY DEF VerdictType
  <2> QED BY <1>1, <1>2, <2>1, IdsAppend
<1>5. Ruled' = Ruled \cup {Current}
  BY <1>1, <1>2, <1>3, SMTT(30) DEF Ruled
<1>6. consumed \in Nat /\ Current = consumed + 1 /\ Ruled \cup Refused \subseteq 1..consumed
  BY HeadProperties DEF SettledInv, NoneAhead, Settled
<1>7. \A k \in 1..Len(accepted) : accepted[k].id < Current
  <2>1. \A k \in 1..Len(accepted) : accepted[k].id \in Ruled
    BY DEF Ruled
  <2>2. \A i \in 1..consumed : i < Current
    BY <1>2, <1>6
  <2> QED BY ONLY <1>6, <2>1, <2>2
<1>8. Increasing'
  <2> SUFFICES ASSUME NEW k \in 1..Len(accepted'), NEW l \in 1..Len(accepted'), k < l
               PROVE  accepted'[k].id < accepted'[l].id
    BY DEF Increasing
  <2>1. CASE l = Len(accepted) + 1
    BY <1>1, <1>2, <1>3, <1>7, <2>1
  <2>2. CASE l \in 1..Len(accepted)
    BY <1>2, <1>3, <2>2 DEF SettledInv, Increasing
  <2> QED BY <1>2, <1>3, <2>1, <2>2
<1>9. Current \notin Ruled \cup Refused
  BY <1>6
<1> QED BY <1>3, <1>4, <1>5, <1>8, <1>9

(* Steps that leave the thread where it is, or move it inside the callback. *)
LEMMA SettledFrame ==
  ASSUME TracerInv, SettledInv, RecsKept, consumed' = consumed, Idle' <=> Idle,
         UNCHANGED <<accepted, rejected>>
  PROVE  SettledInv'
<1>1. Ruled' = Ruled /\ Refused' = Refused /\ Settled' = Settled /\ Current' = Current
  BY DEF Ruled, Refused, Settled, Current
<1>2. PassedAreSettled'
  <2>1. \A i \in 1..consumed : i \in 1..Len(recs)
    BY RecordTypes DEF TracerInv, TracerOK
  <2>2. \A i \in 1..consumed : recs'[i] = recs[i]
    BY <2>1 DEF SettledInv, PassedAreSettled, RecsKept
  <2> QED BY <1>1, <2>2 DEF SettledInv, PassedAreSettled
<1> QED
  BY <1>1, <1>2 DEF SettledInv, NoneAhead, OneVerdict, Increasing, InHandIsRuled

(* The steps of the hooks and of the requests for events.                  *)
LEMMA OthersStep ==
  ASSUME TracerInv, DispInv, RecsKept, consumed' = consumed, Len(recs') \in Nat,
         UNCHANGED <<pc, accepted, rejected, metered, posted, logged, cached>>,
         conf_list' \subseteq Path
  PROVE  DispInv'
<1>1. Idle' <=> Idle
  BY DEF Idle
<1>2. HeadIs("ready") => HeadIs("ready")'
  <2> SUFFICES ASSUME HeadIs("ready") PROVE HeadIs("ready")'
    OBVIOUS
  <2>1. /\ consumed \in Nat /\ consumed < Len(recs) /\ Len(recs) \in Nat
        /\ consumed + 1 \in 1..Len(recs) /\ recs[consumed + 1].state = "ready"
    BY HeadProperties, RecordTypes DEF HeadIs
  <2> QED BY <2>1 DEF HeadIs, RecsKept
<1>3. DispOK'
  BY <1>1, <1>2 DEF DispInv, DispOK
<1>4. ModesOK'
  BY <1>1 DEF DispInv, ModesOK
<1>5. SettledInv'
  BY <1>1, SettledFrame DEF DispInv
<1>6. EffectsFollow'
  <2>1. Current' = Current
    BY DEF Current
  <2> QED BY <1>1, <2>1 DEF DispInv, EffectsFollow, Ids
<1> QED BY <1>3, <1>4, <1>5, <1>6 DEF DispInv

(* A step that settles the record in hand and returns to the ring: it was  *)
(* discarded, or is now in exactly one of the two sets of verdicts.        *)
LEMMA SettledRelease ==
  ASSUME TracerInv, DispOK, SettledInv, Release, Idle',
         HeadIs("discarded") \/ HeadIs("ready"),
         HeadIs("ready") => Current \in Ruled' \cup Refused',
         Ruled \subseteq Ruled', Refused \subseteq Refused',
         Ruled' \cup Refused' \subseteq Ruled \cup Refused \cup {Current},
         OneVerdict', Increasing'
  PROVE  SettledInv'
<1>1. /\ consumed \in Nat /\ Current = consumed + 1
      /\ recs[Current].state \in {"ready", "discarded"}
      /\ recs[Current].state = "ready" => HeadIs("ready")
  BY HeadProperties DEF HeadIs, Current
<1>2. recs' = recs /\ consumed' = consumed + 1 /\ Settled' = consumed + 1
  BY DEF Release, Settled
<1>3. PassedAreSettled'
  <2> SUFFICES ASSUME NEW i \in 1..consumed'
               PROVE  \/ recs'[i].state = "discarded"
                      \/ recs'[i].state = "ready" /\ i \in Ruled' \cup Refused'
    BY DEF PassedAreSettled
  <2>1. CASE i \in 1..consumed
    BY <1>2, <2>1 DEF SettledInv, PassedAreSettled
  <2>2. CASE i = Current
    BY <1>1, <1>2, <2>2
  <2> QED BY <1>1, <1>2, <2>1, <2>2
<1>4. NoneAhead'
  <2>1. Settled \in {consumed, consumed + 1}
    BY <1>1 DEF Settled
  <2>2. Ruled \cup Refused \subseteq 1..(consumed + 1)
    BY <1>1, <2>1 DEF SettledInv, NoneAhead
  <2>3. Current \in 1..(consumed + 1)
    BY <1>1
  <2> QED BY <1>2, <2>2, <2>3 DEF NoneAhead
<1> QED BY <1>3, <1>4 DEF SettledInv, InHandIsRuled

LEMMA SkipStep ==
  ASSUME TracerInv, DispInv, Skip
  PROVE  DispInv'
<1>1. Idle /\ HeadIs("discarded") /\ Release /\ UNCHANGED <<queueVars, dispVars>>
  BY DEF Skip, SkipDiscarded
<1>2. Idle' /\ Ruled' = Ruled /\ Refused' = Refused
  BY <1>1 DEF dispVars, Idle, Ruled, Refused
<1>3. DispOK' /\ ModesOK'
  BY <1>1, <1>2 DEF DispInv, DispOK, ModesOK, dispVars, Idle
<1>4. SettledInv'
  <2>1. OneVerdict' /\ Increasing' /\ ~HeadIs("ready")
    BY <1>1, <1>2 DEF DispInv, SettledInv, OneVerdict, Increasing, dispVars, HeadIs
  <2> QED BY <1>1, <1>2, <2>1, SettledRelease DEF DispInv
<1>5. EffectsFollow'
  BY <1>1, <1>2 DEF DispInv, EffectsFollow, Ids, dispVars, queueVars, Idle
<1> QED BY <1>3, <1>4, <1>5 DEF DispInv

LEMMA RejectStep ==
  ASSUME TracerInv, DispInv, Reject
  PROVE  DispInv'
<1>1. /\ Idle /\ HeadIs("ready") /\ Release
      /\ rejected' = rejected \cup {Verdict}
      /\ logged' \in {logged, logged \cup {Current}}
      /\ UNCHANGED <<queueVars, pc, conf_list, accepted, metered, posted>>
  BY DEF Reject
<1>2. Verdict \in VerdictType /\ Verdict.id = Current /\ Current \in 1..MaxRecords
  BY <1>1, VerdictIsTyped, HeadProperties DEF DispInv
<1>3. Idle' /\ Ruled' = Ruled /\ Refused' = Refused \cup {Current}
  BY <1>1, <1>2 DEF Idle, Ruled, Refused
<1>4. DispOK' /\ ModesOK'
  BY <1>1, <1>2, <1>3 DEF DispInv, DispOK, ModesOK, Idle
<1>5. SettledInv'
  <2>1. Current \notin Ruled \cup Refused
    <3>1. consumed \in Nat /\ Current = consumed + 1 /\ Settled = consumed
      BY <1>1, HeadProperties DEF Settled
    <3> QED BY <3>1 DEF DispInv, SettledInv, NoneAhead
  <2>2. OneVerdict' /\ Increasing'
    BY <1>1, <1>3, <2>1 DEF DispInv, SettledInv, OneVerdict, Increasing
  <2> QED BY <1>1, <1>3, <2>2, SettledRelease DEF DispInv
<1>6. EffectsFollow'
  BY <1>1, <1>3 DEF DispInv, EffectsFollow, Ids, queueVars, Idle
<1> QED BY <1>4, <1>5, <1>6 DEF DispInv

LEMMA PrintStep ==
  ASSUME TracerInv, DispInv, PrintEvent
  PROVE  DispInv'
<1>1. /\ Idle /\ HeadIs("ready") /\ Release /\ Verbose
      /\ accepted' = Append(accepted, Verdict)
      /\ UNCHANGED <<queueVars, pc, conf_list, rejected, metered, posted, logged>>
  BY DEF PrintEvent
<1>2. /\ accepted' \in Seq(VerdictType) /\ Ruled' = Ruled \cup {Current}
      /\ Increasing' /\ Current \notin Ruled \cup Refused
  BY <1>1, AcceptCurrent DEF DispInv
<1>3. Idle' /\ Refused' = Refused
  BY <1>1 DEF Idle, Refused
<1>4. DispOK' /\ ModesOK'
  BY <1>1, <1>2, <1>3 DEF DispInv, DispOK, ModesOK, Idle
<1>5. SettledInv'
  <2>1. OneVerdict'
    BY <1>2, <1>3 DEF DispInv, SettledInv, OneVerdict
  <2> QED BY <1>1, <1>2, <1>3, <2>1, SettledRelease DEF DispInv
<1>6. EffectsFollow'
  BY <1>1 DEF DispInv, EffectsFollow, Ids, queueVars
<1> QED BY <1>4, <1>5, <1>6 DEF DispInv

LEMMA AcceptStep ==
  ASSUME TracerInv, DispInv, Accept
  PROVE  DispInv'
<1>1. /\ Idle /\ HeadIs("ready") /\ ~Verbose
      /\ accepted' = Append(accepted, Verdict) /\ pc' = "send"
      /\ UNCHANGED <<tracerVars, queueVars, conf_list, rejected, metered, posted, logged>>
  BY DEF Accept
<1>2. /\ accepted' \in Seq(VerdictType) /\ Ids(accepted') = Append(Ids(accepted), Current)
      /\ Ruled' = Ruled \cup {Current}
      /\ Increasing' /\ Current \notin Ruled \cup Refused
  BY <1>1, AcceptCurrent DEF DispInv
<1>3. /\ ~Idle' /\ Refused' = Refused /\ Current' = Current
      /\ recs' = recs /\ consumed' = consumed
  BY <1>1 DEF Idle, Refused, Current, tracerVars
<1>4. DispOK' /\ ModesOK'
  BY <1>1, <1>2, <1>3 DEF DispInv, DispOK, ModesOK, Idle, HeadIs
<1>5. SettledInv'
  <2>1. consumed \in Nat /\ Current = consumed + 1 /\ Settled = consumed /\ Settled' = Current
    BY <1>1, <1>3, HeadProperties DEF Settled
  <2>2. PassedAreSettled' /\ OneVerdict'
    BY <1>2, <1>3 DEF DispInv, SettledInv, PassedAreSettled, OneVerdict
  <2>3. NoneAhead'
    BY <1>2, <1>3, <2>1 DEF DispInv, SettledInv, NoneAhead
  <2>4. InHandIsRuled'
    BY <1>2, <1>3 DEF InHandIsRuled
  <2> QED BY <1>2, <2>2, <2>3, <2>4 DEF SettledInv
<1>6. EffectsFollow'
  <2>1. /\ Ids(accepted) = metered
        /\ IF Publish THEN Ids(accepted) = posted ELSE posted = <<>>
        /\ IF CacheData THEN Ids(accepted) = Ids(cached) ELSE Ids(cached) = <<>>
    BY <1>1 DEF DispInv, EffectsFollow, Idle
  <2>2. metered' = metered /\ posted' = posted /\ Ids(cached)' = Ids(cached)
    BY <1>1 DEF queueVars, Ids
  <2> QED BY <1>1, <1>2, <1>3, <2>1, <2>2 DEF EffectsFollow
<1> QED BY <1>4, <1>5, <1>6 DEF DispInv

(* The record in hand goes from one output to the next.                    *)
LEMMA InHand ==
  ASSUME TracerInv, DispInv, ~Idle
  PROVE  /\ HeadIs("ready") /\ ~Verbose /\ consumed \in Nat
         /\ Current \in 1..MaxRecords /\ Current = consumed + 1 /\ Current \in Ruled
BY HeadProperties DEF DispInv, DispOK, ModesOK, SettledInv, InHandIsRuled

LEMMA SendStep ==
  ASSUME TracerInv, DispInv, Send
  PROVE  DispInv'
<1>1. /\ pc = "send" /\ metered' = Append(metered, Current)
      /\ pc' \in {"down", "post", "cache"} /\ (pc' = "post" => Publish)
      /\ pc' = "cache" => ~Publish
      /\ UNCHANGED <<tracerVars, queueVars, conf_list, accepted, rejected, posted, logged>>
  BY DEF Send
<1>2. /\ HeadIs("ready") /\ ~Verbose /\ Current \in 1..MaxRecords
      /\ Current' = Current /\ ~Idle /\ ~Idle'
  <2>1. ~Idle
    BY <1>1 DEF Idle
  <2> QED BY <1>1, <2>1, InHand DEF Idle, Current, tracerVars
<1>3. metered' \in Seq(1..MaxRecords)
  BY <1>1, <1>2, AppendProperties DEF DispInv, DispOK
<1>4. DispOK' /\ ModesOK'
  BY <1>1, <1>2, <1>3 DEF DispInv, DispOK, ModesOK, tracerVars, HeadIs
<1>5. SettledInv'
  <2>1. RecsKept /\ consumed' = consumed
    BY <1>1, RecordTypes DEF RecsKept, tracerVars
  <2> QED BY <1>1, <1>2, <2>1, SettledFrame DEF DispInv
<1>6. EffectsFollow'
  <2>1. /\ Ids(accepted) = Append(metered, Current)
        /\ IF Publish THEN Ids(accepted) = Append(posted, Current) ELSE posted = <<>>
        /\ IF CacheData THEN Ids(accepted) = Append(Ids(cached), Current)
                        ELSE Ids(cached) = <<>>
    BY <1>1, <1>2 DEF DispInv, EffectsFollow
  <2>2. Ids(accepted)' = Ids(accepted) /\ posted' = posted /\ Ids(cached)' = Ids(cached)
    BY <1>1 DEF queueVars, Ids
  <2>3. pc' # "send" /\ pc' # "poll"
    BY <1>1
  <2> QED BY <1>1, <1>2, <2>1, <2>2, <2>3 DEF EffectsFollow
<1> QED BY <1>4, <1>5, <1>6 DEF DispInv

LEMMA PostStep ==
  ASSUME TracerInv, DispInv, PostReturns
  PROVE  DispInv'
<1>1. /\ pc = "post" /\ posted' = Append(posted, Current) /\ pc' = "cache"
      /\ UNCHANGED <<tracerVars, queueVars, conf_list, accepted, rejected, metered, logged>>
  BY DEF PostReturns
<1>2. /\ HeadIs("ready") /\ ~Verbose /\ Current \in 1..MaxRecords /\ Publish
      /\ Current' = Current /\ ~Idle /\ ~Idle'
  <2>1. ~Idle
    BY <1>1 DEF Idle
  <2> QED BY <1>1, <2>1, InHand DEF Idle, Current, tracerVars, DispInv, ModesOK
<1>3. posted' \in Seq(1..MaxRecords)
  BY <1>1, <1>2, AppendProperties DEF DispInv, DispOK
<1>4. DispOK' /\ ModesOK'
  BY <1>1, <1>2, <1>3 DEF DispInv, DispOK, ModesOK, tracerVars, HeadIs
<1>5. SettledInv'
  <2>1. RecsKept /\ consumed' = consumed
    BY <1>1, RecordTypes DEF RecsKept, tracerVars
  <2> QED BY <1>1, <1>2, <2>1, SettledFrame DEF DispInv
<1>6. EffectsFollow'
  <2>1. /\ Ids(accepted) = metered
        /\ Ids(accepted) = Append(posted, Current)
        /\ IF CacheData THEN Ids(accepted) = Append(Ids(cached), Current)
                        ELSE Ids(cached) = <<>>
    BY <1>1, <1>2 DEF DispInv, EffectsFollow
  <2>2. Ids(accepted)' = Ids(accepted) /\ metered' = metered /\ Ids(cached)' = Ids(cached)
    BY <1>1 DEF queueVars, Ids
  <2> QED BY <1>1, <1>2, <2>1, <2>2 DEF EffectsFollow
<1> QED BY <1>4, <1>5, <1>6 DEF DispInv

LEMMA CacheStep ==
  ASSUME TracerInv, QueueInv, DispInv, Cache
  PROVE  DispInv' /\ QueueInv'
<1>1. /\ pc = "cache" /\ pc' = "poll" /\ Release /\ Q!CacheEvent(ReportOf(Current))
      /\ UNCHANGED <<conf_list, accepted, rejected, metered, posted, logged>>
  BY DEF Cache
<1>2. /\ HeadIs("ready") /\ ~Verbose /\ Current \in 1..MaxRecords /\ Current \in Ruled
      /\ ~Idle /\ Idle'
  <2>1. ~Idle
    BY <1>1 DEF Idle
  <2> QED BY <1>1, <2>1, InHand DEF Idle
<1>3. ReportOf(Current) \in Q!ReportType /\ ReportOf(Current).id = Current
  <2>1. recs[Current].ev.cmdutf8 \in BOOLEAN /\ recs[Current].ev.oldutf8 \in BOOLEAN
    BY <1>2, HeadProperties DEF RecordType, EventType
  <2> QED BY <1>2, <2>1 DEF ReportOf, Q!ReportType
<1>4. QueueInv'
  BY <1>1, <1>3, CacheKeepsQueueInv
<1>5. DispOK' /\ ModesOK'
  BY <1>1, <1>2 DEF DispInv, DispOK, ModesOK, Idle
<1>6. SettledInv'
  <2>1. Ruled' = Ruled /\ Refused' = Refused
    BY <1>1 DEF Ruled, Refused
  <2>2. OneVerdict' /\ Increasing'
    BY <1>1, <2>1 DEF DispInv, SettledInv, OneVerdict, Increasing
  <2> QED BY <1>1, <1>2, <2>1, <2>2, SettledRelease DEF DispInv
<1>7. EffectsFollow'
  <2>1. /\ Ids(accepted) = metered
        /\ IF Publish THEN Ids(accepted) = posted ELSE posted = <<>>
        /\ IF CacheData THEN Ids(accepted) = Append(Ids(cached), Current)
                        ELSE Ids(cached) = <<>>
    BY <1>1, <1>2 DEF DispInv, EffectsFollow
  <2>2. Ids(accepted)' = Ids(accepted) /\ metered' = metered /\ posted' = posted
    BY <1>1 DEF Ids
  <2>3. CacheData => Ids(cached)' = Append(Ids(cached), Current)
    <3>1. \A x \in Q!ReportType : x.id \in Nat
      BY DEF Q!ReportType
    <3>2. cached \in Seq(Q!ReportType)
      BY DEF QueueInv, Q!QueueTypeOK
    <3>3. CacheData => cached' = Append(cached, ReportOf(Current))
      BY <1>1 DEF Q!CacheEvent
    <3>4. Ids(Append(cached, ReportOf(Current))) = Append(Ids(cached), ReportOf(Current).id)
      BY <1>3, <3>1, <3>2, IdsAppend
    <3> QED BY <1>3, <3>3, <3>4 DEF Ids
  <2>4. ~CacheData => Ids(cached)' = Ids(cached)
    BY <1>1 DEF Q!CacheEvent, Ids
  <2> QED BY <1>1, <1>2, <2>1, <2>2, <2>3, <2>4 DEF EffectsFollow
<1> QED BY <1>4, <1>5, <1>6, <1>7 DEF DispInv
-----------------------------------------------------------------------------
LEMMA PipelineInvInit == Init => PipelineInv
<1> SUFFICES ASSUME Init PROVE PipelineInv
  OBVIOUS
<1>1. Len(recs) = 0 /\ consumed = 0 /\ recs = <<>> /\ \A t \in Tasks : hook[t] = 0
  BY EmptySeq DEF Init, TracerInit
<1>2. TracerInv
  <2>1. hook \in [Tasks -> 0..Len(recs)]
    BY <1>1 DEF Init, TracerInit
  <2> QED BY <1>1, <2>1, EmptySeq, TracerAssumption DEF TracerInv, TracerOK, HookOwns
<1>3. QueueInv
  BY QueueInvInit DEF Init
<1>4. Idle /\ accepted = <<>> /\ Len(accepted) = 0 /\ rejected = {}
  BY EmptySeq DEF Init, Idle
<1>5. DispOK
  BY <1>4, EmptySeq, PipelineAssumption DEF Init, DispOK, Idle
<1>6. ModesOK
  BY <1>4 DEF Init, ModesOK
<1>7. SettledInv
  <2>1. Ruled = {} /\ Refused = {}
    BY <1>4 DEF Ruled, Refused
  <2> QED
    BY <1>1, <1>4, <2>1
       DEF SettledInv, PassedAreSettled, NoneAhead, OneVerdict, Increasing, InHandIsRuled
<1>8. EffectsFollow
  <2>1. Ids(<<>>) = <<>>
    <3>1. Len(<<>>) = 0
      BY EmptySeq
    <3>2. Ids(<<>>) \in Seq(Nat) /\ Len(Ids(<<>>)) = 0
      BY <3>1, IsASeq DEF Ids
    <3> QED BY <3>2, EmptySeq
  <2> QED BY <1>4, <2>1 DEF Init, Q!QueueInit, EffectsFollow, Idle
<1> QED BY <1>2, <1>3, <1>5, <1>6, <1>7, <1>8 DEF PipelineInv, DispInv

LEMMA PipelineStep == PipelineInv /\ [Next]_vars => PipelineInv'
<1> SUFFICES ASSUME PipelineInv, [Next]_vars PROVE PipelineInv'
  OBVIOUS
<1> USE DEF DispInv
<1>1. TracerInv /\ QueueInv /\ DispInv /\ Len(recs) \in Nat
  BY RecordTypes DEF PipelineInv
<1>2. ASSUME UNCHANGED tracerVars PROVE TracerInv' /\ RecsKept /\ consumed' = consumed
  BY <1>1, <1>2 DEF tracerVars, TracerInv, TracerOK, HookOwns, RecsKept
<1>3. CASE \E t \in Tasks, c \in Calls : HookStarts(t, c)
  <2>1. /\ TracerInv' /\ RecsKept /\ consumed' = consumed
        /\ UNCHANGED <<queueVars, dispVars>>
    BY <1>1, <1>3, ReserveStep DEF HookStarts, Reserve
  <2>2. Len(recs') \in Nat
    BY <2>1, LenProperties DEF TracerInv, TracerOK
  <2>3. DispInv'
    BY <1>1, <2>1, <2>2, OthersStep DEF dispVars, queueVars, DispOK
  <2> QED BY <1>1, <2>1, <2>3, QueueUnchanged DEF PipelineInv
<1>4. CASE \E t \in Tasks : HookEnds(t)
  <2>1. /\ TracerInv' /\ RecsKept /\ consumed' = consumed /\ Len(recs') \in Nat
        /\ UNCHANGED <<queueVars, dispVars>>
    BY <1>1, <1>4, HookEndsStep DEF HookEnds
  <2>2. DispInv'
    BY <1>1, <2>1, OthersStep DEF dispVars, queueVars, DispOK
  <2> QED BY <1>1, <2>1, <2>2, QueueUnchanged DEF PipelineInv
<1>5. CASE Skip \/ Reject \/ PrintEvent
  <2>1. Release /\ consumed < Len(recs) /\ UNCHANGED queueVars
    BY <1>5 DEF Skip, SkipDiscarded, Reject, PrintEvent, HeadIs
  <2>2. TracerInv' /\ QueueInv'
    BY <1>1, <2>1, ReleaseStep, QueueUnchanged
  <2>3. DispInv'
    BY <1>1, <1>5, SkipStep, RejectStep, PrintStep
  <2> QED BY <2>2, <2>3 DEF PipelineInv
<1>6. CASE Accept \/ Send \/ PostReturns
  <2>1. UNCHANGED <<tracerVars, queueVars>>
    BY <1>6 DEF Accept, Send, PostReturns
  <2>2. TracerInv' /\ QueueInv'
    BY <1>1, <1>2, <2>1, QueueUnchanged
  <2>3. DispInv'
    BY <1>1, <1>6, AcceptStep, SendStep, PostStep
  <2> QED BY <2>2, <2>3 DEF PipelineInv
<1>7. CASE Cache
  <2>1. Release /\ consumed < Len(recs)
    <3>1. ~Idle /\ Release
      BY <1>7 DEF Cache, Idle
    <3> QED BY <1>1, <3>1, InHand, HeadProperties
  <2>2. TracerInv' /\ QueueInv' /\ DispInv'
    BY <1>1, <1>7, <2>1, ReleaseStep, CacheStep
  <2> QED BY <2>2 DEF PipelineInv
<1>8. CASE \E path \in ListChanges : UpdateList(path)
  <2>1. /\ conf_list' \subseteq Path
        /\ UNCHANGED <<tracerVars, queueVars, pc, accepted, rejected, metered, posted, logged>>
    BY <1>1, <1>8, PipelineAssumption DEF UpdateList, DispOK
  <2>2. TracerInv' /\ RecsKept /\ consumed' = consumed /\ Len(recs') \in Nat
    BY <1>1, <1>2, <2>1 DEF tracerVars
  <2>3. DispInv'
    BY <1>1, <2>1, <2>2, OthersStep DEF queueVars
  <2> QED BY <1>1, <2>1, <2>2, <2>3, QueueUnchanged DEF PipelineInv
<1>9. CASE \E c \in Clients : Request(c) \/ Answer(c)
  <2>1. UNCHANGED <<tracerVars, dispVars>> /\ cached' = cached
    BY <1>9 DEF Request, Answer, Q!Pop, Q!Respond, Q!RespondOK, Q!RespondError
  <2>2. TracerInv' /\ RecsKept /\ consumed' = consumed /\ Len(recs') \in Nat
    BY <1>1, <1>2, <2>1 DEF tracerVars
  <2>3. DispInv'
    BY <1>1, <2>1, <2>2, OthersStep DEF dispVars, DispOK
  <2>4. QueueInv'
    BY <1>1, <1>9, PopKeepsQueueInv, RespondKeepsQueueInv DEF Request, Answer
  <2> QED BY <2>2, <2>3, <2>4 DEF PipelineInv
<1>10. CASE UNCHANGED vars
  <2>1. UNCHANGED <<tracerVars, queueVars, dispVars>>
    BY <1>10 DEF vars
  <2>2. TracerInv' /\ RecsKept /\ consumed' = consumed /\ Len(recs') \in Nat
    BY <1>1, <1>2, <2>1 DEF tracerVars
  <2>3. DispInv'
    BY <1>1, <2>1, <2>2, OthersStep DEF dispVars, queueVars, DispOK
  <2> QED BY <1>1, <2>1, <2>2, <2>3, QueueUnchanged DEF PipelineInv
<1> QED
  BY <1>3, <1>4, <1>5, <1>6, <1>7, <1>8, <1>9, <1>10 DEF Next, Dispatch

LEMMA PipelineInvAlways == Spec => []PipelineInv
BY PipelineInvInit, PipelineStep, PTL DEF Spec

(* Every variable of the pipeline keeps its type: the ring never holds     *)
(* more records than it has room for, the consumer never passes a busy     *)
(* record, and the record in hand stays ready until it is given back.      *)
THEOREM PipelineTypeCorrect == Spec => []TypeOK
<1>1. PipelineInv => TypeOK
  BY DEF PipelineInv, DispInv, TracerInv, TracerOK, QueueInv, DispOK, TypeOK
<1> QED BY <1>1, PipelineInvAlways, PTL

(* Every record passed was discarded or got exactly one verdict, in the    *)
(* order of reservation, however the hooks of other tasks overlap.         *)
THEOREM RecordsSettledInOrder == Spec => []SettledInOrder
<1>1. PipelineInv => SettledInOrder
  BY DEF PipelineInv, DispInv, SettledInv, PassedAreSettled, NoneAhead, OneVerdict, Increasing,
         Ruled, Refused, Settled, SettledInOrder
<1> QED BY <1>1, PipelineInvAlways, PTL

(* The exporter, the remote service and the cache each see the accepted    *)
(* events, all of them, once and in order.                                 *)
THEOREM OutputsFollowVerdicts == Spec => []EffectsFollow
<1>1. PipelineInv => EffectsFollow
  BY DEF PipelineInv, DispInv
<1> QED BY <1>1, PipelineInvAlways, PTL
-----------------------------------------------------------------------------
(* Exact capture.  What is needed of the machine and of the configuration: *)
(* only the root file system is traced, the monitored paths are absolute   *)
(* and at most MaxDepth levels deep, as load_config demands, a name has no *)
(* empty component, and a relative unlinkat knows its directory.           *)
Exactable ==
  /\ \A c \in Calls :
       /\ c.mount = <<>>
       /\ c.op \in FileOps /\ c.regular => c.file[Len(c.file)] # Root
       /\ c.op = "unlinkat" /\ c.arg # <<>> /\ ~IsAbsolute(c.arg) =>
            c.base # None /\ c.arg[Len(c.arg)] # Root
  /\ \A path \in InitialList \cup ListChanges \cup {MonitorFile} :
       GetDirLevel(path) \in 0..MaxDepth

(* The paths that can be monitored at all. *)
Monitorable == InitialList \cup ListChanges

(* A submitted record tells of its call, and none is the tracer's own. *)
RecsTell ==
  \A i \in 1..Len(recs) :
    /\ recs[i].task.tgid # SelfTgid
    /\ recs[i].state = "ready" =>
         /\ ~GivesUp(recs[i].call)
         /\ \E name \in NameReads(recs[i].call) :
              recs[i].ev = Filled(recs[i].task, recs[i].call, name)

Judged(v, valid) ==
  /\ v.id \in 1..Len(recs) /\ recs[v.id].state = "ready"
  /\ v.list \subseteq Monitorable
  /\ IsValidEvent(recs[v.id].ev, v.list) <=> valid

VerdictsTell ==
  /\ \A k \in 1..Len(accepted) : Judged(accepted[k], TRUE)
  /\ \A v \in rejected : Judged(v, FALSE)

CaptureInv == RecsTell /\ VerdictsTell /\ conf_list \subseteq Monitorable

(* A path known to the operators of Paths. *)
LEMMA MonitorablePaths ==
  ASSUME Exactable, NEW m \in Monitorable \cup {MonitorFile}
  PROVE  m \in Path /\ GetDirLevel(m) \in 0..MaxDepth /\ IsAbsolute(m)
<1>1. m \in Path /\ GetDirLevel(m) \in 0..MaxDepth
  BY PipelineAssumption DEF Exactable, Monitorable
<1> QED BY <1>1 DEF GetDirLevel

(* A match of the path that is compared is a match of the file's path; for *)
(* writes and copies the converse holds too.                               *)
LEMMA ComparedIsTarget ==
  ASSUME Exactable, NEW t \in Tasks, NEW c \in Calls, ~GivesUp(c), NEW name \in NameReads(c),
         name # <<>>, c.op # "openat", NEW m \in Monitorable \cup {MonitorFile}
  PROVE  /\ ComparedPath(Filled(t, c, name)) = m => TargetOf(c) = m
         /\ c.op \in FileOps /\ TargetOf(c) = m => ComparedPath(Filled(t, c, name)) = m
<1> DEFINE e == Filled(t, c, name)
<1>1. c \in CallType /\ c.op \in Ops /\ c.file \in Path /\ c.base \in Path /\ c.arg \in Path
  BY TracerAssumption DEF CallType
<1>2. m \in Path /\ GetDirLevel(m) <= MaxDepth /\ IsAbsolute(m)
  <2>1. MaxDepth \in Nat
    BY PathsAssumption
  <2> QED BY <2>1, MonitorablePaths
<1>3. e.op = c.op /\ e.name = name /\ e.dirs = DirsOf(c, name)
  BY DEF Filled
<1> HIDE DEF e
<1>4. CASE c.op \in FileOps
  <2>1. c.file # <<>> /\ c.file[Len(c.file)] # Root /\ c.mount = <<>>
    BY <1>4, TracerAssumption DEF GivesUp, Exactable
  <2>2. ComparedPath(e) = GetFullPath(FillParentDirs(c.file), DName(c.file))
    BY <1>3, <1>4 DEF ComparedPath, DirsOf, NameReads, FileOps, RenameOps
  <2>3. TargetOf(c) = RealPath(<<>>, c.file)
    BY <1>4, <2>1 DEF TargetOf
  <2> QED BY <1>1, <1>2, <2>1, <2>2, <2>3, RebuiltFilePathIsExact DEF e
<1>5. CASE c.op \in RenameOps
  <2>1. name = c.arg /\ ComparedPath(e) = c.arg
    BY <1>3, <1>5 DEF NameReads, ComparedPath, FileOps, RenameOps
  <2>2. c.arg = m => TargetOf(c) = m
    BY <1>2, <1>5 DEF TargetOf, FileOps, RenameOps
  <2>3. c.op \notin FileOps
    BY <1>5 DEF FileOps, RenameOps
  <2> QED BY <2>1, <2>2, <2>3 DEF e
<1>6. CASE c.op = "unlinkat"
  <2>1. name = c.arg
    BY <1>6 DEF NameReads, FileOps
  <2>2. ComparedPath(e) = GetFullPath(DirsOf(c, name), name)
    BY <1>3, <1>6 DEF ComparedPath, RenameOps
  <2>3. CASE IsAbsolute(c.arg)
    <3>1. ComparedPath(e) = c.arg \/ ComparedPath(e) = <<>>
      BY <2>1, <2>2, <2>3 DEF GetFullPath
    <3>2. m # <<>> /\ TargetOf(c) = c.arg
      BY <1>2, <1>6, <2>3 DEF IsAbsolute, TargetOf, FileOps
    <3> QED BY <1>6, <3>1, <3>2 DEF FileOps, e
  <2>4. CASE ~IsAbsolute(c.arg)
    <3>1. c.base # None /\ c.arg # <<>> /\ c.arg[Len(c.arg)] # Root /\ c.mount = <<>>
      BY <1>6, <2>1, <2>4 DEF Exactable
    <3>2. ComparedPath(e) = GetFullPath(FillDirChain(c.base), c.arg)
      BY <1>6, <2>1, <2>2, <2>4, <3>1 DEF DirsOf, FileOps
    <3>3. TargetOf(c) = (<<Root>> \o <<>> \o c.base) \o c.arg
      BY <1>6, <2>4, <3>1 DEF TargetOf, FileOps, RealPath
    <3>4. (<<Root>> \o <<>> \o c.base) \o c.arg = RealPath(<<>>, c.base \o c.arg)
      <4>1. <<Root>> \in Seq(Names) /\ <<Root>> \o <<>> \in Seq(Names)
        BY PathsAssumption, EmptySeq, ConcatProperties
      <4>2. \A h, b, a \in Seq(Names) : (h \o b) \o a = h \o (b \o a)
        BY ConcatAssociative
      <4>3. c.base \in Seq(Names) /\ c.arg \in Seq(Names)
        BY <1>1 DEF Path
      <4>4. (<<Root>> \o <<>> \o c.base) \o c.arg = (<<Root>> \o <<>>) \o (c.base \o c.arg)
        BY ONLY <4>1, <4>2, <4>3
      <4> QED BY <4>4 DEF RealPath
    <3>5. GetFullPath(FillDirChain(c.base), c.arg) = m <=> RealPath(<<>>, c.base \o c.arg) = m
      BY <1>1, <1>2, <2>4, <3>1, RebuiltRelativePathIsExact
    <3> QED BY <1>6, <3>2, <3>3, <3>4, <3>5 DEF e, FileOps
  <2> QED BY <2>3, <2>4
<1> QED BY <1>1, <1>4, <1>5, <1>6 DEF Ops, PathOps

LEMMA CaptureInvInit == Init => CaptureInv
<1> SUFFICES ASSUME Init PROVE CaptureInv
  OBVIOUS
<1>1. Len(recs) = 0 /\ Len(accepted) = 0 /\ rejected = {} /\ conf_list = InitialList
  BY EmptySeq DEF Init, TracerInit
<1> QED BY <1>1 DEF CaptureInv, RecsTell, VerdictsTell, Monitorable

(* Verdicts stay true of the records they are about. *)
LEMMA VerdictsKept ==
  ASSUME TracerInv, TracerInv', VerdictsTell, RecsKept, UNCHANGED <<accepted, rejected>>
  PROVE  VerdictsTell'
<1>1. Len(recs) \in Nat /\ Len(recs') \in Nat
  BY RecordTypes, LenProperties DEF TracerInv, TracerOK
<1>2. ASSUME NEW v, NEW valid, Judged(v, valid) PROVE Judged(v, valid)'
  <2>1. v.id \in 1..Len(recs') /\ recs'[v.id] = recs[v.id]
    BY <1>1, <1>2 DEF Judged, RecsKept
  <2> QED BY <1>2, <2>1 DEF Judged
<1> QED BY <1>2 DEF VerdictsTell

LEMMA HookStartsTells ==
  ASSUME TracerInv, RecsTell, NEW t \in Tasks, NEW c \in Calls, Reserve(t, c)
  PROVE  RecsTell'
<1> DEFINE r == [state |-> "busy", ev |-> ZeroEvent(c.op), task |-> t, call |-> c]
<1>1. Len(recs) \in Nat /\ Len(recs') = Len(recs) + 1 /\ recs'[Len(recs) + 1] = r
      /\ \A i \in 1..Len(recs) : recs'[i] = recs[i]
  BY RecordTypes DEF Reserve
<1>2. r.task.tgid # SelfTgid /\ r.state # "ready"
  BY DEF Reserve, NotSelf
<1> HIDE DEF r
<1> SUFFICES ASSUME NEW i \in 1..Len(recs')
             PROVE  /\ recs'[i].task.tgid # SelfTgid
                    /\ recs'[i].state = "ready" =>
                         /\ ~GivesUp(recs'[i].call)
                         /\ \E name \in NameReads(recs'[i].call) :
                              recs'[i].ev = Filled(recs'[i].task, recs'[i].call, name)
  BY DEF RecsTell
<1>3. CASE i = Len(recs) + 1
  BY <1>1, <1>2, <1>3
<1>4. CASE i \in 1..Len(recs)
  BY <1>1, <1>4 DEF RecsTell
<1> QED BY <1>1, <1>3, <1>4

LEMMA HookEndsTells ==
  ASSUME TracerInv, RecsTell, NEW t \in Tasks, Submit(t) \/ Discard(t)
  PROVE  RecsTell'
<1> DEFINE n == hook[t]
           r == recs[n]
<1>1. /\ n \in 1..Len(recs) /\ r \in RecordType /\ r.task = t /\ r.task.tgid # SelfTgid
      /\ Len(recs') = Len(recs)
  BY RecordTypes, HookEndsStep DEF TracerInv, TracerOK, HookOwns, Submit, Discard, RecsTell
<1>2. \E x \in RecordType :
        /\ recs' = [recs EXCEPT ![n] = x]
        /\ x.task = t
        /\ x.state = "ready" => ~GivesUp(x.call) /\ \E name \in NameReads(x.call) :
                                                       x.ev = Filled(x.task, x.call, name)
  <2>1. CASE Submit(t)
    <3>1. PICK name \in NameReads(r.call) :
            recs' = [recs EXCEPT ![n] = [[r EXCEPT !.state = "ready"]
                                            EXCEPT !.ev = Filled(t, r.call, name)]]
      BY <2>1, <1>1 DEF Submit, RecordType
    <3>2. r.call \in Calls /\ ~GivesUp(r.call)
      BY <1>1, <2>1 DEF Submit, RecordType
    <3>3. Filled(t, r.call, name) \in EventType
      BY <3>2, FilledIsEvent
    <3>4. ASSUME NEW e \in EventType
          PROVE  LET x == [[r EXCEPT !.state = "ready"] EXCEPT !.ev = e]
                 IN  x \in RecordType /\ x.task = t /\ x.call = r.call /\ x.ev = e
      BY <1>1 DEF RecordType
    <3> HIDE DEF r
    <3> DEFINE y == [[r EXCEPT !.state = "ready"] EXCEPT !.ev = Filled(t, r.call, name)]
    <3>5. /\ y \in RecordType /\ y.task = t /\ y.call = r.call
          /\ y.ev = Filled(t, r.call, name)
      BY <3>3, <3>4
    <3>6. recs' = [recs EXCEPT ![n] = y]
      BY <3>1
    <3> HIDE DEF y
    <3> QED BY <3>2, <3>5, <3>6
  <2>2. CASE Discard(t)
    <3>1. recs' = [recs EXCEPT ![n] = [r EXCEPT !.state = "discarded"]]
      BY <2>2 DEF Discard
    <3>2. LET x == [r EXCEPT !.state = "discarded"]
          IN  x \in RecordType /\ x.task = t /\ x.state # "ready"
      BY <1>1 DEF RecordType
    <3> HIDE DEF r
    <3> QED BY <3>1, <3>2
  <2> QED BY <2>1, <2>2
<1>3. PICK x \in RecordType :
        /\ recs' = [recs EXCEPT ![n] = x]
        /\ x.task = t
        /\ x.state = "ready" => ~GivesUp(x.call) /\ \E name \in NameReads(x.call) :
                                                       x.ev = Filled(x.task, x.call, name)
  BY <1>2
<1>4. \A i \in 1..Len(recs) : recs'[i] = IF i = n THEN x ELSE recs[i]
  BY <1>1, <1>3, ExceptSeq DEF TracerInv, TracerOK
<1> SUFFICES ASSUME NEW i \in 1..Len(recs')
             PROVE  /\ recs'[i].task.tgid # SelfTgid
                    /\ recs'[i].state = "ready" =>
                         /\ ~GivesUp(recs'[i].call)
                         /\ \E name \in NameReads(recs'[i].call) :
                              recs'[i].ev = Filled(recs'[i].task, recs'[i].call, name)
  BY DEF RecsTell
<1>5. CASE i = n
  BY <1>1, <1>3, <1>4, <1>5
<1>6. CASE i # n
  BY <1>1, <1>4, <1>6 DEF RecsTell
<1> QED BY <1>5, <1>6

(* The record in hand gets its verdict. *)
LEMMA JudgedNow ==
  ASSUME TracerInv, conf_list \subseteq Monitorable, HeadIs("ready"),
         NEW valid \in BOOLEAN, IsValidEvent(HeadEvent, conf_list) <=> valid
  PROVE  Judged(Verdict, valid)
<1>1. Current \in 1..Len(recs) /\ recs[Current].state = "ready" /\ HeadEvent = recs[Current].ev
  BY HeadProperties DEF HeadEvent, Current
<1>2. Verdict.id = Current /\ Verdict.list = conf_list
  BY DEF Verdict
<1> QED BY <1>1, <1>2 DEF Judged

LEMMA CaptureStep == PipelineInv /\ CaptureInv /\ [Next]_vars => CaptureInv'
<1> SUFFICES ASSUME PipelineInv, CaptureInv, [Next]_vars PROVE CaptureInv'
  OBVIOUS
<1>1. /\ TracerInv /\ TracerInv' /\ DispOK /\ RecsTell /\ VerdictsTell
      /\ conf_list \subseteq Monitorable
  BY PipelineStep DEF PipelineInv, DispInv, CaptureInv
<1>2. ASSUME UNCHANGED recs PROVE RecsKept /\ RecsTell'
  BY <1>1, <1>2, RecordTypes DEF RecsKept, RecsTell
<1>3. CASE \E t \in Tasks, c \in Calls : HookStarts(t, c)
  <2>1. RecsKept /\ RecsTell' /\ UNCHANGED dispVars
    BY <1>1, <1>3, ReserveStep, HookStartsTells DEF HookStarts
  <2> QED BY <1>1, <2>1, VerdictsKept DEF CaptureInv, dispVars
<1>4. CASE \E t \in Tasks : HookEnds(t)
  <2>1. RecsKept /\ RecsTell' /\ UNCHANGED dispVars
    BY <1>1, <1>4, HookEndsStep, HookEndsTells DEF HookEnds
  <2> QED BY <1>1, <2>1, VerdictsKept DEF CaptureInv, dispVars
<1>5. CASE Reject
  <2>1. /\ HeadIs("ready") /\ ~IsValidEvent(HeadEvent, conf_list) /\ recs' = recs
        /\ rejected' = rejected \cup {Verdict} /\ UNCHANGED <<accepted, conf_list>>
    BY <1>5 DEF Reject, Release
  <2>2. Judged(Verdict, FALSE)
    BY <1>1, <2>1, JudgedNow
  <2>3. ASSUME NEW k \in 1..Len(accepted') PROVE Judged(accepted[k], TRUE)'
    BY <1>1, <2>1, <2>3 DEF VerdictsTell, Judged
  <2>4. ASSUME NEW v \in rejected' PROVE Judged(v, FALSE)'
    BY <1>1, <2>1, <2>2, <2>4 DEF VerdictsTell, Judged
  <2>5. VerdictsTell'
    BY <2>3, <2>4 DEF VerdictsTell
  <2> QED BY <1>1, <1>2, <2>1, <2>5 DEF CaptureInv
<1>6. CASE PrintEvent \/ Accept
  <2>1. /\ HeadIs("ready") /\ IsValidEvent(HeadEvent, conf_list) /\ recs' = recs
        /\ accepted' = Append(accepted, Verdict) /\ UNCHANGED <<rejected, conf_list>>
    BY <1>6 DEF PrintEvent, Accept, Release, tracerVars
  <2>2. Judged(Verdict, TRUE)
    BY <1>1, <2>1, JudgedNow
  <2>3. /\ Len(accepted) \in Nat /\ Len(accepted') = Len(accepted) + 1
        /\ accepted'[Len(accepted) + 1] = Verdict
        /\ \A k \in 1..Len(accepted) : accepted'[k] = accepted[k]
    BY <1>1, <2>1, RuledTypes, VerdictIsTyped, AppendProperties DEF DispOK
  <2>4. ASSUME NEW k \in 1..Len(accepted') PROVE Judged(accepted[k], TRUE)'
    <3>1. CASE k \in 1..Len(accepted)
      <4>1. Judged(accepted[k], TRUE)
        BY <1>1, <3>1 DEF VerdictsTell
      <4> QED BY <2>1, <2>3, <3>1, <4>1 DEF Judged
    <3>2. CASE k = Len(accepted) + 1
      <4>1. accepted'[k] = Verdict
        BY <2>3, <3>2
      <4> QED BY <2>1, <2>2, <4>1 DEF Judged
    <3>3. k \in 1..Len(accepted) \/ k = Len(accepted) + 1
      BY <2>3
    <3> QED BY ONLY <3>1, <3>2, <3>3
  <2>5. ASSUME NEW v \in rejected' PROVE Judged(v, FALSE)'
    BY <1>1, <2>1, <2>5 DEF VerdictsTell, Judged
  <2>6. VerdictsTell'
    BY <2>4, <2>5 DEF VerdictsTell
  <2> QED BY <1>1, <1>2, <2>1, <2>6 DEF CaptureInv
<1>7. CASE \E path \in ListChanges : UpdateList(path)
  <2>1. UNCHANGED <<recs, accepted, rejected>> /\ conf_list' \subseteq Monitorable
    BY <1>1, <1>7 DEF UpdateList, tracerVars, Monitorable
  <2> QED BY <1>1, <1>2, <2>1, VerdictsKept DEF CaptureInv
<1>8. CASE \/ Skip \/ Send \/ PostReturns \/ Cache
           \/ \E c \in Clients : Request(c) \/ Answer(c)
           \/ UNCHANGED vars
  <2>1. UNCHANGED <<recs, accepted, rejected, conf_list>>
    BY <1>8
       DEF Skip, SkipDiscarded, Send, PostReturns, Cache, Request, Answer, Release,
           vars, tracerVars, dispVars
  <2> QED BY <1>1, <1>2, <2>1, VerdictsKept DEF CaptureInv
<1> QED BY <1>3, <1>4, <1>5, <1>6, <1>7, <1>8 DEF Next, Dispatch

(* What a verdict says of the call itself.                                 *)
LEMMA JudgedIsFilled ==
  ASSUME TracerInv, RecsTell, NEW v, NEW valid, Judged(v, valid)
  PROVE  \E t \in Tasks, c \in Calls : \E name \in NameReads(c) :
           /\ recs[v.id].task = t /\ recs[v.id].call = c /\ t.tgid # SelfTgid
           /\ recs[v.id].ev = Filled(t, c, name) /\ ~GivesUp(c)
BY RecordTypes DEF Judged, RecordType, RecsTell

LEMMA AcceptedTouches ==
  ASSUME Exactable, TracerInv, RecsTell, NEW v, Judged(v, TRUE)
  PROVE  /\ recs[v.id].task.tgid # SelfTgid
         /\ Watched(TargetOf(recs[v.id].call), v.list)
<1>1. PICK t \in Tasks, c \in Calls : \E name \in NameReads(c) :
             /\ recs[v.id].task = t /\ recs[v.id].call = c /\ t.tgid # SelfTgid
             /\ recs[v.id].ev = Filled(t, c, name) /\ ~GivesUp(c)
  BY JudgedIsFilled
<1>2. PICK name \in NameReads(c) :
             /\ recs[v.id].task = t /\ recs[v.id].call = c /\ t.tgid # SelfTgid
             /\ recs[v.id].ev = Filled(t, c, name) /\ ~GivesUp(c)
  BY <1>1
<1>3. IsValidEvent(Filled(t, c, name), v.list) /\ v.list \subseteq Monitorable
  BY <1>2 DEF Judged
<1>4. name # <<>> /\ c.op # "openat"
  BY <1>3 DEF IsValidEvent, PassesFilters, IsValidFilename, Filled
<1>5. \A m \in Monitorable \cup {MonitorFile} :
        ComparedPath(Filled(t, c, name)) = m => TargetOf(c) = m
  BY <1>2, <1>4, ComparedIsTarget
<1>6. CompareConfigFile(ComparedPath(Filled(t, c, name)), v.list)
  BY <1>3 DEF IsValidEvent
<1>7. Watched(TargetOf(c), v.list)
  BY <1>3, <1>5, <1>6 DEF CompareConfigFile, Watched
<1> QED BY <1>2, <1>7

LEMMA RejectedIsElsewhere ==
  ASSUME Exactable, TracerInv, RecsTell, NEW v, Judged(v, FALSE),
         recs[v.id].call.op \in FileOps,
         DName(recs[v.id].call.file)[1] \notin DotNames,
         recs[v.id].task.comm \notin SkipProcesses, recs[v.id].task.tgid # 0
  PROVE  ~Watched(TargetOf(recs[v.id].call), v.list)
<1>1. PICK t \in Tasks, c \in Calls : \E name \in NameReads(c) :
             /\ recs[v.id].task = t /\ recs[v.id].call = c /\ t.tgid # SelfTgid
             /\ recs[v.id].ev = Filled(t, c, name) /\ ~GivesUp(c)
  BY JudgedIsFilled
<1>2. PICK name \in NameReads(c) :
             /\ recs[v.id].task = t /\ recs[v.id].call = c /\ t.tgid # SelfTgid
             /\ recs[v.id].ev = Filled(t, c, name) /\ ~GivesUp(c)
  BY <1>1
<1>3. ~IsValidEvent(Filled(t, c, name), v.list) /\ v.list \subseteq Monitorable
  BY <1>2 DEF Judged
<1>4. name = DName(c.file) /\ name # <<>> /\ c.op # "openat"
  <2>1. name = DName(c.file) /\ c.op # "openat"
    BY <1>2 DEF NameReads, FileOps
  <2>2. DName(c.file) # <<>>
    BY DEF DName
  <2> QED BY ONLY <2>1, <2>2
<1>5. PassesFilters(Filled(t, c, name))
  BY <1>2, <1>4 DEF PassesFilters, IsValidFilename, Filled
<1>6. ~CompareConfigFile(ComparedPath(Filled(t, c, name)), v.list)
  BY <1>3, <1>4, <1>5 DEF IsValidEvent, Filled
<1>7. \A m \in Monitorable \cup {MonitorFile} :
        TargetOf(c) = m => ComparedPath(Filled(t, c, name)) = m
  BY <1>2, <1>4, ComparedIsTarget
<1>8. \A m \in Monitorable : m # <<>>
  BY MonitorablePaths DEF IsAbsolute
<1>9. ~Watched(TargetOf(c), v.list)
  BY <1>3, <1>6, <1>7, <1>8 DEF CompareConfigFile, Watched
<1> QED BY <1>2, <1>9

LEMMA CaptureFollows ==
  ASSUME Exactable, PipelineInv, CaptureInv
  PROVE  CaptureIsExact
<1>1. TracerInv /\ RecsTell
  BY DEF PipelineInv, CaptureInv
<1> QED
  BY <1>1, AcceptedTouches, RejectedIsElsewhere DEF CaptureIsExact, CaptureInv, VerdictsTell

(* On the root file system, with monitored paths within MaxDepth levels,   *)
(* exactly the events of monitored files are accepted (but those the       *)
(* filters name), while requests change the list under the events.         *)
THEOREM CaptureAlwaysExact == ASSUME Exactable PROVE Spec => []CaptureIsExact
<1>1. PipelineInv /\ CaptureInv => CaptureIsExact
  BY CaptureFollows
<1> QED
  BY <1>1, PipelineInvAlways, CaptureInvInit, CaptureStep, PTL DEF Spec
=============================================================================
