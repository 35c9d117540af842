-------------------------- MODULE EventQueueProofs --------------------------
(***************************************************************************)
(* The event cache, for any number of workers, any limit and any count     *)
(* parameters: its queue is always the recent end of what was cached, no   *)
(* event is handed out twice, and it implements RetainedLog.               *)
(***************************************************************************)
EXTENDS EventQueue, SequenceTheorems, TLAPS

(* The elements of s after the first k. *)
Suffix(s, k) == SubSeq(s, k + 1, Len(s))

LEMMA SuffixProperties ==
  ASSUME NEW S, NEW s \in Seq(S), NEW k \in 0..Len(s)
  PROVE  /\ Suffix(s, k) \in Seq(S)
         /\ Len(Suffix(s, k)) = Len(s) - k
         /\ \A i \in 1..(Len(s) - k) : Suffix(s, k)[i] = s[k + i]
<1>1. Len(s) \in Nat /\ k \in Nat /\ k <= Len(s)
  BY LenProperties
<1>2. \A i \in (k + 1)..Len(s) : s[i] \in S
  BY <1>1, ElementOfSeq
<1>3. k + 1 \in Int /\ Len(s) \in Int
  BY <1>1
<1>4. /\ Suffix(s, k) \in Seq(S)
      /\ Len(Suffix(s, k)) = IF k + 1 <= Len(s) THEN Len(s) - (k + 1) + 1 ELSE 0
      /\ \A i \in 1..(Len(s) - (k + 1) + 1) : Suffix(s, k)[i] = s[(k + 1) + i - 1]
  BY <1>2, <1>3, SubSeqProperties DEF Suffix
<1>5. \A l \in Nat, j \in Nat : j <= l =>
        /\ (IF j + 1 <= l THEN l - (j + 1) + 1 ELSE 0) = l - j
        /\ l - (j + 1) + 1 = l - j
        /\ \A i \in 1..(l - j) : (j + 1) + i - 1 = j + i
  OBVIOUS
<1>6. Len(Suffix(s, k)) = Len(s) - k
  BY <1>1, <1>4, <1>5
<1>7. \A i \in 1..(Len(s) - k) : Suffix(s, k)[i] = s[k + i]
  BY <1>1, <1>4, <1>5
<1> QED BY <1>4, <1>6, <1>7

(* Two sequences that are suffix-like in the same way are equal: the form  *)
(* in which SeqEqual is used below.                                        *)
LEMMA SuffixUnique ==
  ASSUME NEW S, NEW s \in Seq(S), NEW k \in 0..Len(s), NEW t \in Seq(S),
         Len(t) = Len(s) - k, \A i \in 1..(Len(s) - k) : t[i] = s[k + i]
  PROVE  t = Suffix(s, k)
<1>1. /\ Suffix(s, k) \in Seq(S) /\ Len(t) = Len(Suffix(s, k))
      /\ \A i \in 1..Len(t) : t[i] = Suffix(s, k)[i]
  BY SuffixProperties
<1> QED BY <1>1, SeqEqual

(* Appending to a suffix, dropping its first element, taking and removing  *)
(* its first n elements: the four things the code does to the queue.       *)
LEMMA AppendToSuffix ==
  ASSUME NEW S, NEW s \in Seq(S), NEW k \in 0..Len(s), NEW e \in S
  PROVE  Append(Suffix(s, k), e) = Suffix(Append(s, e), k)
<1> DEFINE a == Append(s, e)
           t == Append(Suffix(s, k), e)
<1>1. Len(s) \in Nat /\ k \in Nat /\ k <= Len(s)
  BY LenProperties
<1>2. /\ Suffix(s, k) \in Seq(S) /\ Len(Suffix(s, k)) = Len(s) - k
      /\ \A i \in 1..(Len(s) - k) : Suffix(s, k)[i] = s[k + i]
  BY SuffixProperties
<1>3. /\ a \in Seq(S) /\ Len(a) = Len(s) + 1 /\ a[Len(s) + 1] = e
      /\ \A i \in 1..Len(s) : a[i] = s[i]
  BY AppendProperties
<1>4. /\ t \in Seq(S) /\ Len(t) = Len(s) - k + 1 /\ t[Len(s) - k + 1] = e
      /\ \A i \in 1..(Len(s) - k) : t[i] = s[k + i]
  BY <1>2, AppendProperties
<1> HIDE DEF a, t
<1>5. k \in 0..Len(a) /\ Len(t) = Len(a) - k
  BY <1>1, <1>3, <1>4
<1>6. ASSUME NEW i \in 1..(Len(a) - k)
      PROVE  t[i] = a[k + i]
  <2>1. CASE i = Len(s) - k + 1
    <3>1. k + i = Len(s) + 1
      BY <1>1, <2>1
    <3> QED BY <1>3, <1>4, <2>1, <3>1
  <2>2. CASE i # Len(s) - k + 1
    <3>1. i \in 1..(Len(s) - k) /\ k + i \in 1..Len(s)
      BY <1>1, <1>3, <2>2
    <3> QED BY <1>3, <1>4, <3>1
  <2> QED BY <2>1, <2>2
<1>7. t = Suffix(a, k)
  BY <1>3, <1>4, <1>5, <1>6, SuffixUnique
<1> QED BY <1>7 DEF a, t

LEMMA TailOfSuffix ==
  ASSUME NEW S, NEW s \in Seq(S), NEW k \in 0..Len(s), k < Len(s)
  PROVE  Tail(Suffix(s, k)) = Suffix(s, k + 1)
<1> DEFINE q == Suffix(s, k)
<1>1. Len(s) \in Nat /\ k \in Nat
  BY LenProperties
<1>2. /\ q \in Seq(S) /\ Len(q) = Len(s) - k
      /\ \A i \in 1..(Len(s) - k) : q[i] = s[k + i]
  BY SuffixProperties
<1> HIDE DEF q
<1>3. Len(q) # 0
  BY <1>1, <1>2
<1>4. q # <<>>
  BY <1>3
<1>5. /\ Tail(q) \in Seq(S) /\ Len(Tail(q)) = Len(q) - 1
      /\ \A i \in 1..Len(Tail(q)) : Tail(q)[i] = q[i + 1]
  BY <1>2, <1>4, HeadTailProperties
<1>6. k + 1 \in 0..Len(s) /\ Len(Tail(q)) = Len(s) - (k + 1)
  BY <1>1, <1>2, <1>5
<1>7. ASSUME NEW i \in 1..(Len(s) - (k + 1))
      PROVE  Tail(q)[i] = s[(k + 1) + i]
  <2>1. i \in 1..Len(Tail(q)) /\ i + 1 \in 1..(Len(s) - k) /\ k + (i + 1) = (k + 1) + i
    BY <1>1, <1>6
  <2> QED BY <1>2, <1>5, <2>1
<1>8. Tail(q) = Suffix(s, k + 1)
  BY <1>5, <1>6, <1>7, SuffixUnique
<1> QED BY <1>8 DEF q

LEMMA PrefixOfSuffix ==
  ASSUME NEW S, NEW s \in Seq(S), NEW k \in 0..Len(s), NEW n \in 0..(Len(s) - k)
  PROVE  /\ SubSeq(Suffix(s, k), 1, n) = SubSeq(s, k + 1, k + n)
         /\ SubSeq(Suffix(s, k), 1, n) \in Seq(S)
         /\ Len(SubSeq(Suffix(s, k), 1, n)) = n
         /\ \A i \in 1..n : SubSeq(Suffix(s, k), 1, n)[i] = s[k + i]
<1> DEFINE q == Suffix(s, k)
           t == SubSeq(q, 1, n)
           u == SubSeq(s, k + 1, k + n)
<1>1. Len(s) \in Nat /\ k \in Nat /\ n \in Nat /\ k + n <= Len(s) /\ k + n \in Nat
  BY LenProperties
<1>2. /\ q \in Seq(S) /\ Len(q) = Len(s) - k
      /\ \A i \in 1..(Len(s) - k) : q[i] = s[k + i]
  BY SuffixProperties
<1>3. \A i \in 1..Len(s) : s[i] \in S
  BY ElementOfSeq
<1>4. \A i \in 1..n : i \in 1..(Len(s) - k) /\ k + i \in 1..Len(s)
  BY <1>1
<1> HIDE DEF q
<1>5. \A i \in 1..n : q[i] = s[k + i] /\ q[i] \in S
  BY <1>2, <1>3, <1>4
<1>6. /\ t \in Seq(S)
      /\ Len(t) = IF 1 <= n THEN n - 1 + 1 ELSE 0
      /\ \A i \in 1..(n - 1 + 1) : t[i] = q[1 + i - 1]
  BY <1>1, <1>5, SubSeqProperties
<1>7. \A i \in (k + 1)..(k + n) : s[i] \in S
  BY <1>1, <1>3
<1>8. /\ u \in Seq(S)
      /\ Len(u) = IF k + 1 <= k + n THEN (k + n) - (k + 1) + 1 ELSE 0
      /\ \A i \in 1..((k + n) - (k + 1) + 1) : u[i] = s[(k + 1) + i - 1]
  BY <1>1, <1>7, SubSeqProperties
<1> HIDE DEF t, u
<1>9. \A j \in Nat, l \in Nat :
        /\ (IF 1 <= l THEN l - 1 + 1 ELSE 0) = l
        /\ (IF j + 1 <= j + l THEN (j + l) - (j + 1) + 1 ELSE 0) = l
        /\ (j + l) - (j + 1) + 1 = l
        /\ l - 1 + 1 = l
        /\ \A i \in 1..l : 1 + i - 1 = i /\ (j + 1) + i - 1 = j + i
  OBVIOUS
<1>10. Len(t) = n /\ Len(u) = n
  BY <1>1, <1>6, <1>8, <1>9
<1>11. \A i \in 1..n : t[i] = s[k + i] /\ u[i] = s[k + i]
  BY <1>1, <1>5, <1>6, <1>8, <1>9
<1>12. t = u
  BY <1>6, <1>8, <1>10, <1>11, SeqEqual
<1> QED BY <1>6, <1>10, <1>11, <1>12 DEF t, u, q

LEMMA RestOfSuffix ==
  ASSUME NEW S, NEW s \in Seq(S), NEW k \in 0..Len(s), NEW n \in 0..(Len(s) - k)
  PROVE  Suffix(Suffix(s, k), n) = Suffix(s, k + n)
<1> DEFINE q == Suffix(s, k)
           t == Suffix(q, n)
<1>1. Len(s) \in Nat /\ k \in Nat /\ n \in Nat /\ k + n <= Len(s)
  BY LenProperties
<1>2. /\ q \in Seq(S) /\ Len(q) = Len(s) - k
      /\ \A i \in 1..(Len(s) - k) : q[i] = s[k + i]
  BY SuffixProperties
<1> HIDE DEF q
<1>3. q \in Seq(S) /\ n \in 0..Len(q)
  BY <1>1, <1>2
<1>4. /\ t \in Seq(S) /\ Len(t) = Len(q) - n
      /\ \A i \in 1..(Len(q) - n) : t[i] = q[n + i]
  BY ONLY <1>3, SuffixProperties DEF t
<1> HIDE DEF t
<1>5. k + n \in 0..Len(s) /\ Len(t) = Len(s) - (k + n)
  <2>1. Len(t) = Len(q) - n
    BY ONLY <1>4
  <2>2. Len(q) = Len(s) - k
    BY ONLY <1>2
  <2> QED BY ONLY <1>1, <2>1, <2>2
<1>6. ASSUME NEW i \in 1..(Len(s) - (k + n))
      PROVE  t[i] = s[(k + n) + i]
  <2>1. i \in 1..(Len(q) - n) /\ n + i \in 1..(Len(s) - k) /\ k + (n + i) = (k + n) + i
    BY <1>1, <1>2
  <2> QED BY <1>2, <1>4, <2>1
<1>7. t = Suffix(s, k + n)
  BY <1>4, <1>5, <1>6, SuffixUnique
<1> QED BY <1>7 DEF t, q
-----------------------------------------------------------------------------
(* The inductive invariant behind the type invariant and QueueIsRecent.    *)
QueueInv == QueueTypeOK /\ QueueIsRecent

(* What the invariant says, in the form the steps use it.                  *)
LEMMA QueueIsSuffix ==
  ASSUME QueueInv
  PROVE  /\ cached \in Seq(ReportType) /\ event_queue \in Seq(ReportType)
         /\ Len(cached) \in Nat /\ Len(event_queue) \in Nat /\ Len(event_queue) <= MaxQueue
         /\ Start \in 0..Len(cached)
         /\ Len(event_queue) = Len(cached) - Start
         /\ event_queue = Suffix(cached, Start)
<1>1. cached \in Seq(ReportType) /\ event_queue \in Seq(ReportType)
  BY DEF QueueInv, QueueTypeOK
<1>2. Len(cached) \in Nat /\ Len(event_queue) \in Nat
  BY <1>1, LenProperties
<1>3. Start >= 0 /\ event_queue = Suffix(cached, Start) /\ Len(event_queue) <= MaxQueue
  BY DEF QueueInv, QueueTypeOK, QueueIsRecent, Suffix
<1>4. Start \in 0..Len(cached) /\ Len(event_queue) = Len(cached) - Start
  BY <1>2, <1>3 DEF Start
<1> QED BY <1>1, <1>2, <1>3, <1>4

LEMMA QueueInvInit == QueueInit => QueueInv
<1> SUFFICES ASSUME QueueInit PROVE QueueInv
  OBVIOUS
<1>1. event_queue = <<>> /\ cached = <<>> /\ Len(<<>>) = 0
  BY DEF QueueInit
<1>2. Start = 0 /\ SubSeq(<<>>, 1, 0) = <<>>
  BY <1>1, SubSeqEmpty DEF Start
<1>3. QueueIsRecent
  BY <1>1, <1>2 DEF QueueIsRecent
<1>4. batch \in [Clients -> Seq(ReportType)]
  BY EmptySeq DEF QueueInit
<1>5. QueueTypeOK
  BY <1>1, <1>4, EmptySeq, EventQueueAssumption DEF QueueInit, QueueTypeOK
<1> QED BY <1>3, <1>5 DEF QueueInv

(* cache_event keeps the invariant, and what it does to the cache is what  *)
(* Report does to the log.                                                 *)
LEMMA CacheEventStep ==
  ASSUME QueueInv, NEW e \in ReportType, CacheEvent(e), CacheData
  PROVE  QueueInv' /\ Log!Report(e)
<1> DEFINE k == IF Len(event_queue) >= MaxQueue THEN Start + 1 ELSE Start
<1>1. /\ cached \in Seq(ReportType) /\ event_queue \in Seq(ReportType)
      /\ Len(cached) \in Nat /\ Len(event_queue) \in Nat /\ Len(event_queue) <= MaxQueue
      /\ Start \in 0..Len(cached)
      /\ Len(event_queue) = Len(cached) - Start
      /\ event_queue = Suffix(cached, Start)
  BY QueueIsSuffix
<1>2. MaxQueue \in Nat \ {0}
  BY EventQueueAssumption
<1>3. k \in 0..Len(cached)
  BY <1>1, <1>2
<1>4. (IF Len(event_queue) >= MaxQueue THEN Tail(event_queue) ELSE event_queue)
        = Suffix(cached, k)
  <2>1. CASE Len(event_queue) >= MaxQueue
    <3>1. Start < Len(cached)
      BY <1>1, <1>2, <2>1
    <3>2. Tail(Suffix(cached, Start)) = Suffix(cached, Start + 1)
      BY <1>1, <3>1, TailOfSuffix
    <3> QED BY <1>1, <2>1, <3>2
  <2>2. CASE ~(Len(event_queue) >= MaxQueue)
    BY <1>1, <2>2
  <2> QED BY <2>1, <2>2
<1>5. cached' = Append(cached, e)
  BY DEF CacheEvent
<1>6. event_queue' = Append(Suffix(cached, k), e)
  BY <1>4 DEF CacheEvent, PushDroppingOldest
<1> HIDE DEF k
<1>7. event_queue' = Suffix(cached', k)
  BY <1>1, <1>3, <1>5, <1>6, AppendToSuffix
<1>8. /\ cached' \in Seq(ReportType) /\ Len(cached') = Len(cached) + 1
  BY <1>1, <1>5, AppendProperties
<1>9. k \in 0..Len(cached')
  BY <1>1, <1>3, <1>8
<1>10. event_queue' \in Seq(ReportType) /\ Len(event_queue') = Len(cached') - k
  BY <1>7, <1>8, <1>9, SuffixProperties
<1>11. Start' = k
  BY <1>1, <1>3, <1>8, <1>10 DEF Start
<1>12. Len(event_queue') <= MaxQueue
  BY <1>1, <1>2, <1>8, <1>10 DEF k
<1>13. QueueTypeOK'
  BY <1>8, <1>10, <1>12 DEF QueueInv, QueueTypeOK, CacheEvent
<1>14. QueueIsRecent'
  BY <1>3, <1>7, <1>11 DEF QueueIsRecent, Suffix
<1>15. Start' = Log!MaxOf(Start, Len(cached) + 1 - MaxQueue)
  BY <1>1, <1>2, <1>11 DEF k, Log!MaxOf
<1>16. Log!Report(e)
  BY <1>5, <1>15 DEF Log!Report, CacheEvent
<1> QED BY <1>13, <1>14, <1>16 DEF QueueInv

(* get_events_from_queue, for any count parameter, is Collect.             *)
LEMMA PopStep ==
  ASSUME QueueInv, NEW c \in Clients, NEW count \in Counts, Pop(c, count)
  PROVE  QueueInv' /\ \E k \in 0..(Len(cached) - Start) : Log!Collect(c, k)
<1> DEFINE n == MinOf(EffectiveCount(count), Len(event_queue))
<1>1. /\ cached \in Seq(ReportType) /\ event_queue \in Seq(ReportType)
      /\ Len(cached) \in Nat /\ Len(event_queue) \in Nat /\ Len(event_queue) <= MaxQueue
      /\ Start \in 0..Len(cached)
      /\ Len(event_queue) = Len(cached) - Start
      /\ event_queue = Suffix(cached, Start)
  BY QueueIsSuffix
<1>2. EffectiveCount(count) \in Nat \ {0}
  BY EventQueueAssumption DEF EffectiveCount
<1>3. n \in 0..(Len(cached) - Start) /\ (n = 0 => Start = Len(cached))
  BY <1>1, <1>2 DEF MinOf
<1>4. /\ c \notin serving /\ serving' = serving \cup {c}
      /\ batch' = [batch EXCEPT ![c] = SubSeq(event_queue, 1, n)]
      /\ event_queue' = Suffix(event_queue, n)
      /\ UNCHANGED <<cached, delivered, spoiled>>
  BY DEF Pop, Suffix
<1> HIDE DEF n
<1>5. /\ SubSeq(event_queue, 1, n) = SubSeq(cached, Start + 1, Start + n)
      /\ SubSeq(event_queue, 1, n) \in Seq(ReportType)
  <2>1. /\ SubSeq(Suffix(cached, Start), 1, n) = SubSeq(cached, Start + 1, Start + n)
        /\ SubSeq(Suffix(cached, Start), 1, n) \in Seq(ReportType)
    BY ONLY <1>1, <1>3, PrefixOfSuffix, SMTT(30)
  <2> QED BY ONLY <1>1, <2>1
<1>6. event_queue' = Suffix(cached, Start + n)
  <2>1. Suffix(Suffix(cached, Start), n) = Suffix(cached, Start + n)
    BY ONLY <1>1, <1>3, RestOfSuffix, SMTT(30)
  <2> QED BY ONLY <1>1, <1>4, <2>1
<1>7. Start + n \in 0..Len(cached)
  BY <1>1, <1>3
<1>8. event_queue' \in Seq(ReportType) /\ Len(event_queue') = Len(cached) - (Start + n)
  BY <1>1, <1>6, <1>7, SuffixProperties
<1>9. Start' = Start + n
  BY <1>1, <1>3, <1>4, <1>8 DEF Start
<1>10. Len(event_queue') <= MaxQueue
  BY <1>1, <1>3, <1>8, EventQueueAssumption
<1>11. QueueTypeOK'
  BY <1>1, <1>4, <1>5, <1>8, <1>10 DEF QueueInv, QueueTypeOK
<1>12. QueueIsRecent'
  <2>1. Start' >= 0
    BY <1>7, <1>9
  <2> QED BY <1>4, <1>6, <1>9, <2>1 DEF QueueIsRecent, Suffix
<1>13. Log!Collect(c, n)
  BY <1>3, <1>4, <1>5, <1>9 DEF Log!Collect
<1> QED BY <1>3, <1>11, <1>12, <1>13 DEF QueueInv

(* The second half of a request leaves the cache alone and is Finish.      *)
LEMMA RespondStep ==
  ASSUME QueueInv, NEW c \in Clients, Respond(c)
  PROVE  QueueInv' /\ Log!Finish(c)
<1>1. /\ c \in serving /\ serving' = serving \ {c}
      /\ batch' = [batch EXCEPT ![c] = <<>>]
      /\ UNCHANGED <<event_queue, cached>>
  BY DEF Respond, RespondOK, RespondError
<1>2. Start' = Start
  BY <1>1 DEF Start
<1>3. batch \in [Clients -> Seq(ReportType)] /\ batch[c] \in Seq(ReportType)
  BY DEF QueueInv, QueueTypeOK
<1>4. EventsOf(batch[c]) \subseteq ReportType
  BY <1>3, ElementOfSeq DEF EventsOf
<1>5. delivered' \subseteq ReportType /\ spoiled' \subseteq ReportType
  BY <1>4 DEF Respond, RespondOK, RespondError, QueueInv, QueueTypeOK
<1>6. batch' \in [Clients -> Seq(ReportType)]
  BY <1>1, <1>3, EmptySeq
<1>7. QueueTypeOK'
  BY <1>1, <1>5, <1>6 DEF QueueInv, QueueTypeOK
<1>8. QueueIsRecent'
  BY <1>1, <1>2 DEF QueueInv, QueueIsRecent
<1>9. Log!Finish(c)
  BY <1>1, <1>2 DEF Log!Finish
<1> QED BY <1>7, <1>8, <1>9 DEF QueueInv

(* Every step of the cache keeps the invariant and is a step of the log.   *)
LEMMA QueueStep ==
  ASSUME QueueInv, [QueueNext]_queueVars
  PROVE  QueueInv' /\ [Log!LogNext]_(Log!logVars)
<1>1. CASE Arrive
  <2>1. PICK utf8 \in BOOLEAN : CacheEvent([id |-> Len(cached) + 1, utf8 |-> utf8])
    BY <1>1 DEF Arrive
  <2> DEFINE e == [id |-> Len(cached) + 1, utf8 |-> utf8]
  <2>2. Len(cached) \in Nat /\ Len(cached) < MaxEvents /\ MaxEvents \in Nat
    BY <1>1, QueueIsSuffix, EventQueueAssumption DEF Arrive
  <2>3. e \in ReportType
    BY <2>2 DEF ReportType
  <2> HIDE DEF e
  <2>4. CASE CacheData
    <3>1. QueueInv' /\ Log!Report(e)
      BY <2>1, <2>3, <2>4, CacheEventStep DEF e
    <3> QED BY <2>3, <3>1 DEF Log!LogNext
  <2>5. CASE ~CacheData
    <3>1. UNCHANGED queueVars
      BY <2>1, <2>5 DEF CacheEvent, queueVars
    <3> QED BY <3>1 DEF queueVars, QueueInv, QueueTypeOK, QueueIsRecent, Start, Log!logVars
  <2> QED BY <2>4, <2>5
<1>2. ASSUME NEW c \in Clients, NEW n \in Counts, Pop(c, n)
      PROVE  QueueInv' /\ Log!LogNext
  BY <1>2, PopStep DEF Log!LogNext
<1>3. ASSUME NEW c \in Clients, Respond(c)
      PROVE  QueueInv' /\ Log!LogNext
  BY <1>3, RespondStep DEF Log!LogNext
<1>4. CASE UNCHANGED queueVars
  BY <1>4 DEF queueVars, QueueInv, QueueTypeOK, QueueIsRecent, Start, Log!logVars
<1> QED BY <1>1, <1>2, <1>3, <1>4 DEF QueueNext

LEMMA QueueInvAlways == QueueSpec => []QueueInv
<1>1. QueueInv /\ [QueueNext]_queueVars => QueueInv'
  BY QueueStep
<1> QED BY QueueInvInit, <1>1, PTL DEF QueueSpec

(* Every variable of the cache keeps its type and the queue its limit.     *)
THEOREM QueueTypeCorrect == QueueSpec => []QueueTypeOK
<1>1. QueueInv => QueueTypeOK
  BY DEF QueueInv
<1> QED BY <1>1, QueueInvAlways, PTL

(* The queue always holds the most recent events in the order in which     *)
(* they were cached, whatever requests ran in between.                     *)
THEOREM QueueAlwaysRecent == QueueSpec => []QueueIsRecent
<1>1. QueueInv => QueueIsRecent
  BY DEF QueueInv
<1> QED BY <1>1, QueueInvAlways, PTL

(* The cache implements the retained log: a request gets a run of the      *)
(* oldest retained events, never one handed out or evicted before.         *)
THEOREM CacheImplementsRetainedLog == QueueSpec => RetainsRecent
<1>1. QueueInit => Log!LogInit
  <2> SUFFICES ASSUME QueueInit PROVE Log!LogInit
    OBVIOUS
  <2>1. Start = 0
    BY EmptySeq DEF QueueInit, Start
  <2> QED BY <2>1 DEF QueueInit, Log!LogInit
<1>2. QueueInv /\ [QueueNext]_queueVars => [Log!LogNext]_(Log!logVars)
  BY QueueStep
<1> QED BY <1>1, <1>2, QueueInvAlways, PTL DEF QueueSpec, RetainsRecent, Log!LogSpec
-----------------------------------------------------------------------------
(* No event twice.  Whatever left the queue lies before Start in the log;  *)
(* the queue and the events about to leave it lie after.                   *)
Gone == {cached[i] : i \in 1..Start}

OneOfEach ==
  \A i \in 1..Len(cached), j \in 1..Len(cached) : cached[i].id = cached[j].id => i = j

HandedOutInv ==
  /\ OneOfEach
  /\ \A c \in Clients : EventsOf(batch[c]) \subseteq Gone
  /\ delivered \cup spoiled \subseteq Gone
  /\ \A c \in Clients, d \in Clients :
       c # d => EventsOf(batch[c]) \cap EventsOf(batch[d]) = {}
  /\ \A c \in Clients : EventsOf(batch[c]) \cap (delivered \cup spoiled) = {}
  /\ delivered \cap spoiled = {}

LEMMA HandedOutInit == QueueInit => HandedOutInv
BY EmptySeq DEF QueueInit, HandedOutInv, OneOfEach, EventsOf

(* What was evicted or handed out is not among the next k events.          *)
LEMMA GoneIsBehind ==
  ASSUME QueueInv, OneOfEach, NEW k \in 0..(Len(cached) - Start)
  PROVE  Gone \cap {cached[Start + i] : i \in 1..k} = {}
<1>1. Len(cached) \in Nat /\ Start \in 0..Len(cached)
  BY QueueIsSuffix
<1>2. SUFFICES ASSUME NEW j \in 1..Start, NEW i \in 1..k, cached[j] = cached[Start + i]
               PROVE  FALSE
  BY DEF Gone
<1>3. j \in 1..Len(cached) /\ Start + i \in 1..Len(cached) /\ j # Start + i
  BY <1>1
<1> QED BY <1>2, <1>3 DEF OneOfEach

LEMMA QueuedIsAhead ==
  ASSUME QueueInv
  PROVE  EventsOf(event_queue) = {cached[Start + i] : i \in 1..(Len(cached) - Start)}
<1>1. /\ cached \in Seq(ReportType) /\ Start \in 0..Len(cached)
      /\ Len(event_queue) = Len(cached) - Start
      /\ event_queue = Suffix(cached, Start)
  BY QueueIsSuffix
<1>2. \A i \in 1..(Len(cached) - Start) : event_queue[i] = cached[Start + i]
  BY <1>1, SuffixProperties
<1> QED BY <1>1, <1>2 DEF EventsOf

(* An event not cached before goes behind all others.                      *)
LEMMA CachingHandsOutNothing ==
  ASSUME QueueInv, HandedOutInv, NEW e \in ReportType, CacheEvent(e),
         CacheData => \A i \in 1..Len(cached) : cached[i].id # e.id
  PROVE  HandedOutInv'
<1>1. cached \in Seq(ReportType) /\ Len(cached) \in Nat /\ Start \in 0..Len(cached)
  BY QueueIsSuffix
<1>2. UNCHANGED <<batch, delivered, spoiled>>
  BY DEF CacheEvent
<1>3. CASE CacheData
  <2>1. cached' = Append(cached, e) /\ Start' = Log!MaxOf(Start, Len(cached) + 1 - MaxQueue)
    BY <1>3, CacheEventStep DEF Log!Report
  <2>2. /\ Len(cached') = Len(cached) + 1 /\ cached'[Len(cached) + 1] = e
        /\ \A i \in 1..Len(cached) : cached'[i] = cached[i]
    BY <1>1, <2>1, AppendProperties
  <2>3. Start' \in Int /\ Start <= Start'
    BY <1>1, <2>1, EventQueueAssumption DEF Log!MaxOf
  <2>4. Gone \subseteq Gone'
    <3>1. \A i \in 1..Start : i \in 1..Start' /\ cached[i] = cached'[i]
      BY <1>1, <2>2, <2>3
    <3> QED BY <3>1 DEF Gone
  <2>5. OneOfEach'
    <3> SUFFICES ASSUME NEW i \in 1..Len(cached'), NEW j \in 1..Len(cached'),
                        cached'[i].id = cached'[j].id
                 PROVE  i = j
      BY DEF OneOfEach
    <3>1. \A k \in 1..Len(cached') : k \in 1..Len(cached) \/ k = Len(cached) + 1
      BY <1>1, <2>2
    <3>2. CASE i \in 1..Len(cached) /\ j \in 1..Len(cached)
      BY <2>2, <3>2 DEF HandedOutInv, OneOfEach
    <3>3. CASE i = Len(cached) + 1 /\ j \in 1..Len(cached)
      BY <1>3, <2>2, <3>3
    <3>4. CASE j = Len(cached) + 1 /\ i \in 1..Len(cached)
      BY <1>3, <2>2, <3>4
    <3> QED BY <3>1, <3>2, <3>3, <3>4
  <2> QED BY <1>2, <2>4, <2>5 DEF HandedOutInv
<1>4. CASE ~CacheData
  <2>1. UNCHANGED <<event_queue, cached>>
    BY <1>4 DEF CacheEvent
  <2>2. Gone' = Gone /\ (OneOfEach' <=> OneOfEach)
    BY <2>1 DEF Gone, OneOfEach, Start
  <2> QED BY <1>2, <2>2 DEF HandedOutInv
<1> QED BY <1>3, <1>4

(* A request takes the events at the head of the queue. *)
LEMMA CollectedIsAhead ==
  ASSUME QueueInv, NEW c \in Clients, NEW k \in 0..(Len(cached) - Start),
         batch' = [batch EXCEPT ![c] = SubSeq(cached, Start + 1, Start + k)]
  PROVE  /\ EventsOf(batch'[c]) = {cached[Start + i] : i \in 1..k}
         /\ \A d \in Clients : d # c => batch'[d] = batch[d]
<1>1. /\ cached \in Seq(ReportType) /\ Len(cached) \in Nat /\ Start \in 0..Len(cached)
      /\ batch \in [Clients -> Seq(ReportType)]
  BY QueueIsSuffix DEF QueueInv, QueueTypeOK
<1> DEFINE new == SubSeq(Suffix(cached, Start), 1, k)
<1>2. /\ new = SubSeq(cached, Start + 1, Start + k) /\ Len(new) = k
      /\ \A i \in 1..k : new[i] = cached[Start + i]
  <2> PICK n : n = Start
    OBVIOUS
  <2>1. n \in 0..Len(cached) /\ k \in 0..(Len(cached) - n)
    BY <1>1
  <2>2. /\ SubSeq(Suffix(cached, n), 1, k) = SubSeq(cached, n + 1, n + k)
        /\ Len(SubSeq(Suffix(cached, n), 1, k)) = k
        /\ \A i \in 1..k : SubSeq(Suffix(cached, n), 1, k)[i] = cached[n + i]
    BY ONLY <1>1, <2>1, PrefixOfSuffix
  <2> QED BY <2>2
<1>3. batch'[c] = new /\ \A d \in Clients : d # c => batch'[d] = batch[d]
  BY <1>1, <1>2
<1>4. EventsOf(new) = {cached[Start + i] : i \in 1..k}
  BY <1>2 DEF EventsOf
<1> QED BY <1>3, <1>4

(* They are events that nobody was given. *)
LEMMA PoppingHandsOutNew ==
  ASSUME QueueInv, HandedOutInv, NEW c \in Clients, NEW count \in Counts, Pop(c, count)
  PROVE  HandedOutInv'
<1>1. Len(cached) \in Nat /\ Start \in 0..Len(cached)
  BY QueueIsSuffix
<1>2. PICK k \in 0..(Len(cached) - Start) : Log!Collect(c, k)
  BY PopStep
<1> DEFINE ahead == {cached[Start + i] : i \in 1..k}
<1>3. Start' = Start + k /\ UNCHANGED <<cached, delivered, spoiled>>
  BY <1>2 DEF Log!Collect, Pop
<1>4. EventsOf(batch'[c]) = ahead /\ \A d \in Clients : d # c => batch'[d] = batch[d]
  BY <1>2, CollectedIsAhead DEF Log!Collect
<1>5. Gone \cap ahead = {}
  BY GoneIsBehind DEF HandedOutInv
<1>6. Gone \subseteq Gone' /\ ahead \subseteq Gone'
  <2>1. \A i \in 1..Start : i \in 1..Start'
    BY <1>1, <1>3
  <2>2. \A i \in 1..k : Start + i \in 1..Start'
    BY <1>1, <1>3
  <2> QED BY <1>3, <2>1, <2>2 DEF Gone
<1> HIDE DEF ahead
<1>7. OneOfEach'
  BY <1>3 DEF HandedOutInv, OneOfEach
<1>8. \A d \in Clients : EventsOf(batch'[d]) \subseteq Gone'
  BY <1>6, <1>4 DEF HandedOutInv
<1>9. delivered' \cup spoiled' \subseteq Gone'
  BY <1>3, <1>6 DEF HandedOutInv
<1>10. \A d \in Clients, f \in Clients :
         d # f => EventsOf(batch'[d]) \cap EventsOf(batch'[f]) = {}
  BY <1>5, <1>4 DEF HandedOutInv
<1>11. \A d \in Clients : EventsOf(batch'[d]) \cap (delivered \cup spoiled) = {}
  BY <1>5, <1>4 DEF HandedOutInv
<1> QED BY <1>3, <1>7, <1>8, <1>9, <1>10, <1>11 DEF HandedOutInv

(* The answer accounts for what was popped. *)
LEMMA RespondingSettles ==
  ASSUME QueueInv, HandedOutInv, NEW c \in Clients, Respond(c)
  PROVE  HandedOutInv'
<1>1. batch \in [Clients -> Seq(ReportType)]
  BY DEF QueueInv, QueueTypeOK
<1>2. /\ batch' = [batch EXCEPT ![c] = <<>>]
      /\ UNCHANGED <<event_queue, cached>>
      /\ \/ delivered' = delivered \cup EventsOf(batch[c]) /\ spoiled' = spoiled
         \/ spoiled' = spoiled \cup EventsOf(batch[c]) /\ delivered' = delivered
  BY DEF Respond, RespondOK, RespondError
<1>3. Gone' = Gone /\ (OneOfEach' <=> OneOfEach)
  BY <1>2 DEF Gone, OneOfEach, Start
<1>4. /\ EventsOf(batch'[c]) = {}
      /\ \A d \in Clients : d # c => batch'[d] = batch[d]
  BY <1>1, <1>2, EmptySeq DEF EventsOf
<1> QED BY <1>2, <1>3, <1>4 DEF HandedOutInv

LEMMA HandedOutFollows == QueueInv /\ HandedOutInv => HandedOutOnce
<1> SUFFICES ASSUME QueueInv, HandedOutInv
             PROVE  HandedOutOnce
  OBVIOUS
<1>1. Len(cached) - Start \in 0..(Len(cached) - Start)
  BY QueueIsSuffix
<1>2. Gone \cap EventsOf(event_queue) = {}
  BY <1>1, GoneIsBehind, QueuedIsAhead DEF HandedOutInv
<1>3. \A c \in Clients : EventsOf(batch[c]) \cap EventsOf(event_queue) = {}
  BY <1>2 DEF HandedOutInv
<1>4. (delivered \cup spoiled) \cap EventsOf(event_queue) = {}
  BY <1>2 DEF HandedOutInv
<1> QED BY <1>3, <1>4 DEF HandedOutInv, HandedOutOnce

(* On its own the cache is given event number i as the i-th one.           *)
Numbered == \A i \in 1..Len(cached) : cached[i].id = i

LEMMA HandedOutStep ==
  ASSUME QueueInv, Numbered, HandedOutInv, [QueueNext]_queueVars
  PROVE  Numbered' /\ HandedOutInv'
<1>1. cached \in Seq(ReportType) /\ Len(cached) \in Nat
  BY QueueIsSuffix
<1>2. CASE Arrive
  <2>1. PICK utf8 \in BOOLEAN : CacheEvent([id |-> Len(cached) + 1, utf8 |-> utf8])
    BY <1>2 DEF Arrive
  <2> DEFINE e == [id |-> Len(cached) + 1, utf8 |-> utf8]
  <2>2. e \in ReportType
    <3>1. Len(cached) < MaxEvents /\ MaxEvents \in Nat
      BY <1>2, EventQueueAssumption DEF Arrive
    <3> QED BY <1>1, <3>1 DEF ReportType
  <2>3. \A i \in 1..Len(cached) : cached[i].id # e.id
    BY <1>1 DEF Numbered
  <2>4. HandedOutInv'
    BY <2>1, <2>2, <2>3, CachingHandsOutNothing
  <2>5. Numbered'
    <3>1. CASE cached' = Append(cached, e)
      <4>1. /\ Len(cached') = Len(cached) + 1
            /\ \A i \in 1..Len(cached) : cached'[i] = cached[i]
            /\ cached'[Len(cached) + 1] = e
        BY <1>1, <2>2, <3>1, AppendProperties
      <4> QED BY <1>1, <4>1 DEF Numbered
    <3>2. CASE cached' = cached
      BY <3>2 DEF Numbered
    <3> QED BY <2>1, <3>1, <3>2 DEF CacheEvent
  <2> QED BY <2>4, <2>5
<1>3. ASSUME NEW c \in Clients, NEW count \in Counts, Pop(c, count)
      PROVE  Numbered' /\ HandedOutInv'
  BY <1>3, PoppingHandsOutNew DEF Pop, Numbered
<1>4. ASSUME NEW c \in Clients, Respond(c)
      PROVE  Numbered' /\ HandedOutInv'
  BY <1>4, RespondingSettles DEF Respond, RespondOK, RespondError, Numbered
<1>5. CASE UNCHANGED queueVars
  <2>1. UNCHANGED <<event_queue, cached, batch, delivered, spoiled>>
    BY <1>5 DEF queueVars
  <2>2. Gone' = Gone /\ (OneOfEach' <=> OneOfEach) /\ (Numbered' <=> Numbered)
    BY <2>1 DEF Gone, OneOfEach, Numbered, Start
  <2> QED BY <2>1, <2>2 DEF HandedOutInv
<1> QED BY <1>2, <1>3, <1>4, <1>5 DEF QueueNext

(* Two requests, concurrent or not, never return the same event.           *)
THEOREM EventsHandedOutOnce == QueueSpec => []HandedOutOnce
<1>1. QueueInit => Numbered
  BY EmptySeq DEF QueueInit, Numbered
<1>2. QueueInv /\ Numbered /\ HandedOutInv /\ [QueueNext]_queueVars
        => Numbered' /\ HandedOutInv'
  BY HandedOutStep
<1> QED
  BY <1>1, <1>2, HandedOutInit, HandedOutFollows, QueueInvAlways, PTL DEF QueueSpec
-----------------------------------------------------------------------------
(* What the clients miss.  Of the recent events those that left the queue   *)
(* were all handed out; a batch lies close together in the log, so what is *)
(* spoiled is close to what spoiled it.                                    *)
Handed == delivered \cup UNION {EventsOf(batch[c]) : c \in Clients}

LossInv ==
  /\ \A c \in Clients : c \notin serving => EventsOf(batch[c]) = {}
  /\ \A i \in 1..Start : i > Len(cached) - MaxQueue => cached[i] \in Handed \cup spoiled
  /\ \A c \in Clients, i \in 1..Len(cached), j \in 1..Len(cached) :
       cached[i] \in EventsOf(batch[c]) /\ cached[j] \in EventsOf(batch[c]) => Close(i, j)
  /\ \A i \in 1..Len(cached) : cached[i] \in spoiled => SpoiledByNeighbour(i)

LEMMA LossInit == QueueInit => LossInv
BY EmptySeq DEF QueueInit, LossInv, EventsOf, Start

(* An event pushed out by the limit is not among the recent ones any more. *)
LEMMA CachingLosesOldest ==
  ASSUME QueueInv, HandedOutInv, LossInv, NEW e \in ReportType, CacheEvent(e),
         CacheData => \A i \in 1..Len(cached) : cached[i].id # e.id
  PROVE  LossInv'
<1>1. cached \in Seq(ReportType) /\ Len(cached) \in Nat /\ Start \in 0..Len(cached)
  BY QueueIsSuffix
<1>2. UNCHANGED <<serving, batch, delivered, spoiled>> /\ Handed' = Handed
  BY DEF CacheEvent, Handed
<1>3. CASE CacheData
  <2>1. cached' = Append(cached, e) /\ Start' = Log!MaxOf(Start, Len(cached) + 1 - MaxQueue)
    BY <1>3, CacheEventStep DEF Log!Report
  <2>2. /\ Len(cached') = Len(cached) + 1 /\ cached'[Len(cached) + 1] = e
        /\ \A i \in 1..Len(cached) : cached'[i] = cached[i]
    BY <1>1, <2>1, AppendProperties
  <2>3. e \notin Gone
    <3>1. \A i \in 1..Start : i \in 1..Len(cached)
      BY <1>1
    <3> QED BY <1>3, <3>1 DEF Gone
  <2>4. e \notin spoiled /\ \A c \in Clients : e \notin EventsOf(batch[c])
    BY <2>3 DEF HandedOutInv
  <2>5. \A i \in 1..Len(cached') : i \in 1..Len(cached) \/ cached'[i] = e
    BY <1>1, <2>2
  <2>6. \A i \in 1..Start' : i > Len(cached') - MaxQueue => cached'[i] \in Handed' \cup spoiled'
    <3> SUFFICES ASSUME NEW i \in 1..Start', i > Len(cached') - MaxQueue
                 PROVE  cached'[i] \in Handed \cup spoiled
      BY <1>2
    <3>1. i \in 1..Start /\ i \in 1..Len(cached) /\ i > Len(cached) - MaxQueue
      BY <1>1, <2>1, <2>2, EventQueueAssumption DEF Log!MaxOf
    <3> QED BY <2>2, <3>1 DEF LossInv
  <2>7. \A c \in Clients, i \in 1..Len(cached'), j \in 1..Len(cached') :
          cached'[i] \in EventsOf(batch'[c]) /\ cached'[j] \in EventsOf(batch'[c]) => Close(i, j)
    BY <1>2, <2>2, <2>4, <2>5 DEF LossInv
  <2>8. \A i \in 1..Len(cached') : cached'[i] \in spoiled' => SpoiledByNeighbour(i)'
    <3> SUFFICES ASSUME NEW i \in 1..Len(cached'), cached'[i] \in spoiled
                 PROVE  SpoiledByNeighbour(i)'
      BY <1>2
    <3>1. i \in 1..Len(cached) /\ cached'[i] = cached[i]
      BY <2>2, <2>4, <2>5
    <3>2. PICK j \in 1..Len(cached) : ~cached[j].utf8 /\ cached[j] \in spoiled /\ Close(i, j)
      BY <3>1 DEF LossInv, SpoiledByNeighbour
    <3>3. j \in 1..Len(cached') /\ cached'[j] = cached[j]
      BY <1>1, <2>2
    <3> QED BY <1>2, <3>2, <3>3 DEF SpoiledByNeighbour, Close
  <2>9. \A c \in Clients : c \notin serving' => EventsOf(batch'[c]) = {}
    BY <1>2 DEF LossInv
  <2> QED BY <2>6, <2>7, <2>8, <2>9 DEF LossInv, Close
<1>4. CASE ~CacheData
  BY <1>2, <1>4 DEF CacheEvent, LossInv, Start, SpoiledByNeighbour, Close
<1> QED BY <1>3, <1>4

(* What a request takes is a run of the log no longer than the queue.      *)
LEMMA PoppingLosesNothing ==
  ASSUME QueueInv, HandedOutInv, LossInv, NEW c \in Clients, NEW count \in Counts,
         Pop(c, count)
  PROVE  LossInv'
<1>1. /\ cached \in Seq(ReportType) /\ Len(cached) \in Nat /\ Start \in 0..Len(cached)
      /\ Len(event_queue) = Len(cached) - Start /\ Len(event_queue) <= MaxQueue
      /\ batch \in [Clients -> Seq(ReportType)]
  BY QueueIsSuffix DEF QueueInv, QueueTypeOK
<1>2. PICK k \in 0..(Len(cached) - Start) : Log!Collect(c, k)
  BY PopStep
<1> DEFINE ahead == {cached[Start + i] : i \in 1..k}
<1>3. /\ Start' = Start + k /\ c \notin serving /\ serving' = serving \cup {c}
      /\ UNCHANGED <<cached, delivered, spoiled>>
  BY <1>2 DEF Log!Collect, Pop
<1>4. /\ EventsOf(batch'[c]) = ahead
      /\ \A d \in Clients : d # c => batch'[d] = batch[d]
  BY <1>1, <1>2, CollectedIsAhead DEF Log!Collect
<1>5. Handed \cup ahead \subseteq Handed'
  <2>1. EventsOf(batch[c]) = {}
    BY <1>3 DEF LossInv
  <2> QED BY <1>3, <1>4, <2>1 DEF Handed
<1>6. \A i \in 1..Start' : i > Len(cached') - MaxQueue => cached'[i] \in Handed' \cup spoiled'
  <2> SUFFICES ASSUME NEW i \in 1..Start', i > Len(cached) - MaxQueue
               PROVE  cached[i] \in Handed' \cup spoiled
    BY <1>3
  <2>1. CASE i \in 1..Start
    BY <1>5, <2>1 DEF LossInv
  <2>2. CASE i \notin 1..Start
    <3>1. i - Start \in 1..k /\ Start + (i - Start) = i
      BY <1>1, <1>3, <2>2
    <3>2. cached[i] \in ahead
      BY <3>1
    <3> QED BY <1>5, <3>2
  <2> QED BY <2>1, <2>2
<1>7. \A d \in Clients, i \in 1..Len(cached'), j \in 1..Len(cached') :
        cached'[i] \in EventsOf(batch'[d]) /\ cached'[j] \in EventsOf(batch'[d]) => Close(i, j)
  <2> SUFFICES ASSUME NEW d \in Clients, NEW i \in 1..Len(cached), NEW j \in 1..Len(cached),
                      cached[i] \in EventsOf(batch'[d]), cached[j] \in EventsOf(batch'[d])
               PROVE  Close(i, j)
    BY <1>3
  <2>1. CASE d # c
    BY <1>4, <2>1 DEF LossInv
  <2>2. CASE d = c
    <3>1. PICK l \in 1..k : cached[i] = cached[Start + l]
      BY <1>4, <2>2
    <3>2. PICK m \in 1..k : cached[j] = cached[Start + m]
      BY <1>4, <2>2
    <3>3. Start + l \in 1..Len(cached) /\ Start + m \in 1..Len(cached)
      BY <1>1
    <3>4. i = Start + l /\ j = Start + m
      BY <3>1, <3>2, <3>3 DEF HandedOutInv, OneOfEach
    <3>5. k <= MaxQueue /\ k \in Nat
      BY <1>1, EventQueueAssumption
    <3> QED BY <1>1, <3>4, <3>5, EventQueueAssumption DEF Close
  <2> QED BY <2>1, <2>2
<1>8. \A i \in 1..Len(cached') : cached'[i] \in spoiled' => SpoiledByNeighbour(i)'
  BY <1>3 DEF LossInv, SpoiledByNeighbour, Close
<1>9. \A d \in Clients : d \notin serving' => EventsOf(batch'[d]) = {}
  BY <1>3, <1>4 DEF LossInv
<1> QED BY <1>6, <1>7, <1>8, <1>9 DEF LossInv, Close

(* A response that fails spoils the batch, around the event that it could  *)
(* not dump.                                                               *)
LEMMA RespondingHasCause ==
  ASSUME QueueInv, HandedOutInv, LossInv, NEW c \in Clients, Respond(c)
  PROVE  LossInv'
<1>1. batch \in [Clients -> Seq(ReportType)] /\ Len(cached) \in Nat /\ Start \in 0..Len(cached)
  BY QueueIsSuffix DEF QueueInv, QueueTypeOK
<1>2. /\ batch' = [batch EXCEPT ![c] = <<>>] /\ serving' = serving \ {c}
      /\ UNCHANGED <<event_queue, cached>> /\ Start' = Start
      /\ delivered \subseteq delivered' /\ spoiled \subseteq spoiled'
      /\ EventsOf(batch[c]) \subseteq delivered' \cup spoiled'
  BY DEF Respond, RespondOK, RespondError, Start
<1>3. EventsOf(batch'[c]) = {} /\ \A d \in Clients : d # c => batch'[d] = batch[d]
  BY <1>1, <1>2, EmptySeq DEF EventsOf
<1>4. Handed \cup spoiled \subseteq Handed' \cup spoiled'
  BY <1>2, <1>3 DEF Handed
<1>5. \A i \in 1..Start' : i > Len(cached') - MaxQueue => cached'[i] \in Handed' \cup spoiled'
  BY <1>2, <1>4 DEF LossInv
<1>6. \A d \in Clients, i \in 1..Len(cached'), j \in 1..Len(cached') :
        cached'[i] \in EventsOf(batch'[d]) /\ cached'[j] \in EventsOf(batch'[d]) => Close(i, j)
  BY <1>2, <1>3 DEF LossInv
<1>7. \A i \in 1..Len(cached') : cached'[i] \in spoiled' => SpoiledByNeighbour(i)'
  <2> SUFFICES ASSUME NEW i \in 1..Len(cached), cached[i] \in spoiled'
               PROVE  \E j \in 1..Len(cached) :
                        ~cached[j].utf8 /\ cached[j] \in spoiled' /\ Close(i, j)
    BY <1>2 DEF SpoiledByNeighbour, Close
  <2>1. CASE cached[i] \in spoiled
    BY <1>2, <2>1 DEF LossInv, SpoiledByNeighbour
  <2>2. CASE cached[i] \notin spoiled
    <3>1. /\ ~Printable(batch[c]) /\ cached[i] \in EventsOf(batch[c])
          /\ EventsOf(batch[c]) \subseteq spoiled'
      BY <2>2 DEF Respond, RespondOK, RespondError
    <3>2. PICK bad \in EventsOf(batch[c]) : ~bad.utf8
      BY <3>1 DEF Printable, EventsOf
    <3>3. PICK j \in 1..Start : bad = cached[j]
      BY <3>2 DEF HandedOutInv, Gone
    <3>4. j \in 1..Len(cached)
      BY <1>1
    <3> QED BY <3>1, <3>2, <3>3, <3>4 DEF LossInv
  <2> QED BY <2>1, <2>2
<1>8. \A d \in Clients : d \notin serving' => EventsOf(batch'[d]) = {}
  BY <1>2, <1>3 DEF LossInv
<1> QED BY <1>5, <1>6, <1>7, <1>8 DEF LossInv, Close

LEMMA LossFollows == QueueInv /\ LossInv => LossHasCause
<1> SUFFICES ASSUME QueueInv, LossInv, NEW i \in 1..Len(cached)
             PROVE  cached[i] \in Held \/ PushedOut(i) \/ SpoiledByNeighbour(i)
  BY DEF LossHasCause
<1>1. Len(cached) \in Nat /\ Start \in 0..Len(cached) /\ MaxQueue \in Nat
  BY QueueIsSuffix, EventQueueAssumption
<1>2. CASE i \in 1..Start
  BY <1>1, <1>2 DEF LossInv, Handed, Held, PushedOut
<1>3. CASE i \notin 1..Start
  <2>1. i - Start \in 1..(Len(cached) - Start) /\ Start + (i - Start) = i
    BY <1>1, <1>3
  <2> QED BY <2>1, QueuedIsAhead DEF Held
<1> QED BY <1>2, <1>3

LEMMA LossStep ==
  ASSUME QueueInv, Numbered, HandedOutInv, LossInv, [QueueNext]_queueVars
  PROVE  LossInv'
<1>1. CASE Arrive
  <2>1. PICK utf8 \in BOOLEAN : CacheEvent([id |-> Len(cached) + 1, utf8 |-> utf8])
    BY <1>1 DEF Arrive
  <2>2. Len(cached) \in Nat /\ Len(cached) < MaxEvents /\ MaxEvents \in Nat
    BY <1>1, QueueIsSuffix, EventQueueAssumption DEF Arrive
  <2>3. [id |-> Len(cached) + 1, utf8 |-> utf8] \in ReportType
    BY <2>2 DEF ReportType
  <2>4. \A i \in 1..Len(cached) : cached[i].id # Len(cached) + 1
    BY <2>2 DEF Numbered
  <2> QED BY <2>1, <2>3, <2>4, CachingLosesOldest
<1>2. CASE \E c \in Clients : (\E n \in Counts : Pop(c, n)) \/ Respond(c)
  BY <1>2, PoppingLosesNothing, RespondingHasCause
<1>3. CASE UNCHANGED queueVars
  BY <1>3 DEF queueVars, LossInv, Handed, Start, SpoiledByNeighbour, Close
<1> QED BY <1>1, <1>2, <1>3 DEF QueueNext

(* Every event the clients miss was pushed out by the limit or popped close *)
(* to one that cannot be dumped.                                           *)
THEOREM LossAlwaysHasCause == QueueSpec => []LossHasCause
<1>1. QueueInit => Numbered
  BY EmptySeq DEF QueueInit, Numbered
<1>2. QueueInv /\ Numbered /\ HandedOutInv /\ LossInv /\ [QueueNext]_queueVars
        => Numbered' /\ HandedOutInv' /\ LossInv'
  BY HandedOutStep, LossStep
<1> QED
  BY <1>1, <1>2, HandedOutInit, LossInit, LossFollows, QueueInvAlways, PTL DEF QueueSpec
=============================================================================
