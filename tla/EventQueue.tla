----------------------------- MODULE EventQueue -----------------------------
(***************************************************************************)
(* The in-memory cache of accepted events (post.cpp): cache_event, run by  *)
(* the thread that polls the ring buffer, and the HTTP worker threads that *)
(* serve GET /monitor_file_status.  Each critical section under            *)
(* event_queue_mutex is one step; building and sending the response is a   *)
(* second step of the request, taken with the mutex released.              *)
(***************************************************************************)
EXTENDS Integers, Sequences

CONSTANTS
  Clients,       \* HTTP worker threads that serve a request
  Counts,        \* numeric count parameters clients send
  MaxQueue,      \* max_event_queue_size
  DefaultCount,  \* the 10 used for an absent, malformed or bad count
  CacheData,     \* configuration flags cache_data and publish; the
  Publish,       \*   HTTP server runs only when publish is set
  MaxEvents      \* bound of the model on the number of events cached

ASSUME EventQueueAssumption ==
  /\ Counts \subseteq Int
  /\ MaxQueue \in Nat \ {0}
  /\ DefaultCount \in Nat \ {0}
  /\ CacheData \in BOOLEAN
  /\ Publish \in BOOLEAN
  /\ MaxEvents \in Nat

VARIABLES
  event_queue,   \* the queue, oldest event first
  cached,        \* every event ever pushed on it
  serving,       \* workers between popping and responding
  batch,         \* batch[c]: the events worker c popped
  delivered,     \* events returned in a 200 response, in pop order per client
  spoiled        \* events popped for a response that could not be built

queueVars == <<event_queue, cached, serving, batch, delivered, spoiled>>

(* The JSON object built from an event: which ring record it describes and *)
(* whether all its strings are valid UTF-8.                                *)
ReportType == [id : 1..MaxEvents, utf8 : BOOLEAN]

QueueInit ==
  /\ event_queue = <<>>
  /\ cached = <<>>
  /\ serving = {}
  /\ batch = [c \in Clients |-> <<>>]
  /\ delivered = {}
  /\ spoiled = {}
-----------------------------------------------------------------------------
(* Faulty versions, named Bad..., stand before what they replace: no action *)
(* uses them; they are there to show that the properties would notice.      *)
BadPushLate(q, e) == Append(IF Len(q) > MaxQueue THEN Tail(q) ELSE q, e)
BadPushDropsNewest(q, e) ==
  Append(IF Len(q) >= MaxQueue THEN SubSeq(q, 1, Len(q) - 1) ELSE q, e)

(* push on a bounded queue: drop the oldest element when it is full. *)
PushDroppingOldest(q, e) ==
  Append(IF Len(q) >= MaxQueue THEN Tail(q) ELSE q, e)

(* cache_event: nothing unless cache_data is set. *)
CacheEvent(e) ==
  /\ IF CacheData
       THEN /\ event_queue' = PushDroppingOldest(event_queue, e)
            /\ cached' = Append(cached, e)
       ELSE UNCHANGED <<event_queue, cached>>
  /\ UNCHANGED <<serving, batch, delivered, spoiled>>

BadCountKeepsZero(count) ==
  IF count < 0 \/ count > MaxQueue THEN DefaultCount ELSE count

(* The number of events asked for.  An absent or malformed parameter, which *)
(* yields the default as well, need not be told from one out of range.      *)
EffectiveCount(count) ==
  IF count <= 0 \/ count > MaxQueue THEN DefaultCount ELSE count

MinOf(a, b) == IF a <= b THEN a ELSE b

BadPopLeavesLast(c, count) ==
  LET n == MinOf(EffectiveCount(count), Len(event_queue))
  IN  /\ Publish /\ CacheData
      /\ c \notin serving
      /\ serving' = serving \cup {c}
      /\ batch' = [batch EXCEPT ![c] = SubSeq(event_queue, 1, n)]
      /\ event_queue' = IF n = 0 THEN event_queue
                        ELSE SubSeq(event_queue, n, Len(event_queue))
      /\ UNCHANGED <<cached, delivered, spoiled>>

(* Front and pop without the mutex: the popped events are gone only when   *)
(* the response is sent.                                                   *)
BadPopUnlocked(c, count) ==
  LET n == MinOf(EffectiveCount(count), Len(event_queue))
  IN  /\ Publish /\ CacheData
      /\ c \notin serving
      /\ serving' = serving \cup {c}
      /\ batch' = [batch EXCEPT ![c] = SubSeq(event_queue, 1, n)]
      /\ UNCHANGED <<event_queue, cached, delivered, spoiled>>

(* get_events_from_queue, called for a request with this count parameter. *)
Pop(c, count) ==
  LET n == MinOf(EffectiveCount(count), Len(event_queue))
  IN  /\ Publish /\ CacheData
      /\ c \notin serving
      /\ serving' = serving \cup {c}
      /\ batch' = [batch EXCEPT ![c] = SubSeq(event_queue, 1, n)]
      /\ event_queue' = SubSeq(event_queue, n + 1, Len(event_queue))
      /\ UNCHANGED <<cached, delivered, spoiled>>

(* The JSON text of a batch: dump throws on a string that is not UTF-8.    *)
Printable(q) == \A i \in 1..Len(q) : q[i].utf8
EventsOf(q)  == {q[i] : i \in 1..Len(q)}

(* The rest of the handler: 204 for an empty batch, 200 with the events.   *)
RespondOK(c) ==
  /\ c \in serving
  /\ Printable(batch[c])
  /\ delivered' = delivered \cup EventsOf(batch[c])
  /\ serving' = serving \ {c}
  /\ batch' = [batch EXCEPT ![c] = <<>>]
  /\ UNCHANGED <<event_queue, cached, spoiled>>

(* A handler that takes the failure for a broken cache and empties it.     *)
BadRespondErrorClears(c) ==
  /\ c \in serving
  /\ ~Printable(batch[c])
  /\ spoiled' = spoiled \cup EventsOf(batch[c])
  /\ serving' = serving \ {c}
  /\ batch' = [batch EXCEPT ![c] = <<>>]
  /\ event_queue' = <<>>
  /\ UNCHANGED <<cached, delivered>>

(* dump throws out of the handler: the HTTP library answers 500 and the    *)
(* events, already popped, are gone.                                       *)
RespondError(c) ==
  /\ c \in serving
  /\ ~Printable(batch[c])
  /\ spoiled' = spoiled \cup EventsOf(batch[c])
  /\ serving' = serving \ {c}
  /\ batch' = [batch EXCEPT ![c] = <<>>]
  /\ UNCHANGED <<event_queue, cached, delivered>>

Respond(c) == RespondOK(c) \/ RespondError(c)
-----------------------------------------------------------------------------
(* The cache on its own: events arrive one after another. *)
Arrive ==
  /\ Len(cached) < MaxEvents
  /\ \E utf8 \in BOOLEAN : CacheEvent([id |-> Len(cached) + 1, utf8 |-> utf8])

QueueNext ==
  \/ Arrive
  \/ \E c \in Clients : (\E n \in Counts : Pop(c, n)) \/ Respond(c)

QueueSpec == QueueInit /\ [][QueueNext]_queueVars
-----------------------------------------------------------------------------
QueueTypeOK ==
  /\ event_queue \in Seq(ReportType) /\ Len(event_queue) <= MaxQueue
  /\ cached \in Seq(ReportType)
  /\ serving \subseteq Clients
  /\ batch \in [Clients -> Seq(ReportType)]
  /\ delivered \subseteq ReportType
  /\ spoiled \subseteq ReportType

(* Where the queue starts in the log of everything cached. *)
Start == Len(cached) - Len(event_queue)

(* The queue holds the most recent events, no more than max_event_queue_size *)
(* of them, in the order they were cached, whatever was popped or evicted    *)
(* in between (cache_event and get_events_from_queue).                       *)
QueueIsRecent ==
  /\ Start >= 0
  /\ event_queue = SubSeq(cached, Start + 1, Len(cached))

(* Two requests served at the same time, or one after the other, never     *)
(* return the same event, and an event returned or being returned is no    *)
(* longer in the queue (the pops of get_events_from_queue).                *)
HandedOutOnce ==
  /\ \A c, d \in Clients :
       c # d => EventsOf(batch[c]) \cap EventsOf(batch[d]) = {}
  /\ \A c \in Clients :
       EventsOf(batch[c]) \cap (delivered \cup spoiled \cup EventsOf(event_queue)) = {}
  /\ (delivered \cup spoiled) \cap EventsOf(event_queue) = {}
  /\ delivered \cap spoiled = {}

(* What the clients may miss, when events are lost with the response that  *)
(* could not be built: an event that is neither waiting nor being returned *)
(* nor was returned was pushed out by max_event_queue_size newer ones, or  *)
(* popped together with one that cannot be dumped, closer to it than the   *)
(* queue is long.  So one bad event costs no more than the batch it was    *)
(* in, and nothing disappears that no limit and no bad event explains      *)
(* (cache_event, get_events_from_queue, the handler of                     *)
(* /monitor_file_status).                                                  *)
Held == EventsOf(event_queue) \cup delivered \cup UNION {EventsOf(batch[c]) : c \in Clients}

PushedOut(i) == cached[i] \notin spoiled /\ i <= Len(cached) - MaxQueue

Close(i, j) == i - j < MaxQueue /\ j - i < MaxQueue

SpoiledByNeighbour(i) ==
  /\ cached[i] \in spoiled
  /\ \E j \in 1..Len(cached) : ~cached[j].utf8 /\ cached[j] \in spoiled /\ Close(i, j)

LossHasCause ==
  \A i \in 1..Len(cached) : cached[i] \in Held \/ PushedOut(i) \/ SpoiledByNeighbour(i)

(* As long as some worker keeps being asked, every cached event leaves the *)
(* queue, whatever count parameters the requests carry: no parameter makes *)
(* get_events_from_queue answer "no event" for ever over a queue that has  *)
(* some (the count handling of the /monitor_file_status handler).          *)
Queued(i) == \E k \in 1..Len(event_queue) : event_queue[k].id = i
KeepsBeingAsked ==
  \E c \in Clients : []<><<\E n \in Counts : Pop(c, n)>>_queueVars
PollingDrains ==
  KeepsBeingAsked => \A i \in 1..MaxEvents : Queued(i) ~> ~Queued(i)

(* The cache keeps the promise of RetainedLog: its queue is the part of    *)
(* the log from the cursor on.                                             *)
Log == INSTANCE RetainedLog WITH
         Reports <- ReportType, Capacity <- MaxQueue,
         log <- cached, cursor <- Start, answer <- batch

RetainsRecent == Log!LogSpec
=============================================================================
