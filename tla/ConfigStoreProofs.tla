------------------------- MODULE ConfigStoreProofs -------------------------
(***************************************************************************)
(* The configuration store, for any number of workers and any paths: one   *)
(* worker at a time is inside update_config, the file is whole unless a    *)
(* write failed, and an acknowledged update stays in force.                *)
(***************************************************************************)
EXTENDS ConfigStore, SequenceTheorems, TLAPS

(* A tmp file about to be renamed holds the list in memory or was spoilt   *)
(* by a failed write.                                                      *)
TmpIsCurrent ==
  \A w \in Workers : at[w] = "rename" => tmp = Whole(conf_list) \/ (tmp = Broken /\ lost_write)

(* Exactly the last update is pending, and only while a worker holds the   *)
(* mutex: the one whose change the list in memory has and the file may not. *)
OnePending ==
  \A k \in 1..Len(updates) :
    updates[k].outcome = "pending" <=> mutex # NoWorker /\ k = Len(updates)

PendingInMemory ==
  mutex # NoWorker =>
    /\ up
    /\ Len(updates) > 0
    /\ InForce(updates[Len(updates)], conf_list)

StoreInv ==
  /\ TypeOK
  /\ TmpIsCurrent
  /\ OnePending
  /\ PendingInMemory
  /\ FileIsWhole
  /\ AckedInForce

(* What Settle and Update do to the updates made so far.                   *)
LEMMA SettleProperties ==
  ASSUME TypeOK, NEW outcome \in Outcomes, Len(updates) > 0, Settle(outcome)
  PROVE  /\ updates' \in Seq(UpdateType) /\ Len(updates') = Len(updates)
         /\ \A k \in 1..Len(updates) :
              /\ updates'[k].conf = updates[k].conf
              /\ updates'[k].action = updates[k].action
              /\ updates'[k].outcome = IF k = Len(updates) THEN outcome ELSE updates[k].outcome
<1>1. updates \in Seq(UpdateType) /\ Len(updates) \in 1..Len(updates)
  BY LenProperties DEF TypeOK
<1>2. \A k \in 1..Len(updates) : updates[k] \in UpdateType
  BY <1>1, ElementOfSeq
<1>3. [updates[Len(updates)] EXCEPT !.outcome = outcome] \in UpdateType
  BY <1>1, <1>2 DEF UpdateType
<1>4. updates' = [updates EXCEPT ![Len(updates)] =
                    [updates[Len(updates)] EXCEPT !.outcome = outcome]]
  BY DEF Settle
<1>5. /\ updates' \in Seq(UpdateType) /\ Len(updates') = Len(updates)
      /\ \A k \in 1..Len(updates) :
           updates'[k] = IF k = Len(updates)
                           THEN [updates[Len(updates)] EXCEPT !.outcome = outcome]
                           ELSE updates[k]
  BY <1>1, <1>3, <1>4, ExceptSeq
<1>6. \A k \in 1..Len(updates) :
        /\ [updates[k] EXCEPT !.outcome = outcome].conf = updates[k].conf
        /\ [updates[k] EXCEPT !.outcome = outcome].action = updates[k].action
        /\ [updates[k] EXCEPT !.outcome = outcome].outcome = outcome
  BY <1>2 DEF UpdateType
<1> QED BY <1>1, <1>5, <1>6

LEMMA StoreInvInit == Init => StoreInv
<1> SUFFICES ASSUME Init PROVE StoreInv
  OBVIOUS
<1>1. updates = <<>> /\ Len(updates) = 0 /\ mutex = NoWorker /\ \A w \in Workers : at[w] = "idle"
  BY EmptySeq DEF Init
<1>2. TypeOK
  BY <1>1, EmptySeq, ConfigStoreAssumption
     DEF Init, TypeOK, FileType, Whole, Broken
<1>3. FileIsWhole
  BY DEF Init, FileIsWhole, Whole
<1> QED
  BY <1>1, <1>2, <1>3
     DEF StoreInv, TmpIsCurrent, OnePending, PendingInMemory, AckedInForce

LEMMA UpdateStep ==
  ASSUME StoreInv, NEW w \in Workers, NEW action \in Actions, NEW conf \in Confs,
         Update(w, action, conf)
  PROVE  StoreInv'
<1> DEFINE u == [conf |-> conf, action |-> action, outcome |-> "pending"]
<1>1. u \in UpdateType /\ u.conf = conf /\ u.action = action /\ u.outcome = "pending"
  BY DEF UpdateType, Outcomes
<1>2. updates \in Seq(UpdateType) /\ Len(updates) \in Nat
  BY LenProperties DEF StoreInv, TypeOK
<1>3. updates' = Append(updates, u)
  BY DEF Update
<1> HIDE DEF u
<1>4. /\ updates' \in Seq(UpdateType) /\ Len(updates') = Len(updates) + 1
      /\ \A k \in 1..Len(updates) : updates'[k] = updates[k]
      /\ updates'[Len(updates) + 1] = u
  BY <1>1, <1>2, <1>3, AppendProperties
<1>5. \A v \in Workers : at[v] = "idle"
  BY ConfigStoreAssumption DEF Update, StoreInv, TypeOK
<1>6. TypeOK'
  <2>1. conf_list' \subseteq Path
    BY ConfigStoreAssumption DEF StoreInv, TypeOK, Update, Changed
  <2>2. \A v \in Workers : at'[v] # "idle" <=> mutex' = v
    BY <1>5 DEF StoreInv, TypeOK, Update
  <2>3. at' \in [Workers -> {"idle", "open", "write", "rename"}]
    BY DEF StoreInv, TypeOK, Update
  <2> QED BY <1>4, <2>1, <2>2, <2>3 DEF StoreInv, TypeOK, Update
<1>7. TmpIsCurrent'
  BY <1>5 DEF StoreInv, TypeOK, Update, TmpIsCurrent
<1>8. OnePending'
  <2>1. mutex' # NoWorker
    BY ConfigStoreAssumption DEF Update
  <2>2. \A k \in 1..Len(updates) : updates[k].outcome # "pending"
    BY DEF StoreInv, OnePending, Update
  <2> QED BY <1>1, <1>2, <1>4, <2>1, <2>2 DEF OnePending
<1>9. InForce(u, conf_list')
  BY <1>1 DEF InForce, Update, Changed, Actions
<1>10. PendingInMemory'
  BY <1>2, <1>4, <1>9 DEF PendingInMemory, Update, InForce
<1>11. AckedInForce'
  <2> SUFFICES ASSUME NEW k \in 1..Len(updates'), updates'[k].outcome = "ok", Latest(k)'
               PROVE  /\ up' => InForce(updates'[k], conf_list')
                      /\ disk'.whole => InForce(updates'[k], disk'.list)
    BY DEF AckedInForce, InForce
  <2>1. k \in 1..Len(updates) /\ updates'[k] = updates[k]
    BY <1>1, <1>2, <1>4
  <2>2. updates[k].conf # conf
    BY <1>1, <1>2, <1>4, <2>1 DEF Latest
  <2>3. Latest(k)
    BY <1>2, <1>4, <2>1 DEF Latest
  <2>4. InForce(updates[k], conf_list) /\ (disk.whole => InForce(updates[k], disk.list))
    BY <2>1, <2>3 DEF StoreInv, AckedInForce, Update
  <2>5. InForce(updates[k], conf_list')
    BY <2>2, <2>4 DEF InForce, Update, Changed
  <2> QED BY <2>1, <2>4, <2>5 DEF Update
<1>12. FileIsWhole'
  BY DEF StoreInv, FileIsWhole, Update
<1> QED BY <1>6, <1>7, <1>8, <1>10, <1>11, <1>12 DEF StoreInv

(* The steps that only touch the tmp file.                                 *)
LEMMA TmpStep ==
  ASSUME StoreInv, NEW w \in Workers, OpenTmp(w) \/ WriteTmp(w)
  PROVE  StoreInv'
<1>1. UNCHANGED <<up, conf_list, mutex, disk, updates>>
  BY DEF OpenTmp, WriteTmp
<1>2. tmp' \in FileType /\ lost_write' \in BOOLEAN /\ (lost_write => lost_write')
  <2>1. Broken \in FileType /\ Whole(conf_list) \in FileType
    BY DEF StoreInv, TypeOK, Broken, Whole, FileType
  <2>2. lost_write \in BOOLEAN
    BY DEF StoreInv, TypeOK
  <2>3. CASE OpenTmp(w)
    BY <2>1, <2>2, <2>3 DEF OpenTmp
  <2>4. CASE WriteTmp(w)
    BY <2>1, <2>2, <2>4 DEF WriteTmp
  <2> QED BY <2>3, <2>4
<1>3. /\ at' \in [Workers -> {"idle", "open", "write", "rename"}]
      /\ \A v \in Workers : at'[v] # "idle" <=> at[v] # "idle"
  BY DEF StoreInv, TypeOK, OpenTmp, WriteTmp
<1>4. TypeOK'
  BY <1>1, <1>2, <1>3 DEF StoreInv, TypeOK
<1>5. TmpIsCurrent'
  <2>1. at[w] # "rename" /\ \A v \in Workers \ {w} : at[v] = "idle"
    BY ConfigStoreAssumption DEF StoreInv, TypeOK, OpenTmp, WriteTmp
  <2>2. CASE OpenTmp(w)
    <3>1. \A v \in Workers : at'[v] # "rename"
      BY <2>1, <2>2 DEF StoreInv, TypeOK, OpenTmp
    <3> QED BY <3>1 DEF TmpIsCurrent
  <2>3. CASE WriteTmp(w)
    <3>1. tmp' = Whole(conf_list') \/ (tmp' = Broken /\ lost_write')
      BY <2>3 DEF WriteTmp
    <3> QED BY <3>1 DEF TmpIsCurrent
  <2> QED BY <2>2, <2>3
<1> QED
  BY <1>1, <1>2, <1>4, <1>5
     DEF StoreInv, OnePending, PendingInMemory, FileIsWhole, AckedInForce, Latest, InForce

(* The steps that end an update without having put a new file in place.    *)
LEMMA EndStep ==
  ASSUME StoreInv, NEW outcome \in {"failed", "lost"}, mutex # NoWorker, Settle(outcome),
         mutex' = NoWorker, at' \in [Workers -> {"idle"}],
         up' \in BOOLEAN, up' => up,
         conf_list' \subseteq Path, up' => conf_list' = conf_list,
         UNCHANGED <<tmp, disk, lost_write>>
  PROVE  StoreInv'
<1>1. /\ updates' \in Seq(UpdateType) /\ Len(updates') = Len(updates)
      /\ \A k \in 1..Len(updates) :
           /\ updates'[k].conf = updates[k].conf
           /\ updates'[k].action = updates[k].action
           /\ updates'[k].outcome = IF k = Len(updates) THEN outcome ELSE updates[k].outcome
  BY SettleProperties DEF StoreInv, PendingInMemory, Outcomes
<1>2. TypeOK'
  BY <1>1, ConfigStoreAssumption DEF StoreInv, TypeOK
<1>3. OnePending'
  BY <1>1 DEF StoreInv, OnePending
<1>4. AckedInForce'
  <2> SUFFICES ASSUME NEW k \in 1..Len(updates'), updates'[k].outcome = "ok", Latest(k)'
               PROVE  /\ up' => InForce(updates'[k], conf_list')
                      /\ disk'.whole => InForce(updates'[k], disk'.list)
    BY DEF AckedInForce, InForce
  <2>1. k \in 1..Len(updates) /\ updates[k].outcome = "ok"
    BY <1>1
  <2>2. Len(updates) \in Nat
    BY LenProperties DEF StoreInv, TypeOK
  <2>3. Latest(k)
    BY <1>1, <2>1, <2>2 DEF Latest
  <2> QED BY <1>1, <2>1, <2>3 DEF StoreInv, AckedInForce, InForce
<1> QED
  BY <1>2, <1>3, <1>4
     DEF StoreInv, TmpIsCurrent, PendingInMemory, FileIsWhole

LEMMA RenameStep ==
  ASSUME StoreInv, NEW w \in Workers, RenameTmp(w)
  PROVE  StoreInv'
<1>1. mutex = w /\ mutex # NoWorker
  BY ConfigStoreAssumption DEF StoreInv, TypeOK, RenameTmp
<1>2. /\ updates' \in Seq(UpdateType) /\ Len(updates') = Len(updates)
      /\ \A k \in 1..Len(updates) :
           /\ updates'[k].conf = updates[k].conf
           /\ updates'[k].action = updates[k].action
           /\ updates'[k].outcome = IF k = Len(updates) THEN "ok" ELSE updates[k].outcome
  BY <1>1, SettleProperties DEF StoreInv, PendingInMemory, Outcomes, RenameTmp, Return
<1>3. tmp = Whole(conf_list) \/ (~tmp.whole /\ lost_write)
  BY DEF StoreInv, TmpIsCurrent, RenameTmp, Broken
<1>4. \A v \in Workers : at'[v] = "idle"
  BY <1>1 DEF StoreInv, TypeOK, RenameTmp, Return
<1>5. TypeOK'
  BY <1>2, <1>4, ConfigStoreAssumption
     DEF StoreInv, TypeOK, RenameTmp, Return, Broken, FileType
<1>6. FileIsWhole'
  BY <1>3 DEF FileIsWhole, RenameTmp, Whole
<1>7. OnePending'
  BY <1>1, <1>2 DEF StoreInv, OnePending, RenameTmp, Return
<1>8. AckedInForce'
  <2> SUFFICES ASSUME NEW k \in 1..Len(updates'), updates'[k].outcome = "ok", Latest(k)'
               PROVE  /\ up' => InForce(updates'[k], conf_list')
                      /\ disk'.whole => InForce(updates'[k], disk'.list)
    BY DEF AckedInForce, InForce
  <2>1. k \in 1..Len(updates) /\ Len(updates) \in Nat
    BY <1>2, LenProperties DEF StoreInv, TypeOK
  <2>2. Latest(k)
    BY <1>2, <2>1 DEF Latest
  <2>3. up /\ InForce(updates[k], conf_list)
    BY <1>1, <1>2, <2>1, <2>2 DEF StoreInv, PendingInMemory, AckedInForce
  <2>4. InForce(updates'[k], conf_list)
    BY <1>2, <2>1, <2>3 DEF InForce
  <2>5. disk'.whole => disk'.list = conf_list
    BY <1>3 DEF RenameTmp, Whole
  <2> QED BY <2>4, <2>5 DEF RenameTmp
<1> QED
  BY <1>4, <1>5, <1>6, <1>7, <1>8
     DEF StoreInv, TmpIsCurrent, PendingInMemory, RenameTmp, Return

LEMMA StartStep ==
  ASSUME StoreInv, Start
  PROVE  StoreInv'
<1>1. mutex = NoWorker /\ \A w \in Workers : at[w] = "idle"
  BY ConfigStoreAssumption DEF StoreInv, TypeOK, PendingInMemory, Start
<1>2. TypeOK'
  BY DEF StoreInv, TypeOK, Start, FileType
<1>3. AckedInForce'
  BY DEF StoreInv, AckedInForce, Latest, InForce, Start, Loads
<1> QED
  BY <1>1, <1>2, <1>3
     DEF StoreInv, TmpIsCurrent, OnePending, PendingInMemory, FileIsWhole, Start

LEMMA CrashStep ==
  ASSUME StoreInv, Crash
  PROVE  StoreInv'
<1>1. CASE mutex # NoWorker
  <2>1. at' \in [Workers -> {"idle"}]
    BY DEF Crash
  <2>2. "lost" \in {"failed", "lost"} /\ Settle("lost")
    BY <1>1 DEF Crash
  <2> QED BY <1>1, <2>1, <2>2, EndStep DEF Crash
<1>2. CASE mutex = NoWorker
  <2>1. TypeOK'
    BY <1>2, ConfigStoreAssumption DEF StoreInv, TypeOK, Crash
  <2> QED
    BY <1>2, <2>1
       DEF StoreInv, Crash, TmpIsCurrent, OnePending, PendingInMemory, FileIsWhole,
           AckedInForce, Latest, InForce
<1> QED BY <1>1, <1>2

LEMMA StoreStep == StoreInv /\ [Next]_vars => StoreInv'
<1> SUFFICES ASSUME StoreInv, [Next]_vars PROVE StoreInv'
  OBVIOUS
<1>1. CASE \E w \in Workers, action \in Actions, conf \in Confs : Update(w, action, conf)
  BY <1>1, UpdateStep
<1>2. CASE \E w \in Workers : OpenTmp(w) \/ WriteTmp(w)
  BY <1>2, TmpStep
<1>3. CASE \E w \in Workers : OpenFails(w) \/ RenameFails(w)
  <2>1. PICK w \in Workers : OpenFails(w) \/ RenameFails(w)
    BY <1>3
  <2>2. /\ mutex # NoWorker /\ Settle("failed") /\ mutex' = NoWorker
        /\ UNCHANGED <<up, conf_list, tmp, disk, lost_write>>
    BY <2>1, ConfigStoreAssumption DEF StoreInv, TypeOK, OpenFails, RenameFails, Return
  <2>3. at' \in [Workers -> {"idle"}]
    BY <2>1, ConfigStoreAssumption DEF StoreInv, TypeOK, OpenFails, RenameFails, Return
  <2>4. up' \in BOOLEAN /\ conf_list' \subseteq Path
    BY <2>2 DEF StoreInv, TypeOK
  <2>5. "failed" \in {"failed", "lost"}
    OBVIOUS
  <2> QED BY <2>2, <2>3, <2>4, <2>5, EndStep
<1>4. CASE \E w \in Workers : RenameTmp(w)
  BY <1>4, RenameStep
<1>5. CASE Crash
  BY <1>5, CrashStep
<1>6. CASE Start
  BY <1>6, StartStep
<1>7. CASE UNCHANGED vars
  BY <1>7
     DEF vars, StoreInv, TypeOK, TmpIsCurrent, OnePending, PendingInMemory, FileIsWhole,
         AckedInForce, Latest, InForce
<1> QED BY <1>1, <1>2, <1>3, <1>4, <1>5, <1>6, <1>7 DEF Next, Persist

LEMMA StoreInvAlways == Spec => []StoreInv
BY StoreInvInit, StoreStep, PTL DEF Spec

(* Every variable keeps its type, and a worker is inside update_config only *)
(* while it holds config_mutex.                                            *)
THEOREM StoreTypeCorrect == Spec => []TypeOK
<1>1. StoreInv => TypeOK
  BY DEF StoreInv
<1> QED BY <1>1, StoreInvAlways, PTL

(* Neither overlapping updates nor the end of the process inside           *)
(* update_config leave a configuration file that is cut short.             *)
THEOREM FileAlwaysWhole == Spec => []FileIsWhole
<1>1. StoreInv => FileIsWhole
  BY DEF StoreInv
<1> QED BY <1>1, StoreInvAlways, PTL

(* An update answered with 200 stays in force, across other updates,       *)
(* failures and restarts, until a request names its path again.            *)
THEOREM AckedUpdatesStayInForce == Spec => []AckedInForce
<1>1. StoreInv => AckedInForce
  BY DEF StoreInv
<1> QED BY <1>1, StoreInvAlways, PTL
-----------------------------------------------------------------------------
(* The refinement: what each step is for the clients.                      *)
LEMMA UpdateTakes ==
  ASSUME StoreInv, NEW w \in Workers, NEW action \in Actions, NEW conf \in Confs,
         Update(w, action, conf)
  PROVE  \E x \in Confs : Durable!Take(conf_list \cup {x}) \/ Durable!Take(conf_list \ {x})
<1> DEFINE u == [conf |-> conf, action |-> action, outcome |-> "pending"]
<1>1. updates \in Seq(UpdateType) /\ Len(updates) \in Nat /\ u \in UpdateType
  BY LenProperties DEF StoreInv, TypeOK, UpdateType, Outcomes
<1>2. updates' = Append(updates, u) /\ u.outcome = "pending"
  BY DEF Update
<1> HIDE DEF u
<1>3. /\ Len(updates') = Len(updates) + 1
      /\ \A k \in 1..Len(updates) : updates'[k] = updates[k]
      /\ updates'[Len(updates) + 1] = u
  BY <1>1, <1>2, AppendProperties
<1>4. Acked' = Acked
  BY <1>1, <1>2, <1>3 DEF Acked
<1>5. /\ up /\ UNCHANGED <<up, disk>>
      /\ conf_list' = conf_list \cup {conf} \/ conf_list' = conf_list \ {conf}
  BY DEF Update, Changed
<1> QED BY <1>3, <1>4, <1>5 DEF Durable!Take

(* Only the last update can be answered, and not twice. *)
LEMMA RenameAcknowledges ==
  ASSUME StoreInv, NEW w \in Workers, RenameTmp(w)
  PROVE  Durable!Acknowledge
<1>1. mutex = w /\ mutex # NoWorker
  BY ConfigStoreAssumption DEF StoreInv, TypeOK, RenameTmp
<1>2. up /\ Len(updates) > 0 /\ Len(updates) \in Nat /\ updates[Len(updates)].outcome = "pending"
  BY <1>1, LenProperties DEF StoreInv, TypeOK, PendingInMemory, OnePending
<1>3. /\ Len(updates') = Len(updates)
      /\ \A k \in 1..Len(updates) :
           updates'[k].outcome = IF k = Len(updates) THEN "ok" ELSE updates[k].outcome
  BY <1>2, SettleProperties DEF StoreInv, Outcomes, RenameTmp, Return
<1>4. Len(updates) \notin Acked
  BY <1>2 DEF Acked
<1>5. Acked' = Acked \cup {Len(updates)}
  BY <1>2, <1>3 DEF Acked
<1>6. disk' = Whole(conf_list) \/ disk' = Broken
  BY DEF StoreInv, TmpIsCurrent, RenameTmp
<1>7. UNCHANGED <<up, conf_list>>
  BY DEF RenameTmp
<1> QED BY <1>2, <1>3, <1>4, <1>5, <1>6, <1>7 DEF Durable!Acknowledge, Whole, Broken

(* A step that answers 500 or nothing leaves the acknowledged ones alone.  *)
LEMMA UnansweredKeepsAcked ==
  ASSUME StoreInv, NEW outcome \in {"failed", "lost"}, mutex # NoWorker, Settle(outcome)
  PROVE  Acked' = Acked /\ Len(updates') = Len(updates)
<1>1. Len(updates) > 0 /\ Len(updates) \in Nat /\ updates[Len(updates)].outcome = "pending"
  BY LenProperties DEF StoreInv, TypeOK, PendingInMemory, OnePending
<1>2. /\ Len(updates') = Len(updates)
      /\ \A k \in 1..Len(updates) :
           updates'[k].outcome = IF k = Len(updates) THEN outcome ELSE updates[k].outcome
  BY <1>1, SettleProperties DEF StoreInv, Outcomes
<1>3. Acked' = Acked
  BY <1>1, <1>2 DEF Acked
<1> QED BY <1>2, <1>3

(* Every step is a step of the durable list or leaves it as it is. *)
LEMMA DurableStep ==
  ASSUME StoreInv, [Next]_vars
  PROVE  [Durable!DurableNext]_(Durable!durableVars)
<1>1. CASE \E w \in Workers, action \in Actions, conf \in Confs : Update(w, action, conf)
  BY <1>1, UpdateTakes DEF Durable!DurableNext
<1>2. CASE \E w \in Workers : OpenTmp(w) \/ WriteTmp(w)
  BY <1>2 DEF OpenTmp, WriteTmp, Durable!durableVars, Acked
<1>3. CASE \E w \in Workers : OpenFails(w) \/ RenameFails(w)
  <2>1. /\ mutex # NoWorker /\ Settle("failed")
        /\ UNCHANGED <<up, conf_list, disk>>
    BY <1>3, ConfigStoreAssumption DEF StoreInv, TypeOK, OpenFails, RenameFails, Return
  <2>2. Acked' = Acked /\ Len(updates') = Len(updates)
    BY <2>1, UnansweredKeepsAcked
  <2> QED BY <2>1, <2>2 DEF Durable!durableVars
<1>4. CASE \E w \in Workers : RenameTmp(w)
  BY <1>4, RenameAcknowledges DEF Durable!DurableNext
<1>5. CASE Crash
  <2>1. Acked' = Acked /\ Len(updates') = Len(updates)
    <3>1. CASE mutex = NoWorker
      BY <1>5, <3>1 DEF Crash, Acked
    <3>2. CASE mutex # NoWorker
      BY <1>5, <3>2, UnansweredKeepsAcked DEF Crash
    <3> QED BY <3>1, <3>2
  <2>2. Durable!End
    BY <1>5, <2>1 DEF Crash, Durable!End
  <2> QED BY <2>2 DEF Durable!DurableNext
<1>6. CASE Start
  <2>1. Durable!Resume
    BY <1>6 DEF Start, Loads, Durable!Resume, Acked
  <2> QED BY <2>1 DEF Durable!DurableNext
<1>7. CASE UNCHANGED vars
  BY <1>7 DEF vars, Durable!durableVars, Acked
<1> QED BY <1>1, <1>2, <1>3, <1>4, <1>5, <1>6, <1>7 DEF Next, Persist

(* The store implements the durable list: whatever the workers, the        *)
(* failures and the crashes, clients see one list changed by one request   *)
(* at a time, acknowledged when stored (update_config, load_config).       *)
THEOREM StoreImplementsDurableList == Spec => KeepsDurableList
<1>1. Init => Durable!DurableInit
  <2> SUFFICES ASSUME Init PROVE Durable!DurableInit
    OBVIOUS
  <2>1. Len(updates) = 0 /\ Acked = {}
    BY EmptySeq DEF Init, Acked
  <2> QED BY <2>1 DEF Init, Whole, Durable!DurableInit
<1>2. StoreInv /\ [Next]_vars => [Durable!DurableNext]_(Durable!durableVars)
  BY DurableStep
<1> QED BY <1>1, <1>2, StoreInvAlways, PTL DEF Spec, KeepsDurableList, Durable!DurableSpec
=============================================================================
