-------------------------- MODULE ProcTraceProofs --------------------------
(***************************************************************************)
(* The process trace, for any ids, any size of exec_map and any number of  *)
(* processes: as long as no id is reused, a walk follows the lineage of    *)
(* the process it started from, and no ring can hold it.                   *)
(***************************************************************************)
EXTENDS ProcTrace, SequenceTheorems, FiniteSetTheorems, WellFoundedInduction, TLAPS

(* Any set of numbers that is not empty has a least one. *)
LEMMA LeastNatural ==
  ASSUME NEW S \in SUBSET Nat, S # {}
  PROVE  \E m \in S : \A k \in S : m <= k
<1>1. \E m \in S : \A k \in S : ~ <<k, m>> \in OpToRel(<, Nat)
  BY WFMin, NatLessThanWellFounded
<1>2. PICK m \in S : \A k \in S : ~ <<k, m>> \in OpToRel(<, Nat)
  BY <1>1
<1>3. \A k \in S : <<k, m>> \in Nat \X Nat /\ (k < m => <<k, m>> \in OpToRel(<, Nat))
  BY DEF OpToRel
<1>4. \A k \in S : ~(k < m)
  BY <1>2, <1>3
<1> QED BY <1>4

(* A sequence changed element by element keeps its length. *)
LEMMA SameShape ==
  ASSUME NEW S, NEW s \in Seq(S), NEW f \in [DOMAIN s -> S]
  PROVE  f \in Seq(S) /\ Len(f) = Len(s) /\ DOMAIN f = DOMAIN s
<1>1. Len(s) \in Nat /\ DOMAIN s = 1..Len(s)
  BY LenProperties
<1>2. f \in [1..Len(s) -> S]
  BY <1>1
<1>3. f \in Seq(S)
  BY <1>1, <1>2, SeqDef
<1>4. DOMAIN f = 1..Len(f) /\ Len(f) \in Nat
  BY <1>3, LenProperties
<1> QED BY <1>1, <1>2, <1>3, <1>4

(* What a process keeps: its ids are among those it has had, its parents   *)
(* are older, and the thread it is a child of is its parent's.             *)
Sound(b) ==
  /\ procs[b].tgid \in procs[b].had
  /\ procs[b].thread \in procs[b].had \cup {NoId}
  /\ b = 1 => /\ procs[1].tgid = Init1 /\ procs[1].alive
              /\ procs[1].parent = 0 /\ procs[1].parents = {0} /\ procs[1].via = NoId
  /\ b # 1 => /\ procs[b].parents \subseteq 1..(b - 1)
              /\ procs[b].parent \in procs[b].parents
              /\ procs[b].via \in procs[procs[b].parent].had

Family == 1 \in Births /\ \A b \in Births : Sound(b)

(* An id once given to one process only tells whose it was. *)
Unique ==
  ~reused => \A b, c \in Births : b # c => procs[b].had \cap procs[c].had = {}

(* Some process had this id and, at some time, a parent that has had that. *)
Link(id, above) ==
  \E b \in Births :
    /\ id \in procs[b].had
    /\ IF b = 1 THEN above = NoId
       ELSE \E c \in procs[b].parents : above \in procs[c].had

EntriesLink == \A id \in DOMAIN exec_map : Link(id, exec_map[id])
WalkLinks   == walk.last # NoId => Link(walk.last, walk.at)
MapFinite   == IsFiniteSet(DOMAIN exec_map)

Inv == TypeOK /\ Family /\ Unique /\ EntriesLink /\ WalkLinks /\ MapFinite

(* Ids and parents are only ever added to. *)
Grows ==
  /\ Births \subseteq Births'
  /\ \A b \in Births : /\ procs[b].had \subseteq procs'[b].had
                       /\ procs[b].parents \subseteq procs'[b].parents

(* What tells the processes apart: all that concerns procs. *)
ProcsOK == procs \in Seq(ProcessType) /\ Family /\ Unique

LEMMA BirthsInterval ==
  ASSUME procs \in Seq(ProcessType)
  PROVE  /\ Len(procs) \in Nat /\ Births = 1..Len(procs)
         /\ \A b \in Births : procs[b] \in ProcessType /\ b \in Nat \ {0}
BY LenProperties, ElementOfSeq DEF Births

LEMMA ConstantFacts ==
  Init1 \in Ids /\ NoId \notin Ids /\ Init1 # NoId /\ Ids \subseteq Nat /\ MapSize \in Nat
BY ProcTraceAssumption DEF Init1, NoId

LEMMA LinkGrows ==
  ASSUME Family, procs \in Seq(ProcessType), Grows, NEW id, NEW above, Link(id, above)
  PROVE  Link(id, above)'
<1>1. PICK b \in Births : /\ id \in procs[b].had
                          /\ IF b = 1 THEN above = NoId
                             ELSE \E c \in procs[b].parents : above \in procs[c].had
  BY DEF Link
<1>2. b \in Births' /\ id \in procs'[b].had
  BY <1>1 DEF Grows
<1>3. CASE b = 1
  BY <1>1, <1>2, <1>3 DEF Link
<1>4. CASE b # 1
  <2>1. PICK c \in procs[b].parents : above \in procs[c].had
    BY <1>1, <1>4
  <2>2. c \in Births
    <3>1. c \in 1..(b - 1)
      BY <1>4, <2>1 DEF Family, Sound
    <3> QED BY <3>1, BirthsInterval
  <2>3. c \in procs'[b].parents /\ above \in procs'[c].had
    BY <2>1, <2>2 DEF Grows
  <2> QED BY <1>2, <1>4, <2>3 DEF Link
<1> QED BY <1>3, <1>4
-----------------------------------------------------------------------------
(* The kernel's steps keep the processes apart and only add to them.       *)
LEMMA ForkKeeps ==
  ASSUME ProcsOK, NEW b \in Births, NEW t \in Ids, NEW id \in Ids, Fork(b, t, id)
  PROVE  ProcsOK' /\ Grows
<1> PICK n : n = Len(procs)
  OBVIOUS
<1> DEFINE new == Process(id, b, t)
<1>1. n \in Nat /\ Births = 1..n /\ b \in Nat /\ 1 <= b /\ b <= n
      /\ \A c \in Births : procs[c] \in ProcessType
  BY BirthsInterval DEF ProcsOK
<1>2. /\ new \in ProcessType
      /\ new.tgid = id /\ new.thread = NoId /\ new.had = {id}
      /\ new.parent = b /\ new.via = t /\ new.parents = {b}
  BY <1>1 DEF Process, ProcessType
<1>3. procs' = Append(procs, new)
  BY DEF Fork
<1> HIDE DEF new
<1>4. /\ procs' \in Seq(ProcessType) /\ Len(procs') = n + 1 /\ Births' = 1..(n + 1)
      /\ \A c \in Births : procs'[c] = procs[c]
      /\ procs'[n + 1] = new
  <2>1. procs' \in Seq(ProcessType) /\ Len(procs') = n + 1
        /\ \A c \in 1..n : procs'[c] = procs[c]
        /\ procs'[n + 1] = new
    BY <1>1, <1>2, <1>3, AppendProperties DEF ProcsOK
  <2>2. Births' = 1..(n + 1)
    BY <2>1, LenProperties DEF Births
  <2> QED BY <1>1, <2>1, <2>2
<1>5. Grows
  BY <1>1, <1>4 DEF Grows
<1>6. t \in procs[b].had
  BY DEF Fork, Threads, ProcsOK, Family, Sound
<1>7. Sound(n + 1)'
  <2>1. procs'[b] = procs[b] /\ procs'[n + 1] = new
    BY <1>4
  <2>2. n + 1 # 1 /\ {b} \subseteq 1..((n + 1) - 1)
    BY <1>1
  <2>3. new.parents \subseteq 1..((n + 1) - 1) /\ new.parent \in new.parents
        /\ new.via \in procs[new.parent].had /\ new.tgid \in new.had
        /\ new.thread \in new.had \cup {NoId} /\ procs'[new.parent] = procs[new.parent]
    BY <1>2, <1>6, <2>1, <2>2
  <2> QED BY ONLY <1>2, <2>1, <2>2, <2>3 DEF Sound
<1>8. \A c \in Births : Sound(c)'
  <2> SUFFICES ASSUME NEW c \in Births PROVE Sound(c)'
    OBVIOUS
  <2>1. procs'[c] = procs[c] /\ procs'[1] = procs[1] /\ Sound(c)
    BY <1>4 DEF ProcsOK, Family
  <2>2. c # 1 => procs'[procs[c].parent] = procs[procs[c].parent]
    <3>1. c # 1 => procs[c].parent \in 1..(c - 1)
      BY <2>1 DEF Sound
    <3>2. c # 1 => procs[c].parent \in Births
      BY <1>1, <3>1
    <3> QED BY <1>4, <3>2
  <2>3. CASE c = 1
    BY ONLY <2>1, <2>3 DEF Sound
  <2>4. CASE c # 1
    BY ONLY <2>1, <2>2, <2>4 DEF Sound
  <2> QED BY <2>3, <2>4
<1>9. Family'
  <2>1. Births' = Births \cup {n + 1} /\ 1 \in Births'
    BY <1>1, <1>4
  <2> QED BY <1>7, <1>8, <2>1 DEF Family
<1>10. Unique'
  <2> SUFFICES ASSUME ~reused', NEW c \in Births', NEW d \in Births', c # d
               PROVE  procs'[c].had \cap procs'[d].had = {}
    BY DEF Unique
  <2>1. ~reused /\ id \notin Given
    BY DEF Fork, Give
  <2>2. \A e \in Births : id \notin procs[e].had
    BY <2>1 DEF Given
  <2>3. Births' = Births \cup {n + 1}
    BY <1>1, <1>4
  <2>4. CASE c \in Births /\ d \in Births
    BY <1>4, <2>1, <2>4 DEF ProcsOK, Unique
  <2>5. CASE c = n + 1
    BY <1>2, <1>4, <2>2, <2>3, <2>5
  <2>6. CASE d = n + 1
    BY <1>2, <1>4, <2>2, <2>3, <2>6
  <2> QED BY <2>3, <2>4, <2>5, <2>6
<1> QED BY <1>4, <1>5, <1>9, <1>10 DEF ProcsOK

(* Of the steps that only change processes it is enough to know what they  *)
(* leave of each.                                                          *)
LEMMA ChangeKeeps ==
  ASSUME ProcsOK, procs' = [c \in Births |-> procs'[c]],
         \A c \in Births :
           /\ procs'[c] \in ProcessType
           /\ procs[c].had \subseteq procs'[c].had
           /\ procs[c].parents \subseteq procs'[c].parents
           /\ Sound(c)',
         ~reused' => /\ ~reused
                     /\ \A c, d \in Births : c # d => procs'[c].had \cap procs'[d].had = {}
  PROVE  ProcsOK' /\ Grows
<1>1. procs' \in Seq(ProcessType) /\ Births' = Births
  <2>1. procs' \in [DOMAIN procs -> ProcessType]
    BY DEF Births
  <2> QED BY <2>1, SameShape DEF ProcsOK, Births
<1>2. Family'
  BY <1>1 DEF ProcsOK, Family
<1>3. Unique'
  BY <1>1 DEF Unique
<1>4. Grows
  BY <1>1 DEF Grows
<1> QED BY <1>1, <1>2, <1>3, <1>4 DEF ProcsOK

LEMMA CloneKeeps ==
  ASSUME ProcsOK, NEW b \in Births, NEW id \in Ids, Clone(b, id)
  PROVE  ProcsOK' /\ Grows
<1>1. \A c \in Births : procs[c] \in ProcessType
  BY BirthsInterval DEF ProcsOK
<1>2. procs' = [c \in Births |->
                  IF c = b THEN [procs[b] EXCEPT !.thread = id, !.had = procs[b].had \cup {id}]
                  ELSE procs[c]]
  BY DEF Clone, Births
<1>3. /\ procs'[b] \in ProcessType
      /\ procs'[b].thread = id /\ procs'[b].had = procs[b].had \cup {id}
      /\ procs'[b].tgid = procs[b].tgid /\ procs'[b].alive = procs[b].alive
      /\ procs'[b].parent = procs[b].parent /\ procs'[b].via = procs[b].via
      /\ procs'[b].parents = procs[b].parents
  BY <1>1, <1>2 DEF ProcessType
<1>4. \A c \in Births : c # b => procs'[c] = procs[c]
  BY <1>2
<1>5. \A c \in Births : Sound(c)'
  <2> SUFFICES ASSUME NEW c \in Births PROVE Sound(c)'
    OBVIOUS
  <2>1. Sound(c)
    BY DEF ProcsOK, Family
  <2>2. c # 1 => procs[c].parent \in Births
    <3>1. c # 1 => procs[c].parent \in 1..(c - 1)
      BY <2>1 DEF Sound
    <3> QED BY <3>1, BirthsInterval DEF ProcsOK
  <2>3. c # 1 => procs[procs[c].parent].had \subseteq procs'[procs[c].parent].had
    BY <1>3, <1>4, <2>2
  <2>4. CASE c = b
    BY <1>3, <2>1, <2>3, <2>4 DEF Sound
  <2>5. CASE c # b
    BY <1>4, <2>1, <2>3, <2>5 DEF Sound
  <2> QED BY <2>4, <2>5
<1>6. ASSUME ~reused'
      PROVE  ~reused /\ \A c, d \in Births : c # d => procs'[c].had \cap procs'[d].had = {}
  <2>1. ~reused /\ id \notin Given
    BY <1>6 DEF Clone, Give
  <2>2. \A c \in Births : id \notin procs[c].had
    BY <2>1 DEF Given
  <2>3. \A c, d \in Births : c # d => procs[c].had \cap procs[d].had = {}
    BY <2>1 DEF ProcsOK, Unique
  <2> QED BY <1>3, <1>4, <2>1, <2>2, <2>3
<1> QED BY <1>1, <1>2, <1>3, <1>4, <1>5, <1>6, ChangeKeeps

LEMMA EndThreadKeeps ==
  ASSUME ProcsOK, NEW b \in Births, EndThread(b)
  PROVE  ProcsOK' /\ Grows
<1>1. \A c \in Births : procs[c] \in ProcessType
  BY BirthsInterval DEF ProcsOK
<1>2. procs' = [c \in Births |->
       IF c = b THEN [procs[c] EXCEPT !.thread = NoId]
       ELSE IF procs[c].parent = b THEN [procs[c] EXCEPT !.via = procs[b].tgid]
       ELSE procs[c]]
  BY DEF EndThread
<1>3. \A c \in Births :
        /\ procs'[c] \in ProcessType
        /\ procs'[c].had = procs[c].had /\ procs'[c].parents = procs[c].parents
        /\ procs'[c].tgid = procs[c].tgid /\ procs'[c].alive = procs[c].alive
        /\ procs'[c].parent = procs[c].parent
        /\ procs'[c].thread \in {procs[c].thread, NoId}
        /\ \/ procs'[c].via = procs[c].via
           \/ procs[c].parent = b /\ procs'[c].via = procs[b].tgid
  BY <1>1, <1>2 DEF ProcessType
<1>4. \A c \in Births : Sound(c)'
  <2> SUFFICES ASSUME NEW c \in Births PROVE Sound(c)'
    OBVIOUS
  <2>1. Sound(c) /\ Sound(b)
    BY DEF ProcsOK, Family
  <2>2. b # 0 /\ (c # 1 => procs[c].parent \in Births)
    <3>1. c # 1 => procs[c].parent \in 1..(c - 1)
      BY <2>1 DEF Sound
    <3> QED BY <3>1, BirthsInterval DEF ProcsOK
  <2>3. c # 1 => procs'[procs[c].parent].had = procs[procs[c].parent].had
    BY <1>3, <2>2
  <2>4. procs[b].tgid \in procs[b].had
    BY <2>1 DEF Sound
  <2>5. CASE c = 1
    BY <1>3, <2>1, <2>2, <2>5 DEF Sound
  <2>6. CASE c # 1
    BY <1>3, <2>1, <2>3, <2>4, <2>6 DEF Sound
  <2> QED BY <2>5, <2>6
<1>5. ASSUME ~reused'
      PROVE  ~reused /\ \A c, d \in Births : c # d => procs'[c].had \cap procs'[d].had = {}
  <2>1. ~reused
    BY <1>5 DEF EndThread
  <2>2. \A c, d \in Births : c # d => procs[c].had \cap procs[d].had = {}
    BY <2>1 DEF ProcsOK, Unique
  <2>3. \A c \in Births : procs'[c].had = procs[c].had
    BY <1>3
  <2> QED BY ONLY <2>1, <2>2, <2>3
<1> QED BY <1>2, <1>3, <1>4, <1>5, ChangeKeeps

LEMMA EndProcessKeeps ==
  ASSUME ProcsOK, NEW b \in Births, EndProcess(b)
  PROVE  ProcsOK' /\ Grows
<1>1. \A c \in Births : procs[c] \in ProcessType
  BY BirthsInterval DEF ProcsOK
<1>2. procs' = [c \in Births |->
       IF c = b THEN [procs[c] EXCEPT !.alive = FALSE, !.thread = NoId]
       ELSE IF procs[c].parent = b
         THEN [procs[c] EXCEPT !.parent = 1, !.via = Init1,
                               !.parents = procs[c].parents \cup {1}]
       ELSE procs[c]]
  BY DEF EndProcess
<1>3. \A c \in Births :
        /\ procs'[c] \in ProcessType
        /\ procs'[c].had = procs[c].had /\ procs'[c].tgid = procs[c].tgid
        /\ procs'[c].thread \in {procs[c].thread, NoId}
        /\ c # b => procs'[c].alive = procs[c].alive
        /\ \/ /\ procs'[c].parent = procs[c].parent /\ procs'[c].via = procs[c].via
              /\ procs'[c].parents = procs[c].parents
           \/ /\ procs[c].parent = b /\ procs'[c].parent = 1 /\ procs'[c].via = Init1
              /\ procs'[c].parents = procs[c].parents \cup {1}
  <2> SUFFICES ASSUME NEW c \in Births
               PROVE  /\ procs'[c] \in ProcessType
                      /\ procs'[c].had = procs[c].had /\ procs'[c].tgid = procs[c].tgid
                      /\ procs'[c].thread \in {procs[c].thread, NoId}
                      /\ c # b => procs'[c].alive = procs[c].alive
                      /\ \/ /\ procs'[c].parent = procs[c].parent
                            /\ procs'[c].via = procs[c].via
                            /\ procs'[c].parents = procs[c].parents
                         \/ /\ procs[c].parent = b
                            /\ procs'[c].parent = 1 /\ procs'[c].via = Init1
                            /\ procs'[c].parents = procs[c].parents \cup {1}
    OBVIOUS
  <2>1. procs[c] \in ProcessType
    BY <1>1
  <2>2. CASE c = b
    <3>1. procs'[c] = [procs[c] EXCEPT !.alive = FALSE, !.thread = NoId]
      BY <1>2, <2>2
    <3> QED BY ONLY <2>1, <2>2, <3>1 DEF ProcessType
  <2>3. CASE c # b /\ procs[c].parent = b
    <3>1. procs'[c] = [procs[c] EXCEPT !.parent = 1, !.via = Init1,
                                       !.parents = procs[c].parents \cup {1}]
      BY <1>2, <2>3
    <3>2. procs[c].parents \cup {1} \in SUBSET Nat /\ Init1 \in Ids \cup {NoId}
      BY <2>1, ConstantFacts DEF ProcessType
    <3>3. procs'[c] \in ProcessType
      BY ONLY <2>1, <3>1, <3>2 DEF ProcessType
    <3>4. /\ procs'[c].had = procs[c].had /\ procs'[c].tgid = procs[c].tgid
          /\ procs'[c].thread = procs[c].thread /\ procs'[c].alive = procs[c].alive
          /\ procs'[c].parent = 1 /\ procs'[c].via = Init1
          /\ procs'[c].parents = procs[c].parents \cup {1}
      BY ONLY <2>1, <3>1 DEF ProcessType
    <3> QED BY <2>3, <3>3, <3>4
  <2>4. CASE c # b /\ procs[c].parent # b
    BY <1>2, <2>1, <2>4
  <2> QED BY <2>2, <2>3, <2>4
<1>4. b # 1 /\ b # 0 /\ 1 \in Births /\ Init1 \in procs[1].had
  BY BirthsInterval DEF EndProcess, ProcsOK, Family, Sound
<1>5. \A c \in Births : Sound(c)'
  <2> SUFFICES ASSUME NEW c \in Births PROVE Sound(c)'
    OBVIOUS
  <2>1. Sound(c) /\ c \in Nat \ {0} /\ b \in Nat
    BY BirthsInterval DEF ProcsOK, Family
  <2>2. c # 1 => procs[c].parent \in 1..(c - 1) /\ procs[c].parent \in Births
    <3>1. c # 1 => procs[c].parent \in 1..(c - 1)
      BY <2>1 DEF Sound
    <3> QED BY <3>1, BirthsInterval DEF ProcsOK
  <2>3. c # 1 => procs'[procs[c].parent].had = procs[procs[c].parent].had
    BY <1>3, <2>2
  <2>4. procs'[1].had = procs[1].had
    BY <1>3, <1>4
  <2>5. CASE c = 1
    BY <1>3, <1>4, <2>1, <2>5 DEF Sound
  <2>6. CASE c # 1
    <3>1. 1 \in 1..(c - 1)
      BY <2>1, <2>6
    <3> QED BY <1>3, <1>4, <2>1, <2>3, <2>4, <2>6, <3>1 DEF Sound
  <2> QED BY <2>5, <2>6
<1>6. ASSUME ~reused'
      PROVE  ~reused /\ \A c, d \in Births : c # d => procs'[c].had \cap procs'[d].had = {}
  <2>1. ~reused
    BY <1>6 DEF EndProcess
  <2>2. \A c, d \in Births : c # d => procs[c].had \cap procs[d].had = {}
    BY <2>1 DEF ProcsOK, Unique
  <2>3. \A c \in Births : procs'[c].had = procs[c].had
    BY <1>3
  <2> QED BY ONLY <2>1, <2>2, <2>3
<1>7. \A c \in Births : procs[c].parents \subseteq procs'[c].parents
  BY <1>3
<1> QED BY <1>2, <1>3, <1>5, <1>6, <1>7, ChangeKeeps
-----------------------------------------------------------------------------
LEMMA InvInit == Init => Inv
<1> SUFFICES ASSUME Init PROVE Inv
  OBVIOUS
<1> DEFINE first == Process(Init1, 0, NoId)
<1>1. /\ first \in ProcessType
      /\ first.tgid = Init1 /\ first.thread = NoId /\ first.had = {Init1} /\ first.alive
      /\ first.parent = 0 /\ first.via = NoId /\ first.parents = {0}
  BY ConstantFacts DEF Process, ProcessType
<1>2. procs = <<first>>
  BY DEF Init
<1> HIDE DEF first
<1>3. procs \in Seq(ProcessType) /\ Births = {1} /\ procs[1] = first
  BY <1>1, <1>2 DEF Births
<1>4. exec_map = << >> /\ DOMAIN exec_map = {} /\ IsFiniteSet(DOMAIN exec_map)
      /\ Cardinality(DOMAIN exec_map) = 0
      /\ exec_map \in [DOMAIN exec_map -> Ids \cup {NoId}]
  <2>1. exec_map = << >> /\ DOMAIN exec_map = {}
        /\ exec_map \in [DOMAIN exec_map -> Ids \cup {NoId}]
    BY DEF Init
  <2> QED BY <2>1, FS_EmptySet
<1>5. walk \in WalkType /\ walk.state = "idle" /\ walk.last = NoId /\ reused = FALSE
  BY DEF Init, Idle, WalkType
<1>6. TypeOK
  <2>1. DOMAIN exec_map \subseteq Ids /\ Cardinality(DOMAIN exec_map) <= MapSize
    BY <1>4, ConstantFacts
  <2> QED BY <1>3, <1>4, <1>5, <2>1 DEF TypeOK
<1>7. Family
  <2>1. Sound(1)
    BY <1>1, <1>3 DEF Sound
  <2> QED BY <1>3, <2>1 DEF Family
<1>8. Unique
  BY <1>3 DEF Unique
<1> QED BY <1>4, <1>5, <1>6, <1>7, <1>8 DEF Inv, EntriesLink, WalkLinks, MapFinite

LEMMA KernelKeeps ==
  ASSUME Inv, ProcsOK', Grows, UNCHANGED <<exec_map, walk>>, reused' \in BOOLEAN
  PROVE  Inv'
<1>1. TypeOK'
  BY DEF Inv, TypeOK, ProcsOK, Grows
<1>2. EntriesLink'
  <2> SUFFICES ASSUME NEW id \in DOMAIN exec_map PROVE Link(id, exec_map[id])'
    BY DEF EntriesLink
  <2>1. Link(id, exec_map[id])
    BY DEF Inv, EntriesLink
  <2> PICK above : above = exec_map[id]
    OBVIOUS
  <2>2. Link(id, above)'
    BY <2>1, LinkGrows DEF Inv, TypeOK
  <2> QED BY <2>2
<1>3. WalkLinks'
  <2> SUFFICES ASSUME walk.last # NoId PROVE Link(walk.last, walk.at)'
    BY DEF WalkLinks
  <2> PICK id, above : id = walk.last /\ above = walk.at
    OBVIOUS
  <2>1. Link(id, above)
    BY DEF Inv, WalkLinks
  <2>2. Link(id, above)'
    BY <2>1, LinkGrows DEF Inv, TypeOK
  <2> QED BY <2>2
<1> QED BY <1>1, <1>2, <1>3 DEF Inv, ProcsOK, MapFinite

(* Where the processes are as they were, links are too. *)
LEMMA LinkStays ==
  ASSUME UNCHANGED procs, NEW id, NEW above
  PROVE  Link(id, above)' <=> Link(id, above)
BY DEF Link, Births

LEMMA ExecKeeps ==
  ASSUME Inv, NEW b \in Births, Exec(b)
  PROVE  Inv'
<1> PICK id, above : id = procs[b].tgid /\ above = Noted(b)
  OBVIOUS
<1>1. procs[b] \in ProcessType /\ Sound(b) /\ b \in Nat \ {0}
  BY BirthsInterval DEF Inv, TypeOK, Family
<1>2. id \in Ids /\ id \in procs[b].had /\ above \in Ids \cup {NoId} /\ above = procs[b].via
  BY <1>1 DEF Noted, ProcessType, Sound
<1>3. Link(id, above)
  <2>1. CASE b = 1
    BY <1>1, <1>2, <2>1 DEF Link, Sound
  <2>2. CASE b # 1
    BY <1>1, <1>2, <2>2 DEF Link, Sound
  <2> QED BY <2>1, <2>2
<1>4. UNCHANGED <<procs, walk, reused>>
  BY DEF Exec
<1>5. CASE exec_map' = exec_map
  BY <1>4, <1>5
     DEF Inv, TypeOK, Family, Sound, Unique, EntriesLink, WalkLinks, MapFinite, Link, Births
<1>6. CASE /\ id \in DOMAIN exec_map \/ Cardinality(DOMAIN exec_map) < MapSize
           /\ exec_map' = Entered(id, above)
  <2>1. /\ DOMAIN exec_map' = DOMAIN exec_map \cup {id}
        /\ exec_map' = [i \in DOMAIN exec_map \cup {id} |->
                          IF i = id THEN above ELSE exec_map[i]]
        /\ \A i \in DOMAIN exec_map' : exec_map'[i] = IF i = id THEN above ELSE exec_map[i]
    BY <1>6 DEF Entered
  <2>2. exec_map' \in [DOMAIN exec_map' -> Ids \cup {NoId}]
    BY <1>2, <2>1 DEF Inv, TypeOK
  <2>3. /\ IsFiniteSet(DOMAIN exec_map')
        /\ Cardinality(DOMAIN exec_map') <= MapSize
    <3>1. /\ IsFiniteSet(DOMAIN exec_map \cup {id})
          /\ Cardinality(DOMAIN exec_map \cup {id}) =
               IF id \in DOMAIN exec_map THEN Cardinality(DOMAIN exec_map)
               ELSE Cardinality(DOMAIN exec_map) + 1
          /\ Cardinality(DOMAIN exec_map) \in Nat
      BY FS_AddElement, FS_CardinalityType DEF Inv, MapFinite
    <3>2. Cardinality(DOMAIN exec_map) <= MapSize
      BY DEF Inv, TypeOK
    <3> QED BY <1>6, <2>1, <3>1, <3>2, ConstantFacts
  <2>4. TypeOK'
    BY <1>2, <1>4, <2>1, <2>2, <2>3 DEF Inv, TypeOK, Births
  <2>5. EntriesLink'
    <3> SUFFICES ASSUME NEW i \in DOMAIN exec_map' PROVE Link(i, exec_map[i])'
      BY DEF EntriesLink
    <3> PICK a : a = exec_map'[i]
      OBVIOUS
    <3>1. Link(i, a)
      BY <1>3, <2>1 DEF Inv, EntriesLink
    <3>2. Link(i, a)'
      BY <1>4, <3>1, LinkStays
    <3> QED BY <3>2 DEF Link
  <2>6. Family' /\ Unique' /\ WalkLinks'
    BY <1>4 DEF Inv, Family, Sound, Unique, WalkLinks, Link, Births
  <2> QED BY <2>3, <2>4, <2>5, <2>6 DEF Inv, MapFinite
<1> QED BY <1>5, <1>6 DEF Exec, UpdateMap

(* What the walk's steps share: only its own place changes. *)
LEMMA PlaceKeeps ==
  ASSUME Inv, UNCHANGED <<procs, exec_map, reused>>,
         walk' \in WalkType, walk'.state = "open" => walk'.of \in Births,
         walk'.last # NoId => Link(walk'.last, walk'.at)
  PROVE  Inv'
<1>1. TypeOK'
  BY DEF Inv, TypeOK, Births, WalkType
<1>2. Family' /\ Unique' /\ EntriesLink' /\ MapFinite'
  BY DEF Inv, Family, Sound, Unique, EntriesLink, MapFinite, Link, Births
<1>3. WalkLinks'
  BY DEF WalkLinks, Link, Births
<1> QED BY <1>1, <1>2, <1>3 DEF Inv

(* /proc names the process of the thread's parent. *)
LEMMA ParentLinks ==
  ASSUME Inv, NEW b \in Births, NEW id \in Threads(b)
  PROVE  /\ id \in Ids /\ id \in procs[b].had
         /\ ParentOf(b) \in Ids \cup {NoId} /\ Link(id, ParentOf(b))
<1>1. procs[b] \in ProcessType /\ Sound(b) /\ b \in Nat \ {0}
  BY BirthsInterval DEF Inv, TypeOK, Family
<1>2. id \in Ids /\ id \in procs[b].had
  BY <1>1 DEF Threads, Sound, ProcessType
<1>3. CASE b = 1
  BY <1>2, <1>3 DEF ParentOf, Link
<1>4. CASE b # 1
  <2>1. procs[b].parent \in procs[b].parents /\ procs[b].parent \in 1..(b - 1)
    BY <1>1, <1>4 DEF Sound
  <2>2. procs[b].parent \in Births
    BY <1>1, <2>1, BirthsInterval DEF Inv, TypeOK
  <2>3. procs[procs[b].parent].tgid \in procs[procs[b].parent].had
        /\ procs[procs[b].parent].tgid \in Ids
    BY <2>2, BirthsInterval DEF Inv, TypeOK, Family, Sound, ProcessType
  <2> QED BY <1>2, <1>4, <2>1, <2>3 DEF ParentOf, Link
<1> QED BY <1>2, <1>3, <1>4

LEMMA WalkKeeps ==
  ASSUME Inv, WalkStep \/ \E b \in Births : StartWalk(b)
  PROVE  Inv'
<1>1. CASE FromMap
  <2>1. walk' = [state |-> "next", at |-> exec_map[walk.at], of |-> 0, last |-> walk.at]
    BY <1>1 DEF FromMap, List
  <2>2. walk.at \in Ids /\ exec_map[walk.at] \in Ids \cup {NoId}
        /\ Link(walk.at, exec_map[walk.at])
    BY <1>1 DEF FromMap, Inv, TypeOK, EntriesLink
  <2>3. walk' \in WalkType /\ walk'.state = "next"
        /\ walk'.last = walk.at /\ walk'.at = exec_map[walk.at]
    BY <2>1, <2>2 DEF WalkType
  <2> QED BY <1>1, <2>2, <2>3, PlaceKeeps DEF FromMap
<1>2. CASE OpenStat
  <2>1. CASE walk.at \in Taken
    <3>1. PICK b \in Births : walk.at \in Threads(b)
      BY <2>1 DEF Taken
    <3>2. PICK c : c = CHOOSE d \in Births : walk.at \in Threads(d)
      OBVIOUS
    <3>3. c \in Births /\ c \in Nat
      BY <3>1, <3>2, BirthsInterval DEF Inv, TypeOK
    <3>4. walk' = [walk EXCEPT !.state = "open", !.of = c]
      BY <1>2, <2>1, <3>2 DEF OpenStat
    <3>5. UNCHANGED <<procs, exec_map, reused>>
      BY <1>2 DEF OpenStat
    <3>6. walk' \in WalkType /\ walk'.of = c /\ walk'.last = walk.last /\ walk'.at = walk.at
      BY <3>3, <3>4 DEF Inv, TypeOK, WalkType
    <3> QED BY <3>3, <3>5, <3>6, PlaceKeeps DEF Inv, WalkLinks
  <2>2. CASE walk.at \notin Taken
    BY <1>2, <2>2, PlaceKeeps, ConstantFacts DEF OpenStat, Idle, WalkType
  <2> QED BY <2>1, <2>2
<1>3. CASE ReadStat
  <2>1. CASE walk.at \in Threads(walk.of)
    <3>1. walk.of \in Births
      BY <1>3 DEF ReadStat, Inv, TypeOK
    <3>2. walk' = [state |-> "next", at |-> ParentOf(walk.of), of |-> 0, last |-> walk.at]
      BY <1>3, <2>1 DEF ReadStat, List
    <3>3. walk.at \in Ids /\ ParentOf(walk.of) \in Ids \cup {NoId}
          /\ Link(walk.at, ParentOf(walk.of))
      BY <2>1, <3>1, ParentLinks
    <3>4. walk' \in WalkType /\ walk'.state = "next"
          /\ walk'.last = walk.at /\ walk'.at = ParentOf(walk.of)
      BY <3>2, <3>3 DEF WalkType
    <3> QED BY <1>3, <3>3, <3>4, PlaceKeeps DEF ReadStat
  <2>2. CASE walk.at \notin Threads(walk.of)
    BY <1>3, <2>2, PlaceKeeps, ConstantFacts DEF ReadStat, Idle, WalkType
  <2> QED BY <2>1, <2>2
<1>4. CASE EndWalk
  BY <1>4, PlaceKeeps, ConstantFacts DEF EndWalk, Idle, WalkType
<1>5. CASE \E b \in Births : StartWalk(b)
  <2>1. PICK b \in Births : StartWalk(b)
    BY <1>5
  <2>2. procs[b].tgid \in Ids
    BY BirthsInterval DEF Inv, TypeOK, ProcessType
  <2> QED BY <2>1, <2>2, PlaceKeeps, ConstantFacts DEF StartWalk, WalkType
<1> QED BY <1>1, <1>2, <1>3, <1>4, <1>5 DEF WalkStep

LEMMA InvAlways == Spec => []Inv
<1>1. ASSUME Inv, [Next]_vars
      PROVE  Inv'
  <2>1. CASE KernelStep
    <3>1. PICK b \in Births :
            \/ \E id \in Ids : Clone(b, id) \/ \E t \in Ids : Fork(b, t, id)
            \/ EndThread(b) \/ EndProcess(b) \/ Exec(b)
      BY <2>1 DEF KernelStep
    <3>2. ProcsOK
      BY <1>1 DEF Inv, TypeOK, ProcsOK
    <3>3. CASE \E id \in Ids : Clone(b, id) \/ \E t \in Ids : Fork(b, t, id)
      <4>1. PICK id \in Ids : Clone(b, id) \/ \E t \in Ids : Fork(b, t, id)
        BY <3>3
      <4>2. UNCHANGED <<exec_map, walk>> /\ reused' \in BOOLEAN
        BY <1>1, <4>1 DEF Clone, Fork, Give, Inv, TypeOK
      <4>3. ProcsOK' /\ Grows
        BY <3>2, <4>1, CloneKeeps, ForkKeeps
      <4> QED BY <1>1, <4>2, <4>3, KernelKeeps
    <3>4. CASE EndThread(b) \/ EndProcess(b)
      <4>1. UNCHANGED <<exec_map, walk>> /\ reused' \in BOOLEAN
        BY <1>1, <3>4 DEF EndThread, EndProcess, Inv, TypeOK
      <4>2. ProcsOK' /\ Grows
        BY <3>2, <3>4, EndThreadKeeps, EndProcessKeeps
      <4> QED BY <1>1, <4>1, <4>2, KernelKeeps
    <3>5. CASE Exec(b)
      BY <1>1, <3>5, ExecKeeps
    <3> QED BY <3>1, <3>3, <3>4, <3>5
  <2>2. CASE WalkStep \/ \E b \in Births : StartWalk(b)
    BY <1>1, <2>2, WalkKeeps
  <2>3. CASE UNCHANGED vars
    BY <1>1, <2>3
       DEF vars, Inv, TypeOK, Family, Sound, Unique, EntriesLink, WalkLinks, MapFinite, Link,
           Births
  <2> QED BY <1>1, <2>1, <2>2, <2>3 DEF Next
<1> QED BY <1>1, InvInit, PTL DEF Spec

(* Type correctness, with the bound on exec_map, which nothing but the     *)
(* test in the update keeps (enter_execve, sched_process_exec).            *)
THEOREM ProcTraceTypeCorrect == Spec => []TypeOK
<1>1. Inv => TypeOK
  BY DEF Inv
<1> QED BY <1>1, InvAlways, PTL

(* An id that was given once has one owner. *)
LEMMA OwnerIsUnique ==
  ASSUME Inv, ~reused, NEW b \in Births, NEW id \in procs[b].had
  PROVE  Owner(id) = b
BY DEF Inv, Unique, Owner

(* A link from an id leads to an owner that is older, or to no id.         *)
LEMMA LinkLeadsUp ==
  ASSUME Inv, ~reused, NEW id, NEW above \in Ids \cup {NoId}, Link(id, above)
  PROVE  /\ Owner(id) \in Births
         /\ above = NoId => procs[Owner(id)].parents = {0}
         /\ above # NoId => /\ Owner(above) \in procs[Owner(id)].parents
                            /\ Owner(above) \in Births /\ Owner(above) < Owner(id)
<1>1. PICK b \in Births : /\ id \in procs[b].had
                          /\ IF b = 1 THEN above = NoId
                             ELSE \E c \in procs[b].parents : above \in procs[c].had
  BY DEF Link
<1>2. Owner(id) = b /\ Sound(b) /\ b \in Nat \ {0}
  BY <1>1, OwnerIsUnique, BirthsInterval DEF Inv, TypeOK, Family
<1>3. CASE b = 1
  BY <1>1, <1>2, <1>3 DEF Sound
<1>4. CASE b # 1
  <2>1. PICK c \in procs[b].parents : above \in procs[c].had
    BY <1>1, <1>4
  <2>2. c \in 1..(b - 1)
    BY <1>2, <1>4, <2>1 DEF Sound
  <2>3. c \in Births /\ c < b
    BY <1>2, <2>2, BirthsInterval DEF Inv, TypeOK
  <2>4. Owner(above) = c
    BY <2>1, <2>3, OwnerIsUnique
  <2>5. above # NoId
    <3>1. procs[c].had \subseteq Ids
      BY <2>3, BirthsInterval DEF Inv, TypeOK, ProcessType
    <3> QED BY <2>1, <3>1, ConstantFacts
  <2> QED BY <1>2, <2>1, <2>3, <2>4, <2>5
<1> QED BY <1>3, <1>4

(* While no id is reused a trace follows the lineage (generate_proc_trace). *)
THEOREM TraceAlwaysLineage == Spec => []TraceIsLineage
<1>1. Inv => TraceIsLineage
  <2> SUFFICES ASSUME Inv, ~reused, walk.last # NoId
               PROVE  IF walk.at = NoId THEN procs[Owner(walk.last)].parents = {0}
                      ELSE Owner(walk.at) \in procs[Owner(walk.last)].parents
    BY DEF TraceIsLineage
  <2>1. Link(walk.last, walk.at) /\ walk.at \in Ids \cup {NoId}
    BY DEF Inv, WalkLinks, TypeOK, WalkType
  <2> QED BY <2>1, LinkLeadsUp
<1> QED BY <1>1, InvAlways, PTL

(* Where a walk can go from an id there is a link. *)
LEMMA AboveLinks ==
  ASSUME Inv, NEW id \in Ids
  PROVE  Above(id) \in Ids \cup {NoId} /\ (Above(id) # NoId => Link(id, Above(id)))
<1>1. CASE id \in DOMAIN exec_map
  BY <1>1 DEF Above, Inv, TypeOK, EntriesLink
<1>2. CASE id \notin DOMAIN exec_map /\ id \in Taken
  <2>1. PICK c : c = CHOOSE b \in Births : id \in Threads(b)
    OBVIOUS
  <2>2. c \in Births /\ id \in Threads(c)
    BY <1>2, <2>1 DEF Taken
  <2>3. Above(id) = ParentOf(c)
    BY <1>2, <2>1 DEF Above
  <2>4. ParentOf(c) \in Ids \cup {NoId} /\ Link(id, ParentOf(c))
    BY <2>2, ParentLinks
  <2> QED BY <2>3, <2>4
<1>3. CASE id \notin DOMAIN exec_map /\ id \notin Taken
  BY <1>3 DEF Above
<1> QED BY <1>1, <1>2, <1>3

(* Without reuse no ring holds a walk: of the ids in a ring one would      *)
(* belong to the oldest process, and lead to one that is older still.      *)
THEOREM RingsAlwaysNeedReuse == Spec => []RingsNeedReuse
<1>1. Inv => RingsNeedReuse
  <2> SUFFICES ASSUME Inv, ~reused, NEW id \in Ids, NEW C \in SUBSET Ids, id \in C,
                      \A i \in C : Above(i) \in C
               PROVE  FALSE
    BY DEF RingsNeedReuse, Trapped
  <2> DEFINE S == {Owner(i) : i \in C}
  <2>1. \A i \in C : /\ Owner(i) \in Births /\ Owner(Above(i)) < Owner(i)
                     /\ Owner(Above(i)) \in S
    <3> SUFFICES ASSUME NEW i \in C
                 PROVE  /\ Owner(i) \in Births /\ Owner(Above(i)) < Owner(i)
                        /\ Owner(Above(i)) \in S
      OBVIOUS
    <3>1. i \in Ids /\ Above(i) \in C /\ Above(i) \in Ids /\ Above(i) # NoId
      BY ConstantFacts
    <3>2. Link(i, Above(i))
      BY <3>1, AboveLinks
    <3>3. Owner(i) \in Births /\ Owner(Above(i)) < Owner(i)
      BY <3>1, <3>2, LinkLeadsUp
    <3> QED BY <3>1, <3>3
  <2>2. S \in SUBSET Nat /\ S # {}
    <3>1. \A i \in C : Owner(i) \in Nat
      BY <2>1, BirthsInterval DEF Inv, TypeOK
    <3> QED BY <3>1
  <2>3. PICK m \in S : \A k \in S : m <= k
    <3> HIDE DEF S
    <3> QED BY <2>2, LeastNatural
  <2>4. PICK i \in C : m = Owner(i)
    BY <2>3
  <2>5. Owner(Above(i)) \in S /\ Owner(Above(i)) < m
    BY <2>1, <2>4
  <2>6. m <= Owner(Above(i)) /\ m \in Nat /\ Owner(Above(i)) \in Nat
    BY <2>2, <2>3, <2>5
  <2> QED BY <2>5, <2>6
<1> QED BY <1>1, InvAlways, PTL
-----------------------------------------------------------------------------
(* The walk climbs.  An id it stands at was given to some process.         *)
StartKnown ==
  /\ walk.state = "idle" => walk.at = NoId
  /\ walk.last = NoId /\ walk.at # NoId => walk.at \in Given

LEMMA PlaceKnown ==
  ASSUME Inv, StartKnown, walk.at # NoId
  PROVE  walk.at \in Given
<1>1. CASE walk.last = NoId
  BY <1>1 DEF StartKnown
<1>2. CASE walk.last # NoId
  <2>1. PICK b \in Births : b # 1 /\ \E c \in procs[b].parents : walk.at \in procs[c].had
    BY <1>2 DEF Inv, WalkLinks, Link
  <2>2. PICK c \in procs[b].parents : walk.at \in procs[c].had
    BY <2>1
  <2>3. c \in 1..(b - 1)
    BY <2>1, <2>2 DEF Inv, Family, Sound
  <2>4. c \in Births
    BY <2>3, BirthsInterval DEF Inv, TypeOK
  <2> QED BY <2>2, <2>4 DEF Given
<1> QED BY <1>1, <1>2

LEMMA KernelGrows ==
  ASSUME Inv, KernelStep
  PROVE  Grows /\ UNCHANGED walk /\ (reused => reused')
<1>1. PICK b \in Births :
        \/ \E id \in Ids : Clone(b, id) \/ \E t \in Ids : Fork(b, t, id)
        \/ EndThread(b) \/ EndProcess(b) \/ Exec(b)
  BY DEF KernelStep
<1>2. ProcsOK
  BY DEF Inv, TypeOK, ProcsOK
<1>3. CASE \E id \in Ids : Clone(b, id) \/ \E t \in Ids : Fork(b, t, id)
  <2>1. PICK id \in Ids : Clone(b, id) \/ \E t \in Ids : Fork(b, t, id)
    BY <1>3
  <2>2. Grows
    BY <1>2, <2>1, CloneKeeps, ForkKeeps
  <2> QED BY <2>1, <2>2 DEF Clone, Fork, Give
<1>4. CASE EndThread(b) \/ EndProcess(b)
  <2>1. Grows
    BY <1>2, <1>4, EndThreadKeeps, EndProcessKeeps
  <2>2. UNCHANGED walk /\ reused' = reused
    BY <1>4 DEF EndThread, EndProcess
  <2> QED BY <2>1, <2>2
<1>5. CASE Exec(b)
  BY <1>5 DEF Exec, Grows, Births
<1> QED BY <1>1, <1>3, <1>4, <1>5

LEMMA StartKnownStep == Inv /\ StartKnown /\ [Next]_vars => StartKnown'
<1> SUFFICES ASSUME Inv, StartKnown, [Next]_vars PROVE StartKnown'
  OBVIOUS
<1>1. CASE KernelStep
  <2>1. Given \subseteq Given'
    BY <1>1, KernelGrows DEF Grows, Given
  <2> QED BY <1>1, <2>1, KernelGrows DEF StartKnown
<1>2. CASE \E b \in Births : StartWalk(b)
  <2>1. PICK b \in Births : StartWalk(b)
    BY <1>2
  <2>2. procs[b].tgid \in procs[b].had
    BY DEF Inv, Family, Sound
  <2>3. /\ procs[b].tgid \in Given' /\ walk'.at = procs[b].tgid
        /\ walk'.state # "idle"
    BY <2>1, <2>2 DEF StartWalk, Given, Births
  <2> QED BY <2>3 DEF StartKnown
<1>3. CASE WalkStep
  <2>1. \/ walk'.state # "idle" /\ walk'.last # NoId
        \/ walk'.at = NoId
        \/ walk'.state # "idle" /\ walk'.at = walk.at /\ walk'.last = walk.last
    <3>1. walk \in WalkType /\ DOMAIN exec_map \subseteq Ids
      BY DEF Inv, TypeOK
    <3>2. CASE FromMap
      BY <3>1, <3>2, ConstantFacts DEF FromMap, List
    <3>3. CASE OpenStat
      <4>1. \/ \E c : walk' = [walk EXCEPT !.state = "open", !.of = c]
            \/ walk' = Idle
        BY <3>3 DEF OpenStat
      <4>2. Idle.at = NoId
        BY DEF Idle
      <4>3. ASSUME NEW c, walk' = [walk EXCEPT !.state = "open", !.of = c]
            PROVE  walk'.state # "idle" /\ walk'.at = walk.at /\ walk'.last = walk.last
        BY <3>1, <4>3 DEF WalkType
      <4> QED BY <4>1, <4>2, <4>3
    <3>4. CASE ReadStat
      <4>1. CASE walk.at \in Threads(walk.of)
        <5>1. walk.at # NoId
          BY <4>1 DEF Threads
        <5> QED BY <3>4, <4>1, <5>1 DEF ReadStat, List
      <4>2. CASE walk.at \notin Threads(walk.of)
        BY <3>4, <4>2 DEF ReadStat, Idle
      <4> QED BY <4>1, <4>2
    <3>5. CASE EndWalk
      BY <3>5 DEF EndWalk, Idle
    <3> QED BY <1>3, <3>2, <3>3, <3>4, <3>5 DEF WalkStep
  <2>2. Given' = Given
    BY <1>3 DEF WalkStep, FromMap, OpenStat, ReadStat, EndWalk, Given, Births
  <2> QED BY <2>1, <2>2 DEF StartKnown
<1>4. CASE UNCHANGED vars
  BY <1>4 DEF vars, StartKnown, Given, Births
<1> QED BY <1>1, <1>2, <1>3, <1>4 DEF Next

(* Whose an id was stays so. *)
LEMMA OwnerStays ==
  ASSUME Inv, Inv', Grows, ~reused, ~reused', NEW id \in Given
  PROVE  Owner(id)' = Owner(id)
<1>1. PICK b \in Births : id \in procs[b].had
  BY DEF Given
<1>2. Owner(id) = b
  BY <1>1, OwnerIsUnique
<1>3. b \in Births' /\ id \in procs'[b].had
  BY <1>1 DEF Grows
<1>4. \A c \in Births' : c # b => procs'[b].had \cap procs'[c].had = {}
  BY <1>3 DEF Inv, Unique
<1>5. Owner(id)' = b
  BY <1>3, <1>4 DEF Owner
<1> QED BY <1>2, <1>5

(* A step of the walk from one id to the next leads up. *)
LEMMA ListingClimbs ==
  ASSUME Inv, ~reused, WalkStep, walk.at # NoId, walk'.at # NoId
  PROVE  /\ UNCHANGED procs
         /\ \/ UNCHANGED <<walk.at, walk.last>>
            \/ Owner(walk'.at) < Owner(walk.at)
<1>1. UNCHANGED procs
  BY DEF WalkStep, FromMap, OpenStat, ReadStat, EndWalk
<1>2. CASE FromMap
  <2>1. /\ walk'.at = exec_map[walk.at] /\ walk'.at \in Ids \cup {NoId}
        /\ Link(walk.at, walk'.at)
    BY <1>2 DEF FromMap, List, Inv, TypeOK, EntriesLink
  <2> QED BY <1>1, <2>1, LinkLeadsUp
<1>3. CASE OpenStat
  <2>1. Idle.at = NoId
    BY DEF Idle
  <2>2. PICK c : walk' = [walk EXCEPT !.state = "open", !.of = c]
    BY <1>3, <2>1 DEF OpenStat
  <2>3. walk \in WalkType
    BY DEF Inv, TypeOK
  <2> QED BY <1>1, <2>2, <2>3 DEF WalkType
<1>4. CASE ReadStat
  <2>1. walk.of \in Births /\ walk.at \in Threads(walk.of)
    BY <1>4 DEF ReadStat, Idle, Inv, TypeOK
  <2>2. /\ walk'.at = ParentOf(walk.of) /\ walk'.at \in Ids \cup {NoId}
        /\ Link(walk.at, walk'.at)
    BY <1>4, <2>1, ParentLinks DEF ReadStat, List
  <2> QED BY <1>1, <2>2, LinkLeadsUp
<1>5. CASE EndWalk
  BY <1>5 DEF EndWalk
<1> QED BY <1>2, <1>3, <1>4, <1>5 DEF WalkStep

(* Without reuse each process listed is older than the one before it, and  *)
(* an id the walk stands at goes on to mean the same process.  The number  *)
(* of the owner is a variant of the loop in generate_proc_trace.           *)
THEOREM WalkAlwaysClimbs == Spec => WalkClimbs
<1>1. ASSUME Inv, Inv', StartKnown, [Next]_vars, ~reused', walk.at # NoId, walk'.at # NoId
      PROVE  IF UNCHANGED <<walk.at, walk.last>>
               THEN Owner(walk.at)' = Owner(walk.at)
               ELSE Owner(walk.at)' < Owner(walk.at)
  <2> PICK at, next : at = walk.at /\ next = walk'.at
    OBVIOUS
  <2>1. at \in Given
    BY <1>1, PlaceKnown
  <2>2. CASE KernelStep
    <3>1. Grows /\ UNCHANGED walk /\ ~reused
      BY <1>1, <2>2, KernelGrows
    <3>2. Owner(at)' = Owner(at)
      BY <1>1, <2>1, <3>1, OwnerStays
    <3> QED BY <3>1, <3>2
  <2>3. CASE WalkStep
    <3>1. ~reused
      BY <1>1, <2>3 DEF WalkStep, FromMap, OpenStat, ReadStat, EndWalk
    <3>2. /\ UNCHANGED procs
          /\ UNCHANGED <<walk.at, walk.last>> \/ Owner(next) < Owner(at)
      BY <1>1, <2>3, <3>1, ListingClimbs
    <3>3. Owner(next)' = Owner(next)
      BY <3>2 DEF Owner, Births
    <3>4. CASE UNCHANGED <<walk.at, walk.last>>
      BY <3>3, <3>4
    <3>5. CASE ~UNCHANGED <<walk.at, walk.last>>
      BY <3>2, <3>3, <3>5
    <3> QED BY <3>4, <3>5
  <2>4. CASE \E b \in Births : StartWalk(b)
    BY <1>1, <2>4 DEF StartWalk, StartKnown
  <2>5. CASE UNCHANGED vars
    <3>1. UNCHANGED <<procs, walk>>
      BY <2>5 DEF vars
    <3>2. Owner(at)' = Owner(at)
      BY <3>1 DEF Owner, Births
    <3> QED BY <3>1, <3>2
  <2> QED BY <1>1, <2>2, <2>3, <2>4, <2>5 DEF Next
<1>2. Init => StartKnown
  BY DEF Init, Idle, StartKnown
<1> QED BY <1>1, <1>2, InvInit, InvAlways, StartKnownStep, PTL DEF Spec, WalkClimbs
=============================================================================
