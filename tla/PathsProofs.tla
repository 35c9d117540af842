----------------------------- MODULE PathsProofs -----------------------------
(***************************************************************************)
(* The path an event carries is cut after MaxDepth directories, yet        *)
(* comparing it with a monitored path of at most MaxDepth levels gives the *)
(* verdict the whole path would give.  This is why load_config bounds the  *)
(* level of the monitored paths.                                           *)
(***************************************************************************)
EXTENDS Paths, SequenceTheorems, TLAPS

(* LastN keeps min(n, Len(s)) elements and is s itself when s is short.    *)
LEMMA LastNProperties ==
  ASSUME NEW S, NEW s \in Seq(S), NEW n \in Nat
  PROVE  /\ LastN(s, n) \in Seq(S)
         /\ Len(s) <= n => LastN(s, n) = s
         /\ Len(s) > n => Len(LastN(s, n)) = n
<1> DEFINE m == IF Len(s) > n THEN Len(s) - n + 1 ELSE 1
<1>1. Len(s) \in Nat
  BY LenProperties
<1>2. m \in Int /\ m >= 1
  BY <1>1
<1>3. \A i \in m..Len(s) : s[i] \in S
  BY <1>1, <1>2, ElementOfSeq
<1>4. /\ SubSeq(s, m, Len(s)) \in Seq(S)
      /\ Len(SubSeq(s, m, Len(s))) = IF m <= Len(s) THEN Len(s) - m + 1 ELSE 0
  <2> HIDE DEF m
  <2> QED BY <1>1, <1>2, <1>3, SubSeqProperties
<1>5. ASSUME Len(s) <= n
      PROVE  LastN(s, n) = s
  <2>1. SubSeq(s, 1, Len(s)) = s
    BY SubSeqFull
  <2>2. m = 1
    BY <1>1, <1>5
  <2>3. LastN(s, n) = SubSeq(s, m, Len(s))
    BY DEF LastN
  <2> QED BY <2>1, <2>2, <2>3
<1>6. ASSUME Len(s) > n
      PROVE  Len(LastN(s, n)) = n
  BY <1>1, <1>4, <1>6 DEF LastN
<1> QED BY <1>4, <1>5, <1>6 DEF LastN

(* The parent directories of a dentry and its name put together are the    *)
(* dentry.                                                                 *)
LEMMA ParentAndName ==
  ASSUME NEW S, NEW file \in Seq(S), file # <<>>
  PROVE  /\ DParent(file) \in Seq(S)
         /\ Len(DParent(file)) = Len(file) - 1
         /\ DName(file) \in Seq(S)
         /\ Len(DName(file)) = 1
         /\ DName(file)[1] = file[Len(file)]
         /\ DParent(file) \o DName(file) = file
<1>1. Len(file) \in Nat \ {0}
  BY EmptySeq
<1>2. \A i \in 1..Len(file) : file[i] \in S
  BY ElementOfSeq
<1>3. DName(file) \in Seq(S) /\ Len(DName(file)) = 1 /\ DName(file)[1] = file[Len(file)]
  BY <1>1, <1>2 DEF DName
<1>4. DParent(file) \in Seq(S) /\ Len(DParent(file)) = Len(file) - 1
      /\ \A i \in 1..Len(file)-1 : DParent(file)[i] = file[i]
  <2>1. \A i \in 1..(Len(file) - 1) : file[i] \in S
    BY <1>1, <1>2
  <2>2. Len(file) - 1 \in Int /\ 1 \in Int
    BY <1>1
  <2>3. DParent(file) = SubSeq(file, 1, Len(file) - 1)
    BY DEF DParent
  <2>4. /\ DParent(file) \in Seq(S)
        /\ Len(DParent(file)) =
             IF 1 <= Len(file) - 1 THEN (Len(file) - 1) - 1 + 1 ELSE 0
        /\ \A i \in 1..((Len(file) - 1) - 1 + 1) : DParent(file)[i] = file[1 + i - 1]
    BY <2>1, <2>2, <2>3, SubSeqProperties
  <2>5. (Len(file) - 1) - 1 + 1 = Len(file) - 1
    BY <1>1
  <2>6. ASSUME NEW i \in 1..(Len(file) - 1)
        PROVE  DParent(file)[i] = file[i]
    <3>1. i \in 1..((Len(file) - 1) - 1 + 1) /\ 1 + i - 1 = i
      BY <1>1
    <3> QED BY <2>4, <3>1
  <2>7. Len(DParent(file)) = Len(file) - 1
    <3>1. CASE Len(file) = 1
      BY <2>4, <3>1
    <3>2. CASE Len(file) # 1
      <4>1. 1 <= Len(file) - 1
        <5>1. \A n \in Nat \ {0} : n # 1 => 1 <= n - 1
          OBVIOUS
        <5> QED BY ONLY <1>1, <3>2, <5>1, Zenon
      <4> QED BY <2>4, <2>5, <4>1
    <3> QED BY <3>1, <3>2
  <2> QED BY <2>4, <2>6, <2>7
<1>5. /\ DParent(file) \o DName(file) \in Seq(S)
      /\ Len(DParent(file) \o DName(file)) = Len(file)
      /\ \A i \in 1..Len(file) :
           (DParent(file) \o DName(file))[i] =
             IF i <= Len(file) - 1 THEN DParent(file)[i] ELSE DName(file)[i - (Len(file) - 1)]
  BY <1>1, <1>3, <1>4, ConcatProperties
<1>6. \A i \in 1..Len(file) : (DParent(file) \o DName(file))[i] = file[i]
  BY <1>1, <1>3, <1>4, <1>5
<1> QED BY <1>3, <1>4, <1>5, <1>6, SeqEqual

(* The length and the first component of a path put together from the root, *)
(* some directories and a name.                                             *)
LEMMA RootedLength ==
  ASSUME NEW dirs \in Path, NEW name \in Path
  PROVE  /\ Len(<<Root>> \o dirs \o name) = 1 + Len(dirs) + Len(name)
         /\ (<<Root>> \o dirs \o name)[1] = Root
<1>1. <<Root>> \in Seq(Names) /\ Len(<<Root>>) = 1 /\ <<Root>>[1] = Root
  BY PathsAssumption
<1>2. Len(dirs) \in Nat /\ Len(name) \in Nat
  BY LenProperties DEF Path
<1> DEFINE head == <<Root>> \o dirs
<1>3. head \in Seq(Names) /\ Len(head) = 1 + Len(dirs) /\ head[1] = Root
  BY <1>1, <1>2, ConcatProperties DEF Path
<1> HIDE DEF head
<1>4. /\ Len(head \o name) = Len(head) + Len(name)
      /\ \A i \in 1..Len(head) + Len(name) :
           (head \o name)[i] = IF i <= Len(head) THEN head[i] ELSE name[i - Len(head)]
  <2>1. name \in Seq(Names)
    BY DEF Path
  <2>2. head \in Seq(Names)
    BY <1>3
  <2> QED BY ONLY <2>1, <2>2, ConcatProperties
<1>5. 1 \in 1..Len(head) + Len(name) /\ 1 <= Len(head)
  BY <1>2, <1>3
<1>6. Len(head \o name) = 1 + Len(dirs) + Len(name) /\ (head \o name)[1] = Root
  BY <1>2, <1>3, <1>4, <1>5
<1> QED BY <1>6 DEF head

LEMMA RootedIsAbsolute ==
  ASSUME NEW dirs \in Path, NEW name \in Path
  PROVE  IsAbsolute(<<Root>> \o dirs \o name)
<1> DEFINE path == <<Root>> \o dirs \o name
<1>1. Len(path) = 1 + Len(dirs) + Len(name) /\ path[1] = Root
  BY RootedLength
<1>2. Len(dirs) \in Nat /\ Len(name) \in Nat
  BY LenProperties DEF Path
<1> HIDE DEF path
<1>3. Len(path) # 0
  BY <1>1, <1>2
<1>4. path # <<>>
  BY <1>3
<1> QED BY <1>1, <1>4 DEF IsAbsolute, path

(* It ends with the last component of the name.                            *)
LEMMA RootedLast ==
  ASSUME NEW dirs \in Path, NEW name \in Path, name # <<>>,
         NEW path, path = <<Root>> \o dirs \o name
  PROVE  path[Len(path)] = name[Len(name)]
<1>1. <<Root>> \in Seq(Names) /\ Len(<<Root>>) = 1
  BY PathsAssumption
<1>2. Len(dirs) \in Nat /\ Len(name) \in Nat \ {0}
  BY EmptySeq, LenProperties DEF Path
<1> DEFINE head == <<Root>> \o dirs
<1>3. head \in Seq(Names) /\ Len(head) = 1 + Len(dirs)
  BY <1>1, ConcatProperties DEF Path
<1> HIDE DEF head
<1>4. /\ Len(head \o name) = Len(head) + Len(name)
      /\ \A i \in 1..Len(head) + Len(name) :
           (head \o name)[i] = IF i <= Len(head) THEN head[i] ELSE name[i - Len(head)]
  <2>1. name \in Seq(Names)
    BY DEF Path
  <2>2. head \in Seq(Names)
    BY <1>3
  <2> QED BY ONLY <2>1, <2>2, ConcatProperties
<1>5. (head \o name)[Len(head \o name)] = name[Len(name)]
  BY <1>2, <1>3, <1>4
<1> QED BY <1>5 DEF head

(* The shape both rebuilt and real paths have.                              *)
Rooted(dirs, name) == <<Root>> \o dirs \o name

(* A path put together from the root, the last MaxDepth of some directories *)
(* and a relative name is at most MaxDepth levels deep only when no         *)
(* directory was cut off.                                                   *)
LEMMA CutPathsAreDeep ==
  ASSUME NEW dirs \in Path, NEW name \in Path, name # <<>>,
         NEW m \in Path, Len(m) - 1 <= MaxDepth
  PROVE  Rooted(LastN(dirs, MaxDepth), name) = m <=> Rooted(dirs, name) = m
<1> DEFINE cut   == LastN(dirs, MaxDepth)
           short == Rooted(cut, name)
           long  == Rooted(dirs, name)
<1>1. /\ cut \in Path
      /\ Len(dirs) <= MaxDepth => cut = dirs
      /\ Len(dirs) > MaxDepth => Len(cut) = MaxDepth
  BY LastNProperties, PathsAssumption DEF Path
<1>2. Len(name) \in Nat \ {0} /\ Len(dirs) \in Nat /\ Len(m) \in Nat /\ Len(cut) \in Nat
  BY <1>1, EmptySeq, LenProperties DEF Path
<1>3. /\ Len(short) = 1 + Len(cut) + Len(name)
      /\ Len(long) = 1 + Len(dirs) + Len(name)
  BY <1>1, RootedLength DEF Rooted
<1>4. CASE Len(dirs) <= MaxDepth
  BY <1>1, <1>4
<1>5. CASE Len(dirs) > MaxDepth
  <2> HIDE DEF cut, short, long
  <2>1. Len(short) = 1 + MaxDepth + Len(name)
    BY <1>1, <1>3, <1>5
  <2>2. Len(short) # Len(m) /\ Len(long) # Len(m)
    BY <1>2, <1>3, <1>5, <2>1, PathsAssumption
  <2>3. short # m /\ long # m
    BY <2>2
  <2> QED BY <2>3 DEF cut, short, long
<1>6. Len(dirs) <= MaxDepth \/ Len(dirs) > MaxDepth
  BY <1>2, PathsAssumption
<1> QED
  BY ONLY <1>4, <1>5, <1>6

(* What both theorems below have in common.                                *)
LEMMA CutPathIsExact ==
  ASSUME NEW dirs \in Path, NEW name \in Path,
         name # <<>>, ~IsAbsolute(name), name[Len(name)] # Root,
         NEW m \in Path, GetDirLevel(m) <= MaxDepth
  PROVE  GetFullPath(LastN(dirs, MaxDepth), name) = m
           <=> RealPath(<<>>, dirs \o name) = m
<1>1. GetFullPath(LastN(dirs, MaxDepth), name) = Rooted(LastN(dirs, MaxDepth), name)
  BY DEF GetFullPath, Slash, IsAbsolute, Rooted
<1>2. RealPath(<<>>, dirs \o name) = Rooted(dirs, name)
  <2>1. <<Root>> \in Seq(Names)
    BY PathsAssumption
  <2>2. <<Root>> \o <<>> = <<Root>>
    BY <2>1, ConcatEmptySeq
  <2>3. <<Root>> \o (dirs \o name) = (<<Root>> \o dirs) \o name
    <3>1. dirs \in Seq(Names) /\ name \in Seq(Names)
      BY DEF Path
    <3> QED BY ONLY <2>1, <3>1, ConcatAssociative
  <2> QED BY <2>2, <2>3 DEF RealPath, Rooted
<1>3. CASE IsAbsolute(m) /\ m[Len(m)] # Root
  <2>1. Len(m) - 1 <= MaxDepth
    <3>1. GetDirLevel(m) = Len(m) - 1
      BY ONLY <1>3 DEF GetDirLevel
    <3>2. GetDirLevel(m) <= MaxDepth
      OBVIOUS
    <3> QED BY ONLY <3>1, <3>2
  <2>2. dirs \in Path /\ name \in Path /\ name # <<>> /\ m \in Path
    OBVIOUS
  <2>3. Rooted(LastN(dirs, MaxDepth), name) = m <=> Rooted(dirs, name) = m
    BY ONLY <2>1, <2>2, CutPathsAreDeep
  <2> QED BY ONLY <1>1, <1>2, <2>3
<1>4. CASE ~IsAbsolute(m)
  (* Both paths begin with the root, m does not. *)
  <2>1. LastN(dirs, MaxDepth) \in Path
    BY LastNProperties, PathsAssumption DEF Path
  <2>2. /\ IsAbsolute(Rooted(LastN(dirs, MaxDepth), name))
        /\ IsAbsolute(Rooted(dirs, name))
    BY <2>1, RootedIsAbsolute DEF Rooted
  <2>3. /\ Rooted(LastN(dirs, MaxDepth), name) # m
        /\ Rooted(dirs, name) # m
    BY ONLY <1>4, <2>2
  <2> QED BY ONLY <1>1, <1>2, <2>3
<1>5. CASE m[Len(m)] = Root
  (* m ends in a slash, both paths in a name. *)
  <2>1. LastN(dirs, MaxDepth) \in Path
    BY LastNProperties, PathsAssumption DEF Path
  <2>2. \A path : path = Rooted(LastN(dirs, MaxDepth), name)
                    => path[Len(path)] = name[Len(name)]
    BY <2>1, RootedLast DEF Rooted
  <2>3. \A path : path = Rooted(dirs, name) => path[Len(path)] = name[Len(name)]
    BY RootedLast DEF Rooted
  <2>4. /\ Rooted(LastN(dirs, MaxDepth), name) # m
        /\ Rooted(dirs, name) # m
    BY <1>5, <2>2, <2>3
  <2> QED BY ONLY <1>1, <1>2, <2>4
<1> QED BY ONLY <1>3, <1>4, <1>5

(* write and copy_file_range: the path rebuilt from fill_parent_dirs and   *)
(* the base name equals a monitored path exactly when the file's path on   *)
(* the root file system does.                                              *)
THEOREM RebuiltFilePathIsExact ==
  ASSUME NEW file \in Path, file # <<>>, file[Len(file)] # Root,
         NEW m \in Path, GetDirLevel(m) <= MaxDepth
  PROVE  GetFullPath(FillParentDirs(file), DName(file)) = m
           <=> RealPath(<<>>, file) = m
<1>1. /\ DParent(file) \in Path
      /\ DName(file) \in Path
      /\ Len(DName(file)) = 1 /\ DName(file)[1] # Root
      /\ DParent(file) \o DName(file) = file
  BY ParentAndName DEF Path
<1>2. /\ DName(file) # <<>> /\ ~IsAbsolute(DName(file))
      /\ DName(file)[Len(DName(file))] # Root
  <2>1. Len(DName(file)) # 0
    BY <1>1
  <2>2. DName(file) # <<>>
    BY <2>1, EmptySeq
  <2> QED BY <1>1, <2>2 DEF IsAbsolute
<1>3. GetFullPath(LastN(DParent(file), MaxDepth), DName(file)) = m
        <=> RealPath(<<>>, DParent(file) \o DName(file)) = m
  BY <1>1, <1>2, CutPathIsExact
<1> QED BY <1>1, <1>3 DEF FillParentDirs

(* unlinkat with a relative name that does not end in a slash: the same for *)
(* fill_dir_chain.                                                         *)
THEOREM RebuiltRelativePathIsExact ==
  ASSUME NEW base \in Path, NEW name \in Path,
         name # <<>>, ~IsAbsolute(name), name[Len(name)] # Root,
         NEW m \in Path, GetDirLevel(m) <= MaxDepth
  PROVE  GetFullPath(FillDirChain(base), name) = m
           <=> RealPath(<<>>, base \o name) = m
BY CutPathIsExact DEF FillDirChain
=============================================================================
