---------------------------- MODULE Volumes_proofs ----------------------------
(***************************************************************************)
(* Theorems about the readers' machine, for any volumes, whatever their    *)
(* tables say, and for any disk, whatever its partition tables say.        *)
(***************************************************************************)
EXTENDS Volumes, Intervals, FiniteSetTheorems

-----------------------------------------------------------------------------
(* Lists that hold nothing twice, and grow by what is not in them.         *)
Distinct(s) ==
  /\ s \in Seq(ToSet(s)) /\ IsFiniteSet(ToSet(s))
  /\ Len(s) = Cardinality(ToSet(s))

(* The list of a loop that starts is empty.                                *)
LEMMA NoneTwice == Distinct(<<>>) /\ ToSet(<<>>) = {}
<1>1. ToSet(<<>>) = {}
  BY DEF ToSet
<1> QED
  BY <1>1, FS_EmptySet DEF Distinct

(* What is not listed can be appended.                                     *)
LEMMA OneMore ==
  ASSUME NEW s, Distinct(s), NEW c, c \notin ToSet(s)
  PROVE  Distinct(s \o <<c>>) /\ ToSet(s \o <<c>>) = ToSet(s) \cup {c}
<1> DEFINE t == s \o <<c>>
           T == ToSet(s) \cup {c}
<1>1. s \in Seq(T) /\ <<c>> \in Seq(T) /\ Len(s) \in Nat /\ Len(<<c>>) = 1
  BY DEF Distinct
<1>2. /\ t \in Seq(T) /\ Len(t) = Len(s) + 1 /\ t[Len(s) + 1] = c
      /\ \A i \in 1..Len(s) : t[i] = s[i]
  BY <1>1
<1>3. ToSet(t) = T
  <2>1. ToSet(t) = {t[i] : i \in 1..Len(t)} /\ ToSet(s) = {s[i] : i \in 1..Len(s)}
    BY <1>1, <1>2 DEF ToSet
  <2> HIDE DEF t
  <2>2. \A i \in 1..Len(t) : i \in 1..Len(s) \/ i = Len(s) + 1
    BY <1>1, <1>2
  <2>3. \A i \in 1..Len(s) : i \in 1..Len(t) /\ Len(s) + 1 \in 1..Len(t)
    BY <1>1, <1>2
  <2>4. Len(s) + 1 \in 1..Len(t)
    BY <1>1, <1>2
  <2> QED
    BY <1>2, <2>1, <2>2, <2>3, <2>4
<1>4. IsFiniteSet(T) /\ Cardinality(T) = Cardinality(ToSet(s)) + 1
  BY FS_AddElement DEF Distinct
<1> HIDE DEF t, T
<1>5. Distinct(t) /\ ToSet(t) = T
  BY <1>2, <1>3, <1>4 DEF Distinct
<1> QED
  BY <1>5 DEF t, T

-----------------------------------------------------------------------------
(* The record of a loop.                                                   *)
IsWalk(w) == w = [todo |-> w.todo, seen |-> w.seen, out |-> w.out, ok |-> w.ok]

(* What the turns of every loop are made of.                               *)
LEMMA WalkSkips ==
  ASSUME NEW w, IsWalk(w)
  PROVE  /\ IsWalk(Stopped(w)) /\ Stopped(w).out = w.out /\ Stopped(w).seen = w.seen
         /\ IsWalk(Skipped(w)) /\ Skipped(w).out = w.out /\ Skipped(w).seen = w.seen
<1>1. PICK a, b, c, d : w = [todo |-> a, seen |-> b, out |-> c, ok |-> d]
  BY DEF IsWalk
<1>2. w.todo = a /\ w.seen = b /\ w.out = c /\ w.ok = d
  BY <1>1
<1>3. ASSUME NEW t PROVE [w EXCEPT !.todo = t] = [todo |-> t, seen |-> b, out |-> c, ok |-> d]
  BY <1>1
<1> QED
  BY <1>2, <1>3 DEF IsWalk, Stopped, Skipped

(* A turn that visits remembers what, and goes on with what is below.      *)
LEMMA WalkVisits ==
  ASSUME NEW w, IsWalk(w), NEW key, NEW children
  PROVE  /\ IsWalk(Visited(w, key, children)) /\ Visited(w, key, children).out = w.out
         /\ Visited(w, key, children).seen = w.seen \cup {key}
         /\ Visited(w, key, children).todo = children \o Tail(w.todo)
<1>1. PICK a, b, c, d : w = [todo |-> a, seen |-> b, out |-> c, ok |-> d]
  BY DEF IsWalk
<1>2. w.todo = a /\ w.seen = b /\ w.out = c /\ w.ok = d
  BY <1>1
<1>3. ASSUME NEW t, NEW s
      PROVE  [w EXCEPT !.todo = t, !.seen = s] = [todo |-> t, seen |-> s, out |-> c, ok |-> d]
  <2>1. [[todo |-> a, seen |-> b, out |-> c, ok |-> d] EXCEPT !.todo = t]
          = [todo |-> t, seen |-> b, out |-> c, ok |-> d]
    OBVIOUS
  <2>2. [[todo |-> t, seen |-> b, out |-> c, ok |-> d] EXCEPT !.seen = s]
          = [todo |-> t, seen |-> s, out |-> c, ok |-> d]
    OBVIOUS
  <2>3. [w EXCEPT !.todo = t, !.seen = s] = [[w EXCEPT !.todo = t] EXCEPT !.seen = s]
    OBVIOUS
  <2> QED
    BY <1>1, <2>1, <2>2, <2>3
<1> QED
  BY <1>2, <1>3 DEF IsWalk, Visited

(* What is gathered is put behind what was.                                *)
LEMMA WalkGathers ==
  ASSUME NEW w, IsWalk(w), NEW items
  PROVE  /\ IsWalk(Gather(w, items)) /\ Gather(w, items).out = w.out \o items
         /\ Gather(w, items).seen = w.seen /\ Gather(w, items).todo = w.todo
<1>1. PICK a, b, c, d : w = [todo |-> a, seen |-> b, out |-> c, ok |-> d]
  BY DEF IsWalk
<1>2. w.todo = a /\ w.seen = b /\ w.out = c /\ w.ok = d
  BY <1>1
<1>3. ASSUME NEW o PROVE [w EXCEPT !.out = o] = [todo |-> a, seen |-> b, out |-> o, ok |-> d]
  BY <1>1
<1> QED
  BY <1>2, <1>3 DEF IsWalk, Gather

(* A chain of clusters: those the volume has, and those it has seen.       *)
ChainOK(clusters, w) ==
  /\ IsWalk(w) /\ Distinct(w.out)
  /\ ToSet(w.out) \subseteq w.seen
  /\ ToSet(w.out) \subseteq 2..clusters + 1

(* A directory of HPFS: its entries.                                       *)
DirectoryOK(w) == IsWalk(w) /\ Distinct(w.out)

(* What is not yet begun has nothing listed.                               *)
LEMMA WalkStarts ==
  ASSUME NEW todo, NEW clusters
  PROVE  ChainOK(clusters, Walk(todo)) /\ DirectoryOK(Walk(todo))
  BY NoneTwice DEF ChainOK, DirectoryOK, IsWalk, Walk

(* A turn of chain() lists a cluster the volume has, or ends the chain.    *)
LEMMA ChainTurn ==
  ASSUME NEW v, NEW w, ChainOK(FatClusters(v), w)
  PROVE  ChainOK(FatClusters(v), FatChainTurn(v, w))
<1> DEFINE c == Head(w.todo)
           next == FatNext(v, c)
           clusters == FatClusters(v)
           left == IF FatEnds(v, next) \/ next \in {0, 1} THEN <<>> ELSE <<next>>
           goesOn == c \in 2..clusters + 1 /\ Len(w.out) < clusters + 2 /\ c \notin w.seen
           on == Gather(Visited(w, c, left), <<c>>)
<1>1. FatChainTurn(v, w) = IF ~goesOn \/ FatBad(v, c) THEN Stopped(w) ELSE on
  BY DEF FatChainTurn
<1>2. /\ IsWalk(w) /\ Distinct(w.out) /\ ToSet(w.out) \subseteq w.seen
      /\ ToSet(w.out) \subseteq 2..clusters + 1
  BY DEF ChainOK
<1> HIDE DEF c, left, clusters
<1>3. ChainOK(clusters, Stopped(w))
  <2>1. /\ Stopped(w).out = w.out /\ Stopped(w).seen = w.seen /\ IsWalk(Stopped(w))
    BY <1>2, WalkSkips
  <2> QED
    BY <1>2, <2>1 DEF ChainOK
<1>4. ASSUME goesOn PROVE ChainOK(clusters, on)
  <2> DEFINE known == Visited(w, c, left)
  <2>0. IsWalk(known) /\ known.out = w.out /\ known.seen = w.seen \cup {c}
    BY <1>2, WalkVisits
  <2> HIDE DEF known
  <2>1. /\ on.out = w.out \o <<c>> /\ on.seen = w.seen \cup {c} /\ IsWalk(on)
    BY <2>0, WalkGathers DEF known
  <2>2. Distinct(w.out \o <<c>>) /\ ToSet(w.out \o <<c>>) = ToSet(w.out) \cup {c}
    BY <1>2, <1>4, OneMore
  <2> HIDE DEF on
  <2> QED
    BY <1>2, <1>4, <2>1, <2>2 DEF ChainOK
<1> HIDE DEF on, goesOn
<1>5. ChainOK(clusters, FatChainTurn(v, w))
  BY <1>1, <1>3, <1>4
<1> QED
  BY <1>5 DEF clusters

(* A turn of walkDnode() lists an entry that is not listed yet.            *)
LEMMA DirectoryTurn ==
  ASSUME NEW v, NEW w, DirectoryOK(w)
  PROVE  DirectoryOK(HpfsDirTurn(v, w))
<1> DEFINE item == Head(w.todo)
           near == item.depth =< 64 /\ item.dnode \in 1..v.sectors - 1 /\ item.dnode \notin w.seen
           sound == HpfsHolds(v, v.dnodes, item.dnode, 4) /\ v.dnodes[HpfsRemap(v, item.dnode)].free \in 20..2048
           dnode == v.dnodes[HpfsRemap(v, item.dnode)]
           e == HpfsEntry(v, item.record)
           again == \E i \in 1..Len(w.out) : w.out[i].first = e.first /\ w.out[i].name = e.name
           below == IF sound THEN HpfsUnfold(HpfsRecords(dnode.records), item.depth + 1) ELSE <<>>
<1>1. HpfsDirTurn(v, w) =
        IF item.dnode = 0
        THEN IF e.name = "" \/ e.first \notin 1..v.sectors - 1 \/ again THEN Skipped(w)
             ELSE Gather(Skipped(w), <<e>>)
        ELSE IF ~near THEN Skipped(w) ELSE Visited(w, item.dnode, below)
  BY DEF HpfsDirTurn
<1>2. IsWalk(w) /\ Distinct(w.out)
  BY DEF DirectoryOK
<1> HIDE DEF near, below, item, e
<1>3. DirectoryOK(Skipped(w)) /\ DirectoryOK(Visited(w, item.dnode, below))
  <2>1. /\ Skipped(w).out = w.out /\ IsWalk(Skipped(w))
        /\ Visited(w, item.dnode, below).out = w.out /\ IsWalk(Visited(w, item.dnode, below))
    BY <1>2, WalkSkips, WalkVisits
  <2> QED
    BY <1>2, <2>1 DEF DirectoryOK
<1>4. ASSUME ~again PROVE DirectoryOK(Gather(Skipped(w), <<e>>))
  <2>1. e \notin ToSet(w.out)
    <3>1. ToSet(w.out) = {w.out[i] : i \in 1..Len(w.out)}
      <4>1. DOMAIN w.out = 1..Len(w.out)
        BY <1>2 DEF Distinct
      <4> QED
        BY <4>1 DEF ToSet
    <3> QED
      BY <1>4, <3>1
  <2>2. Distinct(w.out \o <<e>>)
    BY <1>2, <2>1, OneMore
  <2>3. Gather(Skipped(w), <<e>>).out = w.out \o <<e>> /\ IsWalk(Gather(Skipped(w), <<e>>))
    <3>1. IsWalk(Skipped(w)) /\ Skipped(w).out = w.out
      BY <1>2, WalkSkips
    <3> QED
      BY <3>1, WalkGathers
  <2> QED
    BY <2>2, <2>3 DEF DirectoryOK
<1> HIDE DEF again
<1> QED
  BY <1>1, <1>3, <1>4

-----------------------------------------------------------------------------
(* What mounting finds out of a FAT volume is nothing that the boot sector *)
(* says otherwise.                                                         *)
FatFacts == disk \in Disks /\ (Kind = "fat" => facts \in {NoFacts, Unusable})

(* A loop under way, for the two readers that promise it.                  *)
WalkingOK ==
  state = "walking" =>
    /\ Kind = "fat" => ChainOK(FatClusters(Volume), walk)
    /\ Kind = "hpfs" /\ node.dir => DirectoryOK(walk)

TwiceInv == FatFacts /\ WalkingOK

(* A FAT volume has as many clusters when it is mounted.                   *)
LEMMA MountedClusters ==
  ASSUME FatFacts, Kind = "fat"
  PROVE  FatClusters(Mounted) = FatClusters(Volume)
<1> DEFINE numbers == {"sector", "perCluster", "reserved", "fats", "fatSectors", "rootEntries", "total"}
<1>1. numbers \subseteq DOMAIN Volume
  BY FatAssumption DEF FatFacts, Kind, Volume
<1>2. DOMAIN facts = {"mounted"}
  BY DEF FatFacts, NoFacts, Unusable
<1>3. \A f \in numbers : Mounted[f] = Volume[f]
  BY <1>1, <1>2 DEF Mounted
<1>4. /\ Mounted.sector = Volume.sector /\ Mounted.perCluster = Volume.perCluster
      /\ Mounted.reserved = Volume.reserved /\ Mounted.fats = Volume.fats
      /\ Mounted.fatSectors = Volume.fatSectors /\ Mounted.rootEntries = Volume.rootEntries
      /\ Mounted.total = Volume.total
  BY <1>3
<1> QED
  BY <1>4 DEF FatClusters, FatOverhead, RootSectors

(* Every step keeps what it says of the facts and of the loop.             *)
LEMMA TwiceStep == TwiceInv /\ [Next]_vars => TwiceInv'
<1> SUFFICES ASSUME TwiceInv, [Next]_vars PROVE TwiceInv'
  OBVIOUS
<1> USE DEF TwiceInv
<1>1. CASE Mount
  BY <1>1 DEF Mount, Rest, FatFacts, WalkingOK, Kind, Volume
<1>2. CASE MountOn
  BY <1>2 DEF MountOn, Rest, FatFacts, WalkingOK, Kind, Volume
<1>3. CASE MountDone
  <2>1. /\ disk' = disk /\ state' \in {"refused", "ready"}
        /\ facts' = IF walk.ok THEN Facts(Kind, Volume, walk) ELSE Unusable
    BY <1>3 DEF MountDone, Rest
  <2>2. Kind = "fat" => Facts(Kind, Volume, walk) = NoFacts
    BY DEF Facts
  <2> QED
    BY <2>1, <2>2 DEF FatFacts, WalkingOK, Kind
<1>4. CASE Ask
  BY <1>4 DEF Ask, FatFacts, WalkingOK, Kind, Volume
<1>5. CASE Enter
  <2>1. /\ disk' = disk /\ facts' = facts /\ node' = node /\ walk' = Start(Kind, Mounted, node)
    BY <1>5 DEF Enter
  <2>2. Kind = "fat" => ChainOK(FatClusters(Volume), Start(Kind, Mounted, node))
    BY WalkStarts DEF Start, FatChainStart
  <2>3. Kind = "hpfs" /\ node.dir => DirectoryOK(Start(Kind, Mounted, node))
    BY WalkStarts DEF Start, HpfsDirStart
  <2> QED
    BY <2>1, <2>2, <2>3 DEF FatFacts, WalkingOK, Kind, Volume
<1>6. CASE Turn
  <2>1. /\ disk' = disk /\ facts' = facts /\ node' = node /\ state = "walking"
        /\ walk' = TurnOf(Kind, Mounted, node, walk)
    BY <1>6 DEF Turn, Rest
  <2>2. Kind = "fat" => ChainOK(FatClusters(Volume), TurnOf(Kind, Mounted, node, walk))
    BY <2>1, ChainTurn, MountedClusters DEF TurnOf, WalkingOK
  <2>3. Kind = "hpfs" /\ node.dir => DirectoryOK(TurnOf(Kind, Mounted, node, walk))
    BY <2>1, DirectoryTurn DEF TurnOf, WalkingOK
  <2> QED
    BY <2>1, <2>2, <2>3 DEF FatFacts, WalkingOK, Kind, Volume
<1>7. CASE Gathered
  BY <1>7 DEF Gathered, Rest, FatFacts, WalkingOK, Kind
<1>8. CASE Descend
  BY <1>8 DEF Descend, Reply, FatFacts, WalkingOK, Kind
<1>9. CASE AnswerList \/ AnswerRead \/ AnswerValue
  BY <1>9 DEF AnswerList, AnswerRead, AnswerValue, Reply, FatFacts, WalkingOK, Kind
<1>10. CASE UNCHANGED vars
  BY <1>10 DEF vars, FatFacts, WalkingOK, Kind, Volume
<1> QED
  BY <1>1, <1>2, <1>3, <1>4, <1>5, <1>6, <1>7, <1>8, <1>9, <1>10 DEF Next, Step, Idle

(* Whatever the tables of a volume say, a FAT chain visits only clusters   *)
(* the volume has and none of them twice, and a HPFS directory holds no    *)
(* entry twice (FatReader::chain, HpfsReader::walkDnode).                  *)
THEOREM NothingIsTwice == Spec => []NothingTwice
<1>1. Init => TwiceInv
  BY DEF Init, TwiceInv, FatFacts, WalkingOK, Kind
<1>2. TwiceInv => NothingTwice
  BY DEF TwiceInv, WalkingOK, ChainOK, DirectoryOK, Distinct, NothingTwice
<1> QED
  BY <1>1, <1>2, TwiceStep, PTL DEF Spec

-----------------------------------------------------------------------------
(* What a partition table, a Logical Disk Manager database, an LVM group   *)
(* or an array shows lies on the disk, whatever is written there.          *)

(* A sequence is one of its elements.                                      *)
LEMMA MadeOf ==
  ASSUME NEW T, NEW n \in Nat, NEW f, f = [i \in 1..n |-> f[i]], \A i \in 1..n : f[i] \in T
  PROVE  f \in Seq(T) /\ Len(f) = n
<1>1. f \in [1..n -> T]
  OBVIOUS
<1> QED
  BY <1>1

-----------------------------------------------------------------------------
(* Lists: what is kept, sorted and put together of one.                    *)

(* The elements at some places.                                            *)
LEMMA KeptList ==
  ASSUME NEW T, NEW s, Len(s) \in Nat, NEW places, \A i \in 1..Len(s) : i \in places => s[i] \in T
  PROVE  Kept(s, places) \in Seq(T)
<1> DEFINE n == Len(s)
           A == Seq(T)
           Taken(a, k) == IF k \in places THEN Append(a, s[k]) ELSE a
           Is(g) == g = [k \in 0..n |-> IF k = 0 THEN <<>> ELSE Taken(g[k - 1], k)]
           step == [k \in 1..n |-> [a \in A |-> Taken(a, k)]]
           upto == CHOOSE g : Is(g)
<1>1. \A k \in 1..n, a \in A : Taken(a, k) \in A
  OBVIOUS
<1>2. <<>> \in A
  OBVIOUS
<1>3. Kept(s, places) = upto[n]
  BY DEF Kept
<1> HIDE DEF A, Taken
<1>4. \E f \in [0..n -> A] : Is(f)
  <2>1. PICK f \in [0..n -> A] : RecursiveIn(f, n, <<>>, step)
    BY <1>1, <1>2, LoopsRun
  <2>2. f[0] = <<>> /\ \A k \in 1..n : f[k] = Taken(f[k - 1], k)
    BY <2>1 DEF RecursiveIn
  <2>3. Is(f)
    BY <2>2
  <2> QED
    BY <2>3
<1>5. Is(upto)
  BY <1>4
<1> HIDE DEF upto
<1>6. \A k \in 0..n : upto[k] \in A
  <2>1. upto[0] \in A /\ \A k \in 1..n : upto[k - 1] \in A => upto[k] \in A
    BY <1>1, <1>2, <1>5
  <2> QED
    BY <2>1, LoopsKeep
<1> QED
  BY <1>3, <1>6 DEF A

(* Several lists in one.                                                   *)
LEMMA ConcatenatedList ==
  ASSUME NEW T, NEW lists, Len(lists) \in Nat, \A i \in 1..Len(lists) : lists[i] \in Seq(T)
  PROVE  Concatenated(lists) \in Seq(T)
<1> DEFINE n == Len(lists)
           A == Seq(T)
           Taken(a, k) == a \o lists[k]
           Is(g) == g = [k \in 0..n |-> IF k = 0 THEN <<>> ELSE Taken(g[k - 1], k)]
           step == [k \in 1..n |-> [a \in A |-> Taken(a, k)]]
           upto == CHOOSE g : Is(g)
<1>1. \A k \in 1..n, a \in A : Taken(a, k) \in A
  OBVIOUS
<1>2. <<>> \in A
  OBVIOUS
<1>3. Concatenated(lists) = upto[n]
  BY DEF Concatenated
<1> HIDE DEF A, Taken
<1>4. \E f \in [0..n -> A] : Is(f)
  <2>1. PICK f \in [0..n -> A] : RecursiveIn(f, n, <<>>, step)
    BY <1>1, <1>2, LoopsRun
  <2>2. f[0] = <<>> /\ \A k \in 1..n : f[k] = Taken(f[k - 1], k)
    BY <2>1 DEF RecursiveIn
  <2>3. Is(f)
    BY <2>2
  <2> QED
    BY <2>3
<1>5. Is(upto)
  BY <1>4
<1> HIDE DEF upto
<1>6. \A k \in 0..n : upto[k] \in A
  <2>1. upto[0] \in A /\ \A k \in 1..n : upto[k - 1] \in A => upto[k] \in A
    BY <1>1, <1>2, <1>5
  <2> QED
    BY <2>1, LoopsKeep
<1> QED
  BY <1>3, <1>6 DEF A

(* The length of parts, and where each starts.                             *)
LEMMA PartsAdd ==
  ASSUME NEW parts, Len(parts) \in Nat, \A i \in 1..Len(parts) : parts[i].len \in Nat
  PROVE  LengthOf(parts) \in Nat /\ \A i \in 1..Len(parts) : StartsOf(parts)[i] \in Nat
<1> DEFINE n == Len(parts)
           A == Nat
           Taken(a, k) == a + parts[k].len
           Is(g) == g = [k \in 0..n |-> IF k = 0 THEN 0 ELSE Taken(g[k - 1], k)]
           step == [k \in 1..n |-> [a \in A |-> Taken(a, k)]]
           upto == CHOOSE g : Is(g)
<1>1. \A k \in 1..n, a \in A : Taken(a, k) \in A
  OBVIOUS
<1>2. 0 \in A
  OBVIOUS
<1>3. StartsOf(parts) = [i \in 1..n + 1 |-> upto[i - 1]]
  BY DEF StartsOf
<1> HIDE DEF A, Taken
<1>4. \E f \in [0..n -> A] : Is(f)
  <2>1. PICK f \in [0..n -> A] : RecursiveIn(f, n, 0, step)
    BY <1>1, <1>2, LoopsRun
  <2>2. f[0] = 0 /\ \A k \in 1..n : f[k] = Taken(f[k - 1], k)
    BY <2>1 DEF RecursiveIn
  <2>3. Is(f)
    BY <2>2
  <2> QED
    BY <2>3
<1>5. Is(upto)
  BY <1>4
<1> HIDE DEF upto
<1>6. \A k \in 0..n : upto[k] \in A
  <2>1. upto[0] \in A /\ \A k \in 1..n : upto[k - 1] \in A => upto[k] \in A
    BY <1>1, <1>2, <1>5
  <2> QED
    BY <2>1, LoopsKeep
<1>7. \A i \in 1..n + 1 : i - 1 \in 0..n
  OBVIOUS
<1> QED
  BY <1>3, <1>6, <1>7 DEF A, LengthOf

(* A place is put into an order.                                           *)
LEMMA InsertGrows ==
  ASSUME NEW T, NEW order \in Seq(T), NEW i \in T, NEW before
  PROVE  Insert(order, i, before) \in Seq(T) /\ Len(Insert(order, i, before)) = Len(order) + 1
<1> DEFINE n == Len(order)
           behind == Cardinality({k \in 1..n : <<i, order[k]>> \notin before})
           at == [k \in 1..n + 1 |-> IF k =< behind THEN order[k] ELSE IF k = behind + 1 THEN i ELSE order[k - 1]]
<1>1. behind \in 0..n
  <2>0. 1 \in Int /\ n \in Int /\ n >= 0
    OBVIOUS
  <2>1. IsFiniteSet(1..n) /\ Cardinality(1..n) = n
    <3> HIDE DEF n
    <3>1. IsFiniteSet(1..n) /\ Cardinality(1..n) = IF 1 > n THEN 0 ELSE n - 1 + 1
      BY <2>0, FS_Interval
    <3> QED
      BY <2>0, <3>1
  <2>2. Cardinality({k \in 1..n : <<i, order[k]>> \notin before}) =< Cardinality(1..n)
        /\ IsFiniteSet({k \in 1..n : <<i, order[k]>> \notin before})
    BY <2>1, FS_Subset
  <2> QED
    BY <2>1, <2>2, FS_CardinalityType
<1>2. Insert(order, i, before) = at
  BY DEF Insert
<1> HIDE DEF behind
<1>3. \A k \in 1..n + 1 : at[k] \in T
  <2>1. ASSUME NEW k \in 1..n + 1 PROVE at[k] \in T
    <3>1. CASE k =< behind
      <4>1. k \in 1..n /\ at[k] = order[k]
        BY <1>1, <3>1
      <4> QED
        BY <4>1
    <3>2. CASE k = behind + 1
      BY <1>1, <3>2
    <3>3. CASE k > behind + 1
      <4>1. k - 1 \in 1..n /\ at[k] = order[k - 1]
        BY <1>1, <3>3
      <4> QED
        BY <4>1
    <3> QED
      BY <1>1, <3>1, <3>2, <3>3
  <2> QED
    BY <2>1
<1>4. at \in Seq(T) /\ Len(at) = n + 1
  <2>1. at = [k \in 1..n + 1 |-> at[k]] /\ n + 1 \in Nat
    OBVIOUS
  <2> HIDE DEF at
  <2> QED
    BY <1>3, <2>1, MadeOf
<1> QED
  BY <1>2, <1>4

(* An order of n places has n places of them.                              *)
LEMMA OrderLists ==
  ASSUME NEW m \in Nat, NEW before
  PROVE  \A k \in 1..m : Order(m, before)[k] \in 1..m
<1>0. ASSUME NEW T, NEW order \in Seq(T), NEW i \in T
      PROVE  Insert(order, i, before) \in Seq(T) /\ Len(Insert(order, i, before)) = Len(order) + 1
  BY InsertGrows
<1> DEFINE n == m
           A == Seq(1..m)
           Taken(a, k) == Insert(a, k, before)
           Is(g) == g = [k \in 0..n |-> IF k = 0 THEN <<>> ELSE Taken(g[k - 1], k)]
           step == [k \in 1..n |-> [a \in A |-> Taken(a, k)]]
           upto == CHOOSE g : Is(g)
<1>1. \A k \in 1..n, a \in A : Taken(a, k) \in A
  BY InsertGrows
<1>2. <<>> \in A
  OBVIOUS
<1>3. Order(m, before) = upto[n]
  BY DEF Order
<1> HIDE DEF A, Taken
<1>4. \E f \in [0..n -> A] : Is(f)
  <2>1. PICK f \in [0..n -> A] : RecursiveIn(f, n, <<>>, step)
    BY <1>1, <1>2, LoopsRun
  <2>2. f[0] = <<>> /\ \A k \in 1..n : f[k] = Taken(f[k - 1], k)
    BY <2>1 DEF RecursiveIn
  <2>3. Is(f)
    BY <2>2
  <2> QED
    BY <2>3
<1>5. Is(upto)
  BY <1>4
<1> HIDE DEF upto
<1>6. \A k \in 0..n : upto[k] \in A
  <2>1. upto[0] \in A /\ \A k \in 1..n : upto[k - 1] \in A => upto[k] \in A
    BY <1>1, <1>2, <1>5
  <2> QED
    BY <2>1, LoopsKeep
<1>7. n \in {k \in 0..n : Len(upto[k]) = k}
  <2> DEFINE Good == {k \in 0..n : Len(upto[k]) = k}
  <2>1. 0 \in Good
    BY <1>5
  <2>2. ASSUME NEW k \in 1..n, k - 1 \in Good PROVE k \in Good
    <3>1. upto[k - 1] \in Seq(1..m) /\ k \in 1..m /\ Len(upto[k - 1]) = k - 1
      BY <1>6, <2>2 DEF A
    <3>2. /\ Insert(upto[k - 1], k, before) \in Seq(1..m)
          /\ Len(Insert(upto[k - 1], k, before)) = Len(upto[k - 1]) + 1
      BY <1>0, <3>1
    <3>3. upto[k] = Insert(upto[k - 1], k, before)
      BY <1>5 DEF Taken
    <3>4. Len(upto[k]) = k - 1 + 1
      BY <3>1, <3>2, <3>3
    <3>5. k - 1 + 1 = k /\ k \in 0..n
      BY <3>1
    <3> QED
      BY <3>4, <3>5
  <2> HIDE DEF Good
  <2>3. 0..n \subseteq Good
    BY <2>1, <2>2, SetInduction
  <2>4. n \in Good
    BY <2>3
  <2> QED
    BY <2>4 DEF Good
<1> QED
  BY <1>3, <1>6, <1>7 DEF A

(* What is sorted is what it was sorted from.                              *)
LEMMA SortedList ==
  ASSUME NEW T, NEW s \in Seq(T), NEW before
  PROVE  /\ [k \in 1..Len(s) |-> s[Order(Len(s), before)[k]]] \in Seq(T)
         /\ Len([k \in 1..Len(s) |-> s[Order(Len(s), before)[k]]]) = Len(s)
<1> DEFINE f == [k \in 1..Len(s) |-> s[Order(Len(s), before)[k]]]
<1>1. \A k \in 1..Len(s) : f[k] \in T
  BY OrderLists
<1>2. f = [k \in 1..Len(s) |-> f[k]] /\ Len(s) \in Nat
  OBVIOUS
<1> HIDE DEF f
<1>3. f \in Seq(T) /\ Len(f) = Len(s)
  BY <1>1, <1>2, MadeOf
<1> QED
  BY <1>3 DEF f

(* A finite set in a list.                                                 *)
LEMMA SetInList ==
  ASSUME NEW S, IsFiniteSet(S)
  PROVE  SetToSeq(S) \in Seq(S)
<1>1. Cardinality(S) \in Nat /\ ExistsBijection(1..Cardinality(S), S)
  BY FS_CardinalityType
<1>2. \E f \in [1..Cardinality(S) -> S] : IsInjective(f)
  BY <1>1 DEF ExistsBijection, Bijection, Injection, IsInjective
<1>3. SetToSeq(S) \in [1..Cardinality(S) -> S]
  BY <1>2 DEF SetToSeq
<1> QED
  BY <1>1, <1>3

(* What a store of a size shows of parts is no more than there is.         *)
LEMMA CutParts ==
  ASSUME NEW parts, Len(parts) \in Nat, \A i \in 1..Len(parts) : parts[i].len \in Nat,
         NEW size \in Int
  PROVE  /\ CutTo(parts, size) = [i \in 1..Len(parts) |-> CutTo(parts, size)[i]]
         /\ \A i \in 1..Len(parts) :
              \E len \in 0..parts[i].len : CutTo(parts, size)[i] = Part(parts[i].at, len)
<1>1. CutTo(parts, size) = [i \in 1..Len(parts) |->
        Part(parts[i].at, Larger(0, Smaller(parts[i].len, size - StartsOf(parts)[i])))]
  BY DEF CutTo
<1>2. ASSUME NEW i \in 1..Len(parts)
      PROVE  Larger(0, Smaller(parts[i].len, size - StartsOf(parts)[i])) \in 0..parts[i].len
  <2>1. StartsOf(parts)[i] \in Nat
    BY PartsAdd
  <2> QED
    BY <2>1 DEF Larger, Smaller
<1> HIDE DEF Part
<1> QED
  BY <1>1, <1>2

(* The sets of places: there are finitely many.                            *)
LEMMA MasksList ==
  ASSUME NEW m \in Nat
  PROVE  Masks(m) \in Seq(SUBSET (1..m))
<1> DEFINE n == m
           base == <<{}>>
           A == Seq(SUBSET (1..m))
           Taken(a, k) == a \o [i \in 1..Len(a) |-> a[i] \cup {k}]
           Is(g) == g = [k \in 0..n |-> IF k = 0 THEN base ELSE Taken(g[k - 1], k)]
           step == [k \in 1..n |-> [a \in A |-> Taken(a, k)]]
           upto == CHOOSE g : Is(g)
<1>1. \A k \in 1..n, a \in A : Taken(a, k) \in A
  OBVIOUS
<1>2. base \in A
  OBVIOUS
<1>3. Masks(m) = upto[n]
  BY DEF Masks
<1> HIDE DEF A, Taken, base
<1>4. \E f \in [0..n -> A] : Is(f)
  <2>1. PICK f \in [0..n -> A] : RecursiveIn(f, n, base, step)
    BY <1>1, <1>2, LoopsRun
  <2>2. f[0] = base /\ \A k \in 1..n : f[k] = Taken(f[k - 1], k)
    BY <2>1 DEF RecursiveIn
  <2>3. Is(f)
    BY <2>2
  <2> QED
    BY <2>3
<1>5. Is(upto)
  BY <1>4
<1> HIDE DEF upto
<1>6. \A k \in 0..n : upto[k] \in A
  <2>1. upto[0] \in A /\ \A k \in 1..n : upto[k - 1] \in A => upto[k] \in A
    BY <1>1, <1>2, <1>5
  <2> QED
    BY <2>1, LoopsKeep
<1> QED
  BY <1>3, <1>6 DEF A

(* The arrangements of a list have the things of the list.                 *)
LEMMA ArrangementsList ==
  ASSUME NEW S, NEW list \in Seq(S)
  PROVE  Arrangements(list) \in Seq(Seq(S))
<1> DEFINE n == Len(list)
           base == <<<<>>>>
           next(q) == Keeping(list, LAMBDA i : \A k \in 1..Len(q) : q[k] # i)
           with(q) == [j \in 1..Len(next(q)) |-> Append(q, next(q)[j])]
           A == Seq(Seq(S))
           Taken(a, k) == Concatenated([j \in 1..Len(a) |-> with(a[j])])
           Is(g) == g = [k \in 0..n |-> IF k = 0 THEN base ELSE Taken(g[k - 1], k)]
           step == [k \in 1..n |-> [a \in A |-> Taken(a, k)]]
           upto == CHOOSE g : Is(g)
<1>1. \A k \in 1..n, a \in A : Taken(a, k) \in A
  <2>1. ASSUME NEW q \in Seq(S) PROVE with(q) \in Seq(Seq(S))
    <3>1. next(q) \in Seq(S)
      BY KeptList DEF Keeping
    <3> HIDE DEF next
    <3> QED
      BY <3>1
  <2> HIDE DEF with
  <2>2. ASSUME NEW a \in A PROVE Concatenated([j \in 1..Len(a) |-> with(a[j])]) \in A
    <3> DEFINE lists == [j \in 1..Len(a) |-> with(a[j])]
    <3>1. Len(lists) = Len(a) /\ \A j \in 1..Len(a) : lists[j] \in Seq(Seq(S))
      BY <2>1
    <3> HIDE DEF lists
    <3>2. Concatenated(lists) \in Seq(Seq(S))
      BY <3>1, ConcatenatedList
    <3> QED
      BY <3>2 DEF lists
  <2> QED
    BY <2>2
<1>2. base \in A
  OBVIOUS
<1>3. Arrangements(list) = upto[n]
  BY DEF Arrangements
<1>0. n \in Nat
  OBVIOUS
<1> HIDE DEF A, Taken, base, n
<1>4. \E f \in [0..n -> A] : Is(f)
  <2>1. PICK f \in [0..n -> A] : RecursiveIn(f, n, base, step)
    BY <1>0, <1>1, <1>2, LoopsRun
  <2>2. f[0] = base /\ \A k \in 1..n : f[k] = Taken(f[k - 1], k)
    BY <1>0, <2>1 DEF RecursiveIn
  <2>3. Is(f)
    BY <2>2
  <2> QED
    BY <2>3
<1>5. Is(upto)
  BY <1>4
<1> HIDE DEF upto
<1>6. \A k \in 0..n : upto[k] \in A
  <2>1. upto[0] \in A /\ \A k \in 1..n : upto[k - 1] \in A => upto[k] \in A
    BY <1>0, <1>1, <1>2, <1>5
  <2> QED
    BY <1>0, <2>1, LoopsKeep
<1> QED
  BY <1>0, <1>3, <1>6 DEF A

-----------------------------------------------------------------------------
(* OS/2 DriveLink.                                                         *)

(* The orders that are tried have the things of the list.                  *)
LEMMA OrdersList ==
  ASSUME NEW S, NEW list \in Seq(S), NEW input
  PROVE  OrdersOf(list, input) \in Seq(Seq(S))
<1> DEFINE disk_ == Sorted(list, LAMBDA a, b : input[a].at < input[b].at)
<1>1. disk_ \in Seq(S)
  BY SortedList DEF Sorted
<1>2. Arrangements(list) \in Seq(Seq(S))
  BY ArrangementsList
<1>3. OrdersOf(list, input) = IF Len(list) > 7 THEN <<disk_>>
        ELSE Keeping(Arrangements(list), LAMBDA o : o = disk_ \/ Before(disk_, o))
  BY DEF OrdersOf
<1> HIDE DEF disk_
<1>4. Keeping(Arrangements(list), LAMBDA o : o = disk_ \/ Before(disk_, o)) \in Seq(Seq(S))
  BY <1>2, KeptList DEF Keeping
<1> QED
  BY <1>1, <1>3, <1>4

(* A trailer that is tried leaves something of every segment.              *)
LEMMA TrimsFit ==
  ASSUME NEW parts, Len(parts) \in Nat, NEW declared
  PROVE  /\ Len(TrimPlans(parts, declared)) \in Nat
         /\ \A p \in 1..Len(TrimPlans(parts, declared)) : \A i \in 1..Len(parts) :
              TrimPlans(parts, declared)[p][i] \in 0..parts[i].len - 1
<1> DEFINE n == Len(parts)
           over == LengthOf(parts) - declared
           share(s) == [i \in 1..n |-> IF i \notin s THEN 0
                          ELSE IF over % Cardinality(s) = 0 THEN over \div Cardinality(s) ELSE -1]
           one == [x \in 1..n |-> share({x})]
           equal == [m \in 1..Len(Masks(n)) |-> share(Masks(n)[m])]
           bases == Keeping(UsualTrailers, LAMBDA b : b * n =< over)
           back(k, x) == [i \in 1..n |-> bases[k] + (IF i = x THEN over - bases[k] * n ELSE 0)]
           usual == Concatenated([k \in 1..Len(bases) |-> [x \in 1..n |-> back(k, x)]])
           fits(plan) == \A i \in 1..n : plan[i] \in 0..parts[i].len - 1 /\ plan[i] % PartSector = 0
           plans == <<share({})>> \o (IF over % PartSector = 0
                                       THEN one \o (IF n =< 12 THEN equal ELSE <<>>) \o usual
                                       ELSE <<>>)
           P == {share(s) : s \in SUBSET (1..n)} \cup {back(k, x) : k \in 1..Len(bases), x \in 1..n}
           Fit == {plan \in P : fits(plan)}
<1>1. TrimPlans(parts, declared) = IF over < 0 THEN <<>> ELSE Keeping(plans, fits)
  BY DEF TrimPlans
<1>2. Len(bases) \in Nat
  <2>1. UsualTrailers \in Seq(Int)
    BY DEF UsualTrailers
  <2>2. bases \in Seq(Int)
    BY <2>1, KeptList DEF Keeping
  <2> QED
    BY <2>2
<1> HIDE DEF share, back, bases
<1>3. one \in Seq(P) /\ <<share({})>> \in Seq(P)
  <2>1. {} \in SUBSET (1..n) /\ \A x \in 1..n : {x} \in SUBSET (1..n)
    OBVIOUS
  <2> QED
    BY <2>1
<1>4. equal \in Seq(P)
  <2>1. Masks(n) \in Seq(SUBSET (1..n))
    BY MasksList
  <2> QED
    BY <2>1
<1>5. usual \in Seq(P)
  <2> DEFINE lists == [k \in 1..Len(bases) |-> [x \in 1..n |-> back(k, x)]]
  <2>1. Len(lists) \in Nat /\ \A k \in 1..Len(lists) : lists[k] \in Seq(P)
    BY <1>2
  <2> HIDE DEF lists, P
  <2>2. Concatenated(lists) \in Seq(P)
    BY <2>1, ConcatenatedList
  <2> QED
    BY <2>2 DEF lists
<1> HIDE DEF one, equal, usual, P
<1>6. plans \in Seq(P)
  BY <1>3, <1>4, <1>5
<1> HIDE DEF plans
<1>7. Keeping(plans, fits) \in Seq(Fit)
  BY <1>6, KeptList DEF Keeping
<1>8. TrimPlans(parts, declared) \in Seq(Fit)
  BY <1>1, <1>7
<1>9. \A plan \in Fit : \A i \in 1..n : plan[i] \in 0..parts[i].len - 1
  OBVIOUS
<1> HIDE DEF Fit
<1> QED
  BY <1>8, <1>9

(* What lies on a disk, and a partition whose parts do.                    *)
Extent(capacity) == {part \in [at : Nat, len : Nat] : part.at + part.len =< capacity}
Partitions(capacity) == [type : Nat, at : Nat, len : Nat, parts : Seq(Extent(capacity))]

(* What the JFS reader makes of a store is numbers.                        *)
LEMMA TypedTrees ==
  ASSUME NEW v, PartVolume(v), NEW parts \in DOMAIN v.trees
  PROVE  v.trees[parts].score \in Int /\ v.trees[parts].declared \in Nat
  BY DEF PartVolume

(* A segment less its trailer lies on the disk, and so does what is shown  *)
(* of it.                                                                  *)
LEMMA SegmentFits ==
  ASSUME NEW v, v.capacity \in Nat, NEW p \in Partitions(v.capacity),
         NEW trim \in 0..SegmentPart(v, p, 0).len - 1
  PROVE  SegmentPart(v, p, trim) \in Extent(v.capacity)
<1>1. p.at \in Nat /\ p.len \in Nat
  BY DEF Partitions
<1>2. SegmentPart(v, p, 0).len = Smaller(p.len, v.capacity - p.at) - 0
  BY DEF SegmentPart, Part
<1>3. Smaller(p.len, v.capacity - p.at) \in Int
  BY <1>1 DEF Smaller
<1>4. trim \in Nat /\ trim < Smaller(p.len, v.capacity - p.at)
  BY <1>2, <1>3
<1> QED
  BY <1>1, <1>4 DEF SegmentPart, Part, Extent, Smaller

(* Pieces of the disk that are cut to a size stay on the disk.             *)
LEMMA CutExtents ==
  ASSUME NEW capacity \in Nat, NEW parts \in Seq(Extent(capacity)), NEW size \in Int
  PROVE  CutTo(parts, size) \in Seq(Extent(capacity))
<1>1. Len(parts) \in Nat /\ \A i \in 1..Len(parts) : parts[i].at \in Nat /\ parts[i].len \in Nat
                                                    /\ parts[i].at + parts[i].len =< capacity
  BY DEF Extent
<1>2. /\ CutTo(parts, size) = [i \in 1..Len(parts) |-> CutTo(parts, size)[i]]
      /\ \A i \in 1..Len(parts) :
           \E len \in 0..parts[i].len : CutTo(parts, size)[i] = Part(parts[i].at, len)
  BY <1>1, CutParts
<1>3. ASSUME NEW i \in 1..Len(parts) PROVE CutTo(parts, size)[i] \in Extent(capacity)
  <2>1. PICK len \in 0..parts[i].len : CutTo(parts, size)[i] = Part(parts[i].at, len)
    BY <1>2
  <2> QED
    BY <1>1, <2>1 DEF Part, Extent
<1> QED
  BY <1>1, <1>2, <1>3, MadeOf

(* The stores that are tried lie on the disk.                              *)
LEMMA JoinedStoresFit ==
  ASSUME NEW v, PartVolume(v), NEW input \in Seq(Partitions(v.capacity)),
         NEW first \in 1..Len(input), NEW declared \in Nat
  PROVE  JoinedStores(v, input, first, declared) \in Seq(Seq(Extent(v.capacity)))
<1> DEFINE cap == v.capacity
           others == Keeping(Segments(input), LAMBDA i : i # first)
           orders == OrdersOf(others, input)
           store(order, plan) ==
             CutTo([i \in 1..Len(order) |-> SegmentPart(v, input[order[i]], plan[i])], declared)
           plans(order) ==
             TrimPlans([i \in 1..Len(order) |-> SegmentPart(v, input[order[i]], 0)], declared)
           joined(order) == [p \in 1..Len(plans(order)) |-> store(order, plans(order)[p])]
           lists == [i \in 1..Len(orders) |-> joined(<<first>> \o orders[i])]
           Places == 1..Len(input)
<1>1. JoinedStores(v, input, first, declared) = Concatenated(lists)
  BY DEF JoinedStores
<1>2. orders \in Seq(Seq(Places))
  <2>1. [i \in 1..Len(input) |-> i] \in Seq(Places)
    BY MadeOf
  <2>2. Segments(input) \in Seq(Places)
    BY <2>1, KeptList DEF Segments, Keeping
  <2>3. others \in Seq(Places)
    BY <2>2, KeptList DEF Keeping
  <2> HIDE DEF others, Places
  <2> QED
    BY <2>3, OrdersList
<1>3. cap \in Nat
  BY DEF PartVolume
<1>4. ASSUME NEW order \in Seq(Places) PROVE joined(order) \in Seq(Seq(Extent(cap)))
  <2> DEFINE whole == [i \in 1..Len(order) |-> SegmentPart(v, input[order[i]], 0)]
  <2>1. Len(order) \in Nat /\ Len(whole) = Len(order)
        /\ \A i \in 1..Len(order) : /\ input[order[i]] \in Partitions(cap)
                                    /\ whole[i] = SegmentPart(v, input[order[i]], 0)
    OBVIOUS
  <2>2. plans(order) = TrimPlans(whole, declared)
    OBVIOUS
  <2> HIDE DEF whole, plans
  <2>3. /\ Len(plans(order)) \in Nat
        /\ \A p \in 1..Len(plans(order)) : \A i \in 1..Len(order) :
             plans(order)[p][i] \in 0..whole[i].len - 1
    BY <2>1, <2>2, TrimsFit
  <2>4. ASSUME NEW p \in 1..Len(plans(order)) PROVE store(order, plans(order)[p]) \in Seq(Extent(cap))
    <3> DEFINE cut == [i \in 1..Len(order) |-> SegmentPart(v, input[order[i]], plans(order)[p][i])]
    <3>1. ASSUME NEW i \in 1..Len(order) PROVE cut[i] \in Extent(cap)
      <4>1. /\ plans(order)[p][i] \in 0..SegmentPart(v, input[order[i]], 0).len - 1
            /\ input[order[i]] \in Partitions(v.capacity)
        BY <2>1, <2>3
      <4> HIDE DEF plans
      <4>2. SegmentPart(v, input[order[i]], plans(order)[p][i]) \in Extent(v.capacity)
        BY <1>3, <4>1, SegmentFits
      <4> QED
        BY <4>2
    <3>2. cut = [i \in 1..Len(order) |-> cut[i]]
      OBVIOUS
    <3>3. store(order, plans(order)[p]) = CutTo(cut, declared)
      OBVIOUS
    <3> HIDE DEF cut, store, cap
    <3>4. cut \in Seq(Extent(cap))
      BY <2>1, <3>1, <3>2, MadeOf
    <3> QED
      BY <1>3, <3>3, <3>4, CutExtents
  <2> HIDE DEF store, cap
  <2> QED
    BY <2>3, <2>4
<1>5. Len(lists) \in Nat /\ \A i \in 1..Len(lists) : lists[i] \in Seq(Seq(Extent(cap)))
  <2> HIDE DEF orders, joined, cap
  <2>1. \A i \in 1..Len(orders) : <<first>> \o orders[i] \in Seq(Places)
    BY <1>2
  <2>2. Len(orders) \in Nat
    BY <1>2
  <2>3. Len(lists) = Len(orders) /\ \A i \in 1..Len(orders) : lists[i] = joined(<<first>> \o orders[i])
    BY <2>2
  <2> HIDE DEF Places, lists
  <2> QED
    BY <1>4, <2>1, <2>2, <2>3
<1> HIDE DEF lists
<1> QED
  BY <1>1, <1>5, ConcatenatedList

(* What the segments are joined to lies on the disk.                       *)
LEMMA JoiningFits ==
  ASSUME NEW v, PartVolume(v), NEW input \in Seq(Partitions(v.capacity)),
         NEW first \in Overflowing(v, input)
  PROVE  BestJoining(v, input, first) \in Seq(Extent(v.capacity))
<1>a. first \in 1..Len(input) /\ <<SegmentPart(v, input[first], 0)>> \in DOMAIN v.trees
  BY DEF Overflowing
<1> DEFINE alone == v.trees[<<SegmentPart(v, input[first], 0)>>]
           stores == JoinedStores(v, input, first, alone.declared)
           n == Len(stores)
           base == [score |-> alone.score, parts |-> <<>>]
           A == [score : Int, parts : Seq(Extent(v.capacity))]
           Taken(a, k) == Better(v, a, stores[k])
           Is(g) == g = [k \in 0..n |-> IF k = 0 THEN base ELSE Taken(g[k - 1], k)]
           step == [k \in 1..n |-> [a \in A |-> Taken(a, k)]]
           upto == CHOOSE g : Is(g)
<1>0. n \in Nat /\ \A k \in 1..n : stores[k] \in Seq(Extent(v.capacity))
  <2>1. alone.declared \in Nat
    BY <1>a, TypedTrees
  <2>2. stores \in Seq(Seq(Extent(v.capacity)))
    BY <1>a, <2>1, JoinedStoresFit
  <2> HIDE DEF stores
  <2> QED
    BY <2>2
<1> HIDE DEF stores
<1>1. \A k \in 1..n, a \in A : Taken(a, k) \in A
  <2>1. ASSUME NEW k \in 1..n, NEW a \in A PROVE Better(v, a, stores[k]) \in A
    <3>1. CASE stores[k] \in DOMAIN v.trees
      <4>1. v.trees[stores[k]].score \in Int
        BY <3>1, TypedTrees
      <4> QED
        BY <1>0, <4>1 DEF Better
    <3>2. CASE stores[k] \notin DOMAIN v.trees
      BY <3>2 DEF Better
    <3> QED
      BY <3>1, <3>2
  <2> QED
    BY <2>1
<1>2. base \in A
  <2>1. alone.score \in Int
    BY <1>a, TypedTrees
  <2> QED
    BY <2>1
<1>3. BestJoining(v, input, first) = upto[n].parts
  BY DEF BestJoining, stores
<1> HIDE DEF A, Taken, base, n
<1>4. \E f \in [0..n -> A] : Is(f)
  <2>1. PICK f \in [0..n -> A] : RecursiveIn(f, n, base, step)
    BY <1>0, <1>1, <1>2, LoopsRun
  <2>2. f[0] = base /\ \A k \in 1..n : f[k] = Taken(f[k - 1], k)
    BY <1>0, <2>1 DEF RecursiveIn
  <2>3. Is(f)
    BY <2>2
  <2> QED
    BY <2>3
<1>5. Is(upto)
  BY <1>4
<1> HIDE DEF upto
<1>6. \A k \in 0..n : upto[k] \in A
  <2>1. upto[0] \in A /\ \A k \in 1..n : upto[k - 1] \in A => upto[k] \in A
    BY <1>0, <1>1, <1>2, <1>5
  <2> QED
    BY <1>0, <2>1, LoopsKeep
<1> QED
  BY <1>0, <1>3, <1>6 DEF A

(* What the disk shows of its segments lies on it.                         *)
LEMMA AssembledFit ==
  ASSUME NEW v, PartVolume(v), NEW input \in Seq(Partitions(v.capacity))
  PROVE  Assembled(v, input) \in Seq(Partitions(v.capacity))
<1> DEFINE joinings == [i \in Overflowing(v, input) |-> BestJoining(v, input, i)]
           heads == {i \in DOMAIN joinings : joinings[i] # <<>>}
           first == CHOOSE i \in heads : \A j \in heads : i =< j
           joined == [type |-> 53, at |-> input[first].at, len |-> LengthOf(joinings[first]),
                      parts |-> joinings[first]]
           others == Keeping(input, LAMBDA p : p.type # 53)
           all == Append(others, joined)
<1>1. /\ Overflowing(v, input) \subseteq 1..Len(input)
      /\ \A i \in Overflowing(v, input) : joinings[i] \in Seq(Extent(v.capacity))
  BY JoiningFits DEF Overflowing
<1>2. JoinedFrom(input, joinings) = IF heads = {} THEN input ELSE Sorted(all, LAMBDA a, b : a.at < b.at)
  BY DEF JoinedFrom
<1>3. others \in Seq(Partitions(v.capacity))
  BY KeptList DEF Keeping
<1>4. ASSUME heads # {} PROVE joined \in Partitions(v.capacity)
  <2>1. first \in heads
    <3>1. heads \in SUBSET Nat
      BY <1>1
    <3> HIDE DEF heads
    <3> QED
      BY <1>4, <3>1, LeastElement
  <2>2. joinings[first] \in Seq(Extent(v.capacity)) /\ first \in 1..Len(input)
    BY <1>1, <2>1
  <2> HIDE DEF joinings, first
  <2>3. LengthOf(joinings[first]) \in Nat
    <3>1. Len(joinings[first]) \in Nat
          /\ \A i \in 1..Len(joinings[first]) : joinings[first][i].len \in Nat
      BY <2>2 DEF Extent
    <3> QED
      BY <3>1, PartsAdd
  <2>4. input[first].at \in Nat
    <3>1. input[first] \in Partitions(v.capacity)
      BY <2>2
    <3> QED
      BY <3>1 DEF Partitions
  <2> QED
    BY <2>2, <2>3, <2>4 DEF Partitions
<1> HIDE DEF heads, joined, others, joinings
<1>5. ASSUME heads # {} PROVE Sorted(all, LAMBDA a, b : a.at < b.at) \in Seq(Partitions(v.capacity))
  <2>1. all \in Seq(Partitions(v.capacity))
    BY <1>3, <1>4, <1>5
  <2> HIDE DEF all
  <2> QED
    BY <2>1, SortedList DEF Sorted
<1>6. JoinedFrom(input, joinings) \in Seq(Partitions(v.capacity))
  BY <1>2, <1>5
<1> QED
  BY <1>6 DEF Assembled, joinings

-----------------------------------------------------------------------------
(* Partitions.                                                             *)

(* One that ends where the disk does, or before.                           *)
LEMMA PartitionFits ==
  ASSUME NEW capacity \in Nat, NEW type \in Nat, NEW at \in Nat, NEW len \in Nat, at + len =< capacity
  PROVE  Partition(type, at, len) \in Partitions(capacity)
<1>1. Part(at, len) \in Extent(capacity)
  BY DEF Part, Extent
<1> QED
  BY <1>1 DEF Partition, Partitions

(* A volume recovered from its superblock ends with the disk at most.      *)
LEMMA RecoveredFits ==
  ASSUME NEW v, PartVolume(v), NEW at \in Int, NEW stated \in Int,
         NEW out \in Seq(Partitions(v.capacity))
  PROVE  Recovered(v, at, stated, out) \in Seq(Partitions(v.capacity))
<1> DEFINE available == v.capacity - at
           room == IF stated =< 0 \/ stated > available THEN available ELSE stated
           supers == JfsSupersIn(v, at, room)
           bytes == v.jfs[at + supers[1]]
           len == IF bytes \in 61472..available THEN bytes ELSE room
           p == Partition(Untyped, at, len)
           meets == {i \in 1..Len(out) : p.at < out[i].at + out[i].len /\ out[i].at < p.at + p.len}
           i == CHOOSE i \in meets : \A j \in meets : i =< j
<1>1. Recovered(v, at, stated, out) =
        IF at < 0 \/ at >= v.capacity \/ supers = <<>> THEN out
        ELSE IF meets = {} THEN Append(out, p)
        ELSE IF p.at < out[i].at THEN [out EXCEPT ![i] = p] ELSE out
  BY DEF Recovered
<1> HIDE DEF supers, bytes, meets, i
<1>2. ASSUME at >= 0, at < v.capacity PROVE p \in Partitions(v.capacity)
  <2>1. v.capacity \in Nat
    BY DEF PartVolume
  <2>2. len \in Nat /\ at + len =< v.capacity
    BY <1>2, <2>1
  <2>3. Untyped \in Nat
    BY DEF Untyped
  <2> HIDE DEF len
  <2> QED
    BY <1>2, <2>1, <2>2, <2>3, PartitionFits
<1> HIDE DEF p
<1>3. v.capacity \in Nat
  BY DEF PartVolume
<1>4. ASSUME p \in Partitions(v.capacity)
      PROVE  /\ Append(out, p) \in Seq(Partitions(v.capacity))
             /\ [out EXCEPT ![i] = p] \in Seq(Partitions(v.capacity))
  <2> DEFINE P == Partitions(v.capacity)
             changed == [out EXCEPT ![i] = p]
  <2> HIDE DEF P
  <2>1. p \in P /\ out \in Seq(P)
    BY <1>4 DEF P
  <2>2. changed = [k \in 1..Len(out) |-> changed[k]] /\ \A k \in 1..Len(out) : changed[k] \in P
    BY <2>1
  <2> HIDE DEF changed
  <2>3. changed \in Seq(P)
    BY <2>1, <2>2, MadeOf
  <2>4. Append(out, p) \in Seq(P)
    BY <2>1
  <2> QED
    BY <2>3, <2>4 DEF P, changed
<1>5. at < 0 \/ at >= v.capacity \/ (at >= 0 /\ at < v.capacity)
  BY <1>3
<1> QED
  BY <1>1, <1>2, <1>4, <1>5

(* What the loops of recoverJfsPartitions() find.                          *)
ToldOf(v) ==
  LET told[n \in 0..Len(v.sector0)] ==
        IF n = 0 THEN <<>> ELSE RecoverEntry(v, told[n - 1], v.sector0[n])
  IN  told[Len(v.sector0)]
FoundOf(v, starts) ==
  LET found[n \in 0..Len(starts)] == IF n = 0 THEN <<>> ELSE RecoverStart(v, found[n - 1], starts[n])
  IN  found[Len(starts)]

(* The partitions the four entries of the first sector tell of, tried one  *)
(* after the other as RecoverEntry does, lie on the disk.                  *)
LEMMA ToldFits ==
  ASSUME NEW v, PartVolume(v)
  PROVE  ToldOf(v) \in Seq(Partitions(v.capacity))
<1> DEFINE n == Len(v.sector0)
           A == Seq(Partitions(v.capacity))
           Taken(a, k) == RecoverEntry(v, a, v.sector0[k])
           Is(g) == g = [k \in 0..n |-> IF k = 0 THEN <<>> ELSE Taken(g[k - 1], k)]
           step == [k \in 1..n |-> [a \in A |-> Taken(a, k)]]
           upto == CHOOSE g : Is(g)
<1>0. n \in Nat /\ \A k \in 1..n : v.sector0[k] \in MbrEntry
  BY DEF PartVolume
<1>1. \A k \in 1..n, a \in A : Taken(a, k) \in A
  <2>1. ASSUME NEW k \in 1..n, NEW a \in A PROVE RecoverEntry(v, a, v.sector0[k]) \in A
    <3> DEFINE e == v.sector0[k]
    <3>1. e.start * PartSector \in Int /\ e.count * PartSector \in Int
      BY <1>0 DEF MbrEntry, PartSector
    <3> HIDE DEF e
    <3>2. Recovered(v, e.start * PartSector, e.count * PartSector, a) \in A
      BY <3>1, RecoveredFits
    <3>3. RecoverEntry(v, a, e) \in A
      BY <3>2 DEF RecoverEntry
    <3> QED
      BY <3>3 DEF e
  <2> QED
    BY <2>1
<1>2. <<>> \in A
  OBVIOUS
<1> HIDE DEF A, Taken, n
<1>4. \E f \in [0..n -> A] : Is(f)
  <2>1. PICK f \in [0..n -> A] : RecursiveIn(f, n, <<>>, step)
    BY <1>0, <1>1, <1>2, LoopsRun
  <2>2. f[0] = <<>> /\ \A k \in 1..n : f[k] = Taken(f[k - 1], k)
    BY <1>0, <2>1 DEF RecursiveIn
  <2>3. Is(f)
    BY <2>2
  <2> QED
    BY <2>3
<1>5. Is(upto)
  BY <1>4
<1> HIDE DEF upto
<1>6. \A k \in 0..n : upto[k] \in A
  <2>1. upto[0] \in A /\ \A k \in 1..n : upto[k - 1] \in A => upto[k] \in A
    BY <1>0, <1>1, <1>2, <1>5
  <2> QED
    BY <1>0, <2>1, LoopsKeep
<1>7. ToldOf(v) = upto[n]
  BY DEF ToldOf, upto, n, Taken
<1> QED
  BY <1>0, <1>6, <1>7 DEF A

(* So do those found at the starts that a scan of the disk gives.          *)
LEMMA FoundFits ==
  ASSUME NEW v, PartVolume(v), NEW starts \in Seq(Int)
  PROVE  FoundOf(v, starts) \in Seq(Partitions(v.capacity))
<1> DEFINE n == Len(starts)
           A == Seq(Partitions(v.capacity))
           Taken(a, k) == RecoverStart(v, a, starts[k])
           Is(g) == g = [k \in 0..n |-> IF k = 0 THEN <<>> ELSE Taken(g[k - 1], k)]
           step == [k \in 1..n |-> [a \in A |-> Taken(a, k)]]
           upto == CHOOSE g : Is(g)
<1>0. n \in Nat /\ \A k \in 1..n : starts[k] \in Int
  OBVIOUS
<1>1. \A k \in 1..n, a \in A : Taken(a, k) \in A
  <2>1. ASSUME NEW k \in 1..n, NEW a \in A PROVE RecoverStart(v, a, starts[k]) \in A
    <3>1. starts[k] \in Int /\ v.capacity - starts[k] \in Int
      BY <1>0 DEF PartVolume
    <3>2. Recovered(v, starts[k], v.capacity - starts[k], a) \in A
      BY <3>1, RecoveredFits
    <3> QED
      BY <3>2 DEF RecoverStart
  <2> QED
    BY <2>1
<1>2. <<>> \in A
  OBVIOUS
<1> HIDE DEF A, Taken, n
<1>4. \E f \in [0..n -> A] : Is(f)
  <2>1. PICK f \in [0..n -> A] : RecursiveIn(f, n, <<>>, step)
    BY <1>0, <1>1, <1>2, LoopsRun
  <2>2. f[0] = <<>> /\ \A k \in 1..n : f[k] = Taken(f[k - 1], k)
    BY <1>0, <2>1 DEF RecursiveIn
  <2>3. Is(f)
    BY <2>2
  <2> QED
    BY <2>3
<1>5. Is(upto)
  BY <1>4
<1> HIDE DEF upto
<1>6. \A k \in 0..n : upto[k] \in A
  <2>1. upto[0] \in A /\ \A k \in 1..n : upto[k - 1] \in A => upto[k] \in A
    BY <1>0, <1>1, <1>2, <1>5
  <2> QED
    BY <1>0, <2>1, LoopsKeep
<1>7. FoundOf(v, starts) = upto[n]
  BY DEF FoundOf, upto, n, Taken
<1> QED
  BY <1>0, <1>6, <1>7 DEF A

(* What is recovered without a table lies on the disk.                     *)
LEMMA RecoveredAllFits ==
  ASSUME NEW v, PartVolume(v)
  PROVE  RecoveredAll(v) \in Seq(Partitions(v.capacity))
<1> DEFINE scanned == {a \in DOMAIN v.jfs : a + 4 =< ScanLimit(v)}
           magics == Sorted(SetToSeq(scanned), LAMBDA a, b : a < b)
           pairs == [i \in 1..Len(magics) |-> <<magics[i] - 32768, magics[i] - 61440>>]
           starts == Concatenated(pairs)
<1>1. RecoveredAll(v) = IF v.capacity < 32800 THEN <<>>
                        ELSE IF ToldOf(v) # <<>> THEN ToldOf(v) ELSE FoundOf(v, starts)
  BY DEF RecoveredAll, ToldOf, FoundOf
<1>2. magics \in Seq(Int)
  <2>1. scanned \subseteq Int /\ IsFiniteSet(scanned)
    <3>1. DOMAIN v.jfs \subseteq Int /\ IsFiniteSet(DOMAIN v.jfs) /\ scanned \subseteq DOMAIN v.jfs
      BY DEF PartVolume
    <3> QED
      BY <3>1, FS_Subset
  <2> HIDE DEF scanned
  <2>2. SetToSeq(scanned) \in Seq(scanned)
    BY <2>1, SetInList
  <2>3. SetToSeq(scanned) \in Seq(Int)
    <3>1. ASSUME NEW S, S \subseteq Int, NEW q \in Seq(S) PROVE q \in Seq(Int)
      <4>1. Len(q) \in Nat /\ q \in [1..Len(q) -> S]
        OBVIOUS
      <4>2. q \in [1..Len(q) -> Int]
        BY <3>1, <4>1
      <4> QED
        BY <4>1, <4>2
    <3> QED
      BY <2>1, <2>2, <3>1
  <2> QED
    BY <2>3, SortedList DEF Sorted
<1> HIDE DEF magics
<1>3. Len(pairs) \in Nat /\ \A i \in 1..Len(pairs) : pairs[i] \in Seq(Int)
  BY <1>2
<1> HIDE DEF pairs
<1>4. starts \in Seq(Int)
  BY <1>3, ConcatenatedList
<1> HIDE DEF starts
<1>5. /\ ToldOf(v) \in Seq(Partitions(v.capacity))
      /\ FoundOf(v, starts) \in Seq(Partitions(v.capacity))
  BY <1>4, ToldFits, FoundFits
<1> DEFINE P == Seq(Partitions(v.capacity))
<1>6. <<>> \in P /\ ToldOf(v) \in P /\ FoundOf(v, starts) \in P
  BY <1>5
<1> HIDE DEF P
<1>7. RecoveredAll(v) \in P
  <2>1. CASE v.capacity < 32800
    BY <1>1, <1>6, <2>1
  <2>2. CASE ~(v.capacity < 32800) /\ ToldOf(v) # <<>>
    BY <1>1, <1>6, <2>2
  <2>3. CASE ~(v.capacity < 32800) /\ ToldOf(v) = <<>>
    BY <1>1, <1>6, <2>3
  <2> QED
    BY <2>1, <2>2, <2>3
<1> QED
  BY <1>7 DEF P

(* What GPT and the Apple map list lies on the disk.                       *)
LEMMA GptFits ==
  ASSUME NEW v, PartVolume(v)
  PROVE  GptPartitions(v) \in Seq(Partitions(v.capacity))
<1> DEFINE Entries_ == [type : STRING, first : Nat, last : Nat]
           Used == {e \in Entries_ :
                      e.first =< e.last /\ v.gpt.first =< e.first /\ e.last =< v.gpt.last}
           used == Keeping(v.gpt.entries, LAMBDA e :
                     /\ e.type # "" /\ e.first =< e.last
                     /\ v.gpt.first =< e.first /\ e.last =< v.gpt.last)
           list == [i \in 1..Len(used) |->
                     Partition(Untyped, used[i].first * PartSector,
                               (used[i].last - used[i].first + 1) * PartSector)]
<1>1. GptPartitions(v) = IF ~(GptBounds(v) /\ GptTableFits(v)) THEN <<>> ELSE list
  BY DEF GptPartitions
<1>2. ASSUME GptBounds(v) PROVE list \in Seq(Partitions(v.capacity))
  <2>1. /\ v.gpt.entries \in Seq(Entries_) /\ v.capacity \in Nat
        /\ v.gpt.last \in Nat /\ v.gpt.last < v.capacity \div 512
    <3>1. v.gpt.signed /\ v.gpt.last < PartSectors(v)
      BY <1>2 DEF GptBounds
    <3> QED
      BY <3>1 DEF PartVolume, PartSectors, PartSector
  <2>2. used \in Seq(Used)
    <3> DEFINE s == v.gpt.entries
               places == {i \in 1..Len(s) : /\ s[i].type # "" /\ s[i].first =< s[i].last
                                            /\ v.gpt.first =< s[i].first /\ s[i].last =< v.gpt.last}
    <3>1. used = Kept(s, places)
      BY DEF Keeping
    <3>2. Len(s) \in Nat
      BY <2>1
    <3>3. ASSUME NEW i \in 1..Len(s), i \in places PROVE s[i] \in Used
      <4> HIDE DEF Entries_
      <4>1. s[i] \in Entries_
        BY <2>1
      <4> QED
        BY <3>3, <4>1
    <3> HIDE DEF s, places, used, Used
    <3>4. Kept(s, places) \in Seq(Used)
      BY <3>2, <3>3, KeptList
    <3> QED
      BY <3>1, <3>4
  <2> HIDE DEF used
  <2>3. ASSUME NEW i \in 1..Len(used) PROVE list[i] \in Partitions(v.capacity)
    <3>1. used[i] \in Used
      BY <2>2
    <3>2. used[i].first \in Nat /\ used[i].last \in Nat /\ used[i].first =< used[i].last
          /\ used[i].last =< v.gpt.last
      BY <3>1
    <3> DEFINE first == used[i].first
               last == used[i].last
    <3> HIDE DEF first, last
    <3>3. first \in Nat /\ last \in Nat /\ first =< last /\ last < v.capacity \div 512
      BY <2>1, <3>2 DEF first, last
    <3>4. first * 512 \in Nat /\ (last - first + 1) * 512 \in Nat
          /\ first * 512 + (last - first + 1) * 512 =< v.capacity
      BY <2>1, <3>3
    <3>5. Partition(Untyped, first * 512, (last - first + 1) * 512) \in Partitions(v.capacity)
      BY <2>1, <3>4, PartitionFits DEF Untyped
    <3> QED
      BY <3>5 DEF first, last, PartSector
  <2>4. Len(used) \in Nat /\ list = [i \in 1..Len(used) |-> list[i]]
    BY <2>2
  <2> HIDE DEF list
  <2> QED
    BY <2>3, <2>4, MadeOf
<1> HIDE DEF list
<1>3. CASE GptBounds(v) /\ GptTableFits(v)
  BY <1>1, <1>2, <1>3
<1>4. CASE ~(GptBounds(v) /\ GptTableFits(v))
  <2>1. GptPartitions(v) = <<>>
    BY <1>1, <1>4
  <2> QED
    BY <2>1
<1> QED
  BY <1>3, <1>4

(* Each partition of the Apple map passed the comparison with the capacity *)
(* before it was listed.                                                   *)
LEMMA ApmFits ==
  ASSUME NEW v, PartVolume(v)
  PROVE  ApmPartitions(v) \in Seq(Partitions(v.capacity))
<1> DEFINE Entries_ == [signed : BOOLEAN, type : STRING, start : Nat, count : Nat]
           Used == {e \in Entries_ : /\ e.start * PartSector < v.capacity
                                     /\ e.count * PartSector =< v.capacity - e.start * PartSector}
           used == Keeping(v.apm.entries, LAMBDA e :
                     /\ e.signed /\ e.count # 0 /\ e.start * PartSector < v.capacity
                     /\ e.count * PartSector =< v.capacity - e.start * PartSector)
           many == Len(v.apm.entries) \notin 1..4095
           list == [i \in 1..Len(used) |->
                     Partition(Untyped, used[i].start * PartSector, used[i].count * PartSector)]
<1>1. ApmPartitions(v) = IF ~v.apm.signed \/ many THEN <<>> ELSE list
  BY DEF ApmPartitions
<1>2. ASSUME v.apm.signed PROVE list \in Seq(Partitions(v.capacity))
  <2>1. v.apm.entries \in Seq(Entries_) /\ v.capacity \in Nat
    BY <1>2 DEF PartVolume
  <2>2. used \in Seq(Used)
    <3> DEFINE s == v.apm.entries
               places == {i \in 1..Len(s) :
                            /\ s[i].signed /\ s[i].count # 0 /\ s[i].start * PartSector < v.capacity
                            /\ s[i].count * PartSector =< v.capacity - s[i].start * PartSector}
    <3>1. used = Kept(s, places)
      BY DEF Keeping
    <3>2. Len(s) \in Nat
      BY <2>1
    <3>3. ASSUME NEW i \in 1..Len(s), i \in places PROVE s[i] \in Used
      <4> HIDE DEF Entries_
      <4>1. s[i] \in Entries_
        BY <2>1
      <4> QED
        BY <3>3, <4>1
    <3> HIDE DEF s, places, used, Used
    <3>4. Kept(s, places) \in Seq(Used)
      BY <3>2, <3>3, KeptList
    <3> QED
      BY <3>1, <3>4
  <2> HIDE DEF used
  <2>3. ASSUME NEW i \in 1..Len(used) PROVE list[i] \in Partitions(v.capacity)
    <3>1. used[i] \in Used
      BY <2>2
    <3> DEFINE start == used[i].start
               count == used[i].count
    <3>2. start \in Nat /\ count \in Nat /\ count * 512 =< v.capacity - start * 512
      BY <3>1 DEF PartSector
    <3> HIDE DEF start, count
    <3>3. start * 512 \in Nat /\ count * 512 \in Nat /\ start * 512 + count * 512 =< v.capacity
      BY <2>1, <3>2
    <3>4. Partition(Untyped, start * 512, count * 512) \in Partitions(v.capacity)
      BY <2>1, <3>3, PartitionFits DEF Untyped
    <3> QED
      BY <3>4 DEF start, count, PartSector
  <2>4. Len(used) \in Nat /\ list = [i \in 1..Len(used) |-> list[i]]
    BY <2>2
  <2> HIDE DEF list
  <2> QED
    BY <2>3, <2>4, MadeOf
<1> HIDE DEF list, many
<1>3. CASE v.apm.signed /\ ~many
  BY <1>1, <1>2, <1>3
<1>4. CASE ~(v.apm.signed /\ ~many)
  <2>1. ApmPartitions(v) = <<>>
    BY <1>1, <1>4
  <2> QED
    BY <2>1
<1> QED
  BY <1>3, <1>4

-----------------------------------------------------------------------------
(* The MBR.                                                                *)

TableItem == [what : {"table"}, base : Nat, chain : Nat, depth : Nat]
EntryItem == [what : {"entry"}, base : Nat, entry : MbrEntry, chain : Nat, depth : Nat]

(* A walk over tables and entries that found what lies on the disk.        *)
MbrWalk(v, w) ==
  /\ IsWalk(w)
  /\ w.todo \in Seq(TableItem \cup EntryItem) /\ w.out \in Seq(Partitions(v.capacity))

(* A turn that goes on with something else.                                *)
LEMMA WalkGoesOn ==
  ASSUME NEW w, IsWalk(w), NEW t
  PROVE  /\ IsWalk([w EXCEPT !.todo = t]) /\ [w EXCEPT !.todo = t].todo = t
         /\ [w EXCEPT !.todo = t].out = w.out
<1>1. PICK a, b, c, d : w = [todo |-> a, seen |-> b, out |-> c, ok |-> d]
  BY DEF IsWalk
<1>2. [w EXCEPT !.todo = t] = [todo |-> t, seen |-> b, out |-> c, ok |-> d] /\ w.out = c
  BY <1>1
<1> QED
  BY <1>2 DEF IsWalk

(* A partition of the MBR ends where the disk does, or is dropped, or cut. *)
LEMMA MbrPartitionFits ==
  ASSUME NEW v, PartVolume(v), NEW item \in EntryItem
  PROVE  MbrPartition(v, item, item.entry) \in Seq(Partitions(v.capacity))
<1> DEFINE e == item.entry
           start == item.base + e.start
           left == PartSectors(v) - start
           count == IF e.count > left /\ e.type = 53 THEN left ELSE e.count
           odd == ~Plausible(v, e.type, start * PartSector, count * PartSector)
           one == <<Partition(e.type, start * PartSector, count * PartSector)>>
<1>1. item.base \in Nat /\ e \in MbrEntry
  BY DEF EntryItem
<1>2. e.type \in Nat /\ e.start \in Nat /\ e.count \in Nat
  BY <1>1 DEF MbrEntry
<1>3. v.capacity \in Nat /\ PartSectors(v) = v.capacity \div 512
  BY DEF PartVolume, PartSectors, PartSector
<1>4. MbrPartition(v, item, e) =
        IF start >= PartSectors(v) \/ count > left \/ odd THEN <<>> ELSE one
  BY DEF MbrPartition
<1>5. ASSUME start < PartSectors(v), ~(count > left)
      PROVE  Partition(e.type, start * 512, count * 512) \in Partitions(v.capacity)
  <2>1. start \in Nat /\ start < v.capacity \div 512 /\ left = v.capacity \div 512 - start
    BY <1>1, <1>2, <1>3, <1>5
  <2>2. count \in Nat /\ count =< v.capacity \div 512 - start
    BY <1>2, <1>3, <1>5, <2>1
  <2> HIDE DEF start, count, left
  <2>3. start * 512 \in Nat /\ count * 512 \in Nat /\ start * 512 + count * 512 =< v.capacity
    BY <1>3, <2>1, <2>2
  <2> HIDE DEF e
  <2> QED
    BY <1>2, <1>3, <2>3, PartitionFits
<1>6. start \in Int /\ PartSectors(v) \in Int /\ count \in Int /\ left \in Int
  BY <1>1, <1>2, <1>3
<1> HIDE DEF start, count, left, odd
<1>7. CASE start < PartSectors(v) /\ ~(count > left) /\ ~odd
  <2>1. one \in Seq(Partitions(v.capacity))
    BY <1>5, <1>7 DEF PartSector
  <2>2. MbrPartition(v, item, e) = one
    BY <1>4, <1>6, <1>7
  <2> QED
    BY <2>1, <2>2
<1>8. CASE ~(start < PartSectors(v) /\ ~(count > left) /\ ~odd)
  <2>1. MbrPartition(v, item, e) = <<>>
    BY <1>4, <1>6, <1>8
  <2> QED
    BY <2>1
<1> QED
  BY <1>7, <1>8

(* A turn of readMbr().                                                    *)
LEMMA MbrTurnKeeps ==
  ASSUME NEW v, PartVolume(v), NEW w, MbrWalk(v, w), w.todo # <<>>
  PROVE  MbrWalk(v, MbrTurn(v, w))
<1> DEFINE Items == TableItem \cup EntryItem
           item == Head(w.todo)
           left == Tail(w.todo)
           table == At(v.tables, item.base, <<>>)
           entries == [i \in 1..Len(table) |-> [what |-> "entry", base |-> item.base, entry |-> table[i],
                                                chain |-> item.chain, depth |-> item.depth]]
           e == item.entry
           P == Seq(Partitions(v.capacity))
<1>1. IsWalk(w) /\ w.todo \in Seq(Items) /\ w.out \in P
  BY DEF MbrWalk
<1>2. item \in Items /\ left \in Seq(Items)
  <2> HIDE DEF Items
  <2> QED
    BY <1>1
<1>3. MbrTurn(v, w) =
        IF item.what = "table"
        THEN IF item.depth > 64 \/ item.base >= PartSectors(v) \/ item.base \in w.seen THEN Skipped(w)
             ELSE Visited(w, item.base, entries)
        ELSE IF ~MbrUsable(e) THEN Skipped(w)
        ELSE IF e.type \in Extended THEN [w EXCEPT !.todo = MbrLink(v, item, e) \o Tail(w.todo)]
        ELSE Gather(Skipped(w), MbrPartition(v, item, e))
  BY DEF MbrTurn
<1>4. /\ item.what = "table" => item \in TableItem
      /\ item.what # "table" => item \in EntryItem
  BY <1>2 DEF TableItem, EntryItem
<1>5. item.base \in Nat /\ item.chain \in Nat /\ item.depth \in Nat
  BY <1>2 DEF TableItem, EntryItem
<1> HIDE DEF item, left
<1>6. MbrWalk(v, Skipped(w))
  <2>1. IsWalk(Skipped(w)) /\ Skipped(w).todo = left /\ Skipped(w).out = w.out
    BY <1>1, WalkGoesOn DEF Skipped, left
  <2> QED
    BY <1>1, <1>2, <2>1 DEF MbrWalk
<1>7. MbrWalk(v, Visited(w, item.base, entries))
  <2>1. table \in Seq(MbrEntry)
    BY DEF At, PartVolume
  <2> HIDE DEF table
  <2>2. entries \in Seq(EntryItem)
    <3>1. \A i \in 1..Len(table) : entries[i] \in EntryItem
      BY <1>5, <2>1 DEF EntryItem
    <3>2. Len(table) \in Nat /\ entries = [i \in 1..Len(table) |-> entries[i]]
      BY <2>1
    <3> HIDE DEF entries
    <3> QED
      BY <3>1, <3>2, MadeOf
  <2> HIDE DEF entries
  <2>3. entries \o left \in Seq(Items)
    <3>1. entries \in Seq(Items)
      BY <2>2
    <3> HIDE DEF Items
    <3> QED
      BY <1>2, <3>1
  <2>4. /\ IsWalk(Visited(w, item.base, entries)) /\ Visited(w, item.base, entries).out = w.out
        /\ Visited(w, item.base, entries).todo = entries \o left
    BY <1>1, WalkVisits DEF left
  <2> QED
    BY <1>1, <2>3, <2>4 DEF MbrWalk
<1>8. ASSUME item \in EntryItem PROVE MbrWalk(v, [w EXCEPT !.todo = MbrLink(v, item, e) \o Tail(w.todo)])
  <2>1. MbrLink(v, item, e) \in Seq(TableItem)
    <3> DEFINE next == item.chain + e.start
               chain == IF item.chain = 0 THEN next ELSE item.chain
    <3>1. e.start \in Nat
      BY <1>8 DEF EntryItem, MbrEntry
    <3>2. next \in Nat /\ chain \in Nat /\ item.depth + 1 \in Nat
      BY <1>5, <3>1
    <3>3. MbrLink(v, item, e) = IF next \in 1..PartSectors(v) - 1
                                THEN <<PartTable(next, chain, item.depth + 1)>> ELSE <<>>
      BY DEF MbrLink
    <3> HIDE DEF next, chain
    <3>4. PartTable(next, chain, item.depth + 1) \in TableItem
      BY <3>2 DEF PartTable, TableItem
    <3> QED
      BY <3>3, <3>4
  <2>2. MbrLink(v, item, e) \o left \in Seq(Items)
    <3>1. MbrLink(v, item, e) \in Seq(Items)
      BY <2>1
    <3> HIDE DEF Items, e
    <3> QED
      BY <1>2, <3>1
  <2> DEFINE t == MbrLink(v, item, e) \o Tail(w.todo)
  <2>3. t \in Seq(Items)
    BY <2>2 DEF left
  <2> HIDE DEF t
  <2>4. IsWalk([w EXCEPT !.todo = t]) /\ [w EXCEPT !.todo = t].todo = t /\ [w EXCEPT !.todo = t].out = w.out
    BY <1>1, WalkGoesOn
  <2>5. MbrWalk(v, [w EXCEPT !.todo = t])
    BY <1>1, <2>3, <2>4 DEF MbrWalk
  <2> QED
    BY <2>5 DEF t
<1>9. ASSUME item \in EntryItem PROVE MbrWalk(v, Gather(Skipped(w), MbrPartition(v, item, e)))
  <2> DEFINE more == MbrPartition(v, item, e)
             next == Skipped(w)
  <2>1. more \in P
    BY <1>9, MbrPartitionFits
  <2>2. IsWalk(next) /\ next.out \in P /\ next.todo \in Seq(Items)
    BY <1>6 DEF MbrWalk
  <2> HIDE DEF more, next
  <2>3. IsWalk(Gather(next, more)) /\ Gather(next, more).out = next.out \o more
        /\ Gather(next, more).todo = next.todo
    BY <2>2, WalkGathers
  <2>4. next.out \o more \in P
    BY <2>1, <2>2
  <2>5. MbrWalk(v, Gather(next, more))
    BY <2>2, <2>3, <2>4 DEF MbrWalk
  <2> QED
    BY <2>5 DEF more, next
<1> HIDE DEF e, entries
<1> QED
  BY <1>3, <1>4, <1>6, <1>7, <1>8, <1>9

(* What is read before the walk over the MBR, and made of it behind.       *)
LEMMA PartStarts ==
  ASSUME NEW v, PartVolume(v)
  PROVE  MbrWalk(v, PartStart(v))
<1> DEFINE found(ps) == [Gather(Walk(<<>>), ps) EXCEPT !.seen = Settled]
           P == Seq(Partitions(v.capacity))
<1>1. ASSUME NEW ps \in P PROVE MbrWalk(v, found(ps))
  <2> DEFINE g == Gather(Walk(<<>>), ps)
  <2>1. IsWalk(Walk(<<>>)) /\ Walk(<<>>).out = <<>> /\ Walk(<<>>).todo = <<>>
    BY DEF Walk, IsWalk
  <2>2. IsWalk(g) /\ g.out = <<>> \o ps /\ g.todo = <<>>
    BY <2>1, WalkGathers
  <2>3. <<>> \o ps = ps
    BY <1>1
  <2>5. found(ps) = [g EXCEPT !.seen = Settled]
    OBVIOUS
  <2> HIDE DEF found, g
  <2>6. PICK a, b, c, d : g = [todo |-> a, seen |-> b, out |-> c, ok |-> d]
    BY <2>2 DEF IsWalk
  <2>7. found(ps) = [todo |-> a, seen |-> Settled, out |-> c, ok |-> d] /\ g.out = c /\ g.todo = a
    BY <2>5, <2>6
  <2>4. IsWalk(found(ps)) /\ found(ps).out \in P /\ found(ps).todo = <<>>
    BY <1>1, <2>2, <2>3, <2>7 DEF IsWalk
  <2> QED
    BY <2>4 DEF MbrWalk
<1>2. MbrWalk(v, Walk(<<PartTable(0, 0, 0)>>))
  <2>1. PartTable(0, 0, 0) \in TableItem
    BY DEF PartTable, TableItem
  <2> DEFINE Items == TableItem \cup EntryItem
  <2>2. <<PartTable(0, 0, 0)>> \in Seq(Items)
    BY <2>1
  <2> HIDE DEF Items
  <2> DEFINE w == Walk(<<PartTable(0, 0, 0)>>)
  <2>3. IsWalk(w) /\ w.todo = <<PartTable(0, 0, 0)>> /\ w.out = <<>>
    BY DEF Walk, IsWalk
  <2> HIDE DEF w
  <2>4. MbrWalk(v, w)
    BY <2>2, <2>3 DEF MbrWalk, Items
  <2> QED
    BY <2>4 DEF w
<1>3. ApmPartitions(v) \in P /\ GptPartitions(v) \in P /\ RecoveredAll(v) \in P
  BY ApmFits, GptFits, RecoveredAllFits
<1>4. \/ PartStart(v) = found(ApmPartitions(v)) \/ PartStart(v) = found(RecoveredAll(v))
      \/ PartStart(v) = found(GptPartitions(v)) \/ PartStart(v) = Walk(<<PartTable(0, 0, 0)>>)
  BY DEF PartStart
<1> HIDE DEF found, P
<1> QED
  BY <1>1, <1>2, <1>3, <1>4

(* Whichever table is mounted, and whatever was recovered or joined in its *)
(* place, its partitions lie on the disk.                                  *)
LEMMA PartDoneFits ==
  ASSUME NEW v, PartVolume(v), NEW w, MbrWalk(v, w)
  PROVE  PartDone(v, w) \in Seq(Partitions(v.capacity))
<1> DEFINE P == Seq(Partitions(v.capacity))
           found(more) == IF w.out = <<>> THEN more ELSE Assembled(v, w.out \o more)
<1>1. w.out \in P
  BY DEF MbrWalk
<1>2. ASSUME NEW more \in P PROVE found(more) \in P
  <2>1. w.out \o more \in P
    BY <1>1, <1>2
  <2>2. Assembled(v, w.out \o more) \in P
    BY <2>1, AssembledFit
  <2>3. found(more) = more \/ found(more) = Assembled(v, w.out \o more)
    OBVIOUS
  <2> HIDE DEF found, P
  <2> QED
    BY <1>2, <2>2, <2>3
<1>3. <<>> \in P /\ RecoveredAll(v) \in P
  BY RecoveredAllFits
<1>4. PartDone(v, w) = w.out \/ PartDone(v, w) = found(<<>>) \/ PartDone(v, w) = found(RecoveredAll(v))
  BY DEF PartDone
<1> HIDE DEF found, P
<1>5. PartDone(v, w) \in P
  BY <1>1, <1>2, <1>3, <1>4
<1> QED
  BY <1>5 DEF P

-----------------------------------------------------------------------------
(* Entries whose parts are in a set.                                       *)
EntriesFit(entries, P) ==
  /\ Len(entries) \in Nat /\ entries = [i \in 1..Len(entries) |-> entries[i]]
  /\ \A i \in 1..Len(entries) : entries[i].parts \in Seq(P)

(* A mounted disk shows its partitions, or all of it.                      *)
LEMMA PartEntriesFit ==
  ASSUME NEW v, v.capacity \in Nat, v.partitions \in Seq(Partitions(v.capacity))
  PROVE  EntriesFit(PartEntries(v), Extent(v.capacity))
<1> DEFINE ps == v.partitions
           whole == [name |-> "Whole disk", dir |-> FALSE, size |-> v.capacity, parts |-> <<Part(0, v.capacity)>>]
           list == [i \in 1..Len(ps) |->
                     [name |-> ToString(i), dir |-> FALSE, size |-> ps[i].len, parts |-> ps[i].parts]]
<1>1. PartEntries(v) = IF ps = <<>> THEN <<whole>> ELSE list
  BY DEF PartEntries
<1>2. EntriesFit(<<whole>>, Extent(v.capacity))
  <2>1. Part(0, v.capacity) \in Extent(v.capacity)
    BY DEF Part, Extent
  <2>2. whole.parts = <<Part(0, v.capacity)>> /\ whole.parts \in Seq(Extent(v.capacity))
    BY <2>1
  <2> DEFINE one == <<whole>>
  <2> HIDE DEF whole
  <2>3. one \in Seq({whole})
    OBVIOUS
  <2> HIDE DEF one
  <2>4. Len(one) \in Nat /\ one = [i \in 1..Len(one) |-> one[i]] /\ \A i \in 1..Len(one) : one[i] = whole
    BY <2>3
  <2>5. EntriesFit(one, Extent(v.capacity))
    BY <2>2, <2>3, <2>4 DEF EntriesFit
  <2> QED
    BY <2>5 DEF one
<1>3. EntriesFit(list, Extent(v.capacity))
  <2>1. Len(ps) \in Nat
    OBVIOUS
  <2>2. ASSUME NEW i \in 1..Len(ps) PROVE list[i].parts \in Seq(Extent(v.capacity))
    <3> HIDE DEF ps
    <3>1. ps[i] \in Partitions(v.capacity)
      BY DEF ps
    <3>2. ps[i].parts \in Seq(Extent(v.capacity))
      BY <3>1 DEF Partitions
    <3> QED
      BY <3>2
  <2>3. list = [i \in 1..Len(ps) |-> list[i]] /\ Len(list) = Len(ps)
    BY <2>1
  <2> HIDE DEF list, ps
  <2> QED
    BY <2>1, <2>2, <2>3 DEF EntriesFit
<1> HIDE DEF list, whole
<1> QED
  BY <1>1, <1>2, <1>3

-----------------------------------------------------------------------------
(* The Logical Disk Manager.                                               *)

(* What a volume of extents shows: parts of the disk, and the gaps of      *)
(* stripes that are not as long as the others.                             *)
Gap == [at : {Nothing}, len : Nat]
Shows(capacity) == Extent(capacity) \cup Gap

(* Cutting what a dynamic disk shows, its gaps included, leaves it there.  *)
LEMMA CutShown ==
  ASSUME NEW capacity \in Nat, NEW parts \in Seq(Shows(capacity)), NEW size \in Int
  PROVE  CutTo(parts, size) \in Seq(Shows(capacity))
<1>1. Len(parts) \in Nat /\ \A i \in 1..Len(parts) : parts[i] \in Shows(capacity)
  OBVIOUS
<1>2. \A i \in 1..Len(parts) : parts[i].len \in Nat
  BY <1>1 DEF Shows, Extent, Gap
<1>3. /\ CutTo(parts, size) = [i \in 1..Len(parts) |-> CutTo(parts, size)[i]]
      /\ \A i \in 1..Len(parts) :
           \E len \in 0..parts[i].len : CutTo(parts, size)[i] = Part(parts[i].at, len)
  BY <1>1, <1>2, CutParts
<1>4. ASSUME NEW i \in 1..Len(parts) PROVE CutTo(parts, size)[i] \in Shows(capacity)
  <2>1. PICK len \in 0..parts[i].len : CutTo(parts, size)[i] = Part(parts[i].at, len)
    BY <1>3
  <2>2. CASE parts[i] \in Extent(capacity)
    BY <2>1, <2>2 DEF Part, Extent, Shows
  <2>3. CASE parts[i] \in Gap
    BY <2>1, <2>3 DEF Part, Gap, Shows
  <2> QED
    BY <1>1, <2>2, <2>3 DEF Shows
<1> QED
  BY <1>1, <1>3, <1>4, MadeOf

(* A chunk of a stripe lies in it.                                         *)
LEMMA ChunkFits ==
  ASSUME NEW capacity \in Nat, NEW parts \in Seq(Extent(capacity)), Len(parts) > 0,
         NEW chunk \in Nat, chunk > 0, NEW i \in Nat
  PROVE  LdmChunk(parts, chunk, i) \in Seq(Shows(capacity))
<1> DEFINE n == Len(parts)
           which == (i % n) + 1
           p == parts[which]
           row == (i \div n) * chunk
           from == Smaller(row, p.len)
           have == Smaller(chunk, p.len - from)
<1>1. LdmChunk(parts, chunk, i) = <<Part(p.at + from, have), Part(Nothing, chunk - have)>>
  BY DEF LdmChunk
<1>2. n \in Nat /\ n > 0
  OBVIOUS
<1> HIDE DEF n
<1>3. which \in 1..n /\ i \div n \in Nat
  BY <1>2
<1>4. row \in Nat
  <2> DEFINE q == i \div n
  <2>1. q \in Nat
    BY <1>3
  <2> HIDE DEF q
  <2>2. q * chunk \in Nat
    BY <2>1
  <2> QED
    BY <2>2 DEF q
<1> HIDE DEF which, row
<1>5. p \in Extent(capacity)
  BY <1>3 DEF n
<1> HIDE DEF p
<1>6. p.at \in Nat /\ p.len \in Nat /\ p.at + p.len =< capacity
  BY <1>5 DEF Extent
<1>7. from \in Nat /\ from =< p.len
  BY <1>4, <1>6 DEF Smaller
<1> HIDE DEF from
<1>8. have \in Nat /\ have =< chunk /\ have =< p.len - from
  BY <1>6, <1>7 DEF Smaller
<1> HIDE DEF have
<1>9. Part(p.at + from, have) \in Shows(capacity)
  <2>1. /\ p.at + from \in Nat /\ have \in Nat
        /\ p.at + from + have =< capacity
    BY <1>6, <1>7, <1>8
  <2>2. [at |-> p.at + from, len |-> have] \in Extent(capacity)
    BY <2>1 DEF Extent
  <2> QED
    BY <2>2 DEF Part, Shows
<1>10. Part(Nothing, chunk - have) \in Shows(capacity)
  BY <1>8 DEF Part, Gap, Shows
<1> QED
  BY <1>1, <1>9, <1>10

(* A stripe is made of chunks of its members: it shows nothing they do not.*)
LEMMA StripedFits ==
  ASSUME NEW capacity \in Nat, NEW parts \in Seq(Extent(capacity)), Len(parts) > 0,
         NEW chunk \in Nat, chunk > 0
  PROVE  Striped(parts, chunk) \in Seq(Shows(capacity))
<1> DEFINE total == LengthOf(parts)
           rows == (total + chunk - 1) \div chunk
           chunks == [i \in 1..rows |-> LdmChunk(parts, chunk, i - 1)]
<1>1. total \in Nat
  <2>1. Len(parts) \in Nat /\ \A i \in 1..Len(parts) : parts[i].len \in Nat
    BY DEF Extent
  <2> QED
    BY <2>1, PartsAdd
<1>2. Striped(parts, chunk) = CutTo(Concatenated(chunks), total)
  BY DEF Striped
<1> HIDE DEF total
<1>3. rows \in Nat
  <2>1. total + chunk - 1 \in Nat
    BY <1>1
  <2> QED
    BY <2>1
<1> HIDE DEF rows
<1>4. ASSUME NEW i \in 1..rows PROVE chunks[i] \in Seq(Shows(capacity))
  <2>1. i - 1 \in Nat
    BY <1>3
  <2>2. LdmChunk(parts, chunk, i - 1) \in Seq(Shows(capacity))
    BY <2>1, ChunkFits
  <2> QED
    BY <2>2
<1>5. Len(chunks) = rows
  BY <1>3
<1> HIDE DEF chunks
<1>6. Concatenated(chunks) \in Seq(Shows(capacity))
  BY <1>3, <1>4, <1>5, ConcatenatedList
<1> QED
  BY <1>1, <1>2, <1>6, CutShown

(* The records of a database, by type.                                     *)
RecordOf(type, r) ==
  /\ type = "component" => r.stripe \in Int /\ r.merge \in {"concat", "stripe", "other"}
  /\ type = "extent" => r.at \in Int /\ r.size \in Int

(* The records of one type have the fields of that type.                   *)
LEMMA RecordsTyped ==
  ASSUME NEW v, LdmTables(v), LdmAccepts(v), NEW type
  PROVE  \E S : LdmRecords(v, type) \in Seq(S) /\ \A r \in S : RecordOf(type, r)
<1> DEFINE toc == v.tocs[(v.header.configStart + v.header.tocSize) * VolSector]
           place == (v.header.configStart + toc.config) * VolSector
           all == v.databases[place]
           S == {r \in {all[i] : i \in 1..Len(all)} : r.type = type}
<1>1. place \in DOMAIN v.databases
  BY DEF LdmAccepts
<1>2. LdmRecords(v, type) = Kept(all, {i \in 1..Len(all) : all[i].type = type})
  BY DEF LdmRecords, Keeping
<1> HIDE DEF place
<1>3. /\ IsList(all)
      /\ \A i \in 1..Len(all) :
           /\ all[i].type = "component" =>
                all[i].stripe \in Int /\ all[i].merge \in {"concat", "stripe", "other"}
           /\ all[i].type = "extent" => {all[i].at, all[i].size} \subseteq Int
  BY <1>1 DEF LdmTables
<1> HIDE DEF all
<1>4. Len(all) \in Nat
  BY <1>3 DEF IsList
<1>5. LdmRecords(v, type) \in Seq(S)
  <2> DEFINE places == {i \in 1..Len(all) : all[i].type = type}
  <2>1. \A i \in 1..Len(all) : i \in places => all[i] \in S
    OBVIOUS
  <2> HIDE DEF places, S
  <2>2. Kept(all, places) \in Seq(S)
    BY <1>4, <2>1, KeptList
  <2> QED
    BY <1>2, <2>2 DEF places
<1>6. \A r \in S : RecordOf(type, r)
  BY <1>3 DEF RecordOf
<1> HIDE DEF S
<1> QED
  BY <1>5, <1>6

(* The extents of a component that hold something.                         *)
LdmHeld(v, component) ==
  Keeping(LdmRecords(v, "extent"), LAMBDA e : e.component = component /\ e.size > 0)

(* The extents a component holds are of the disk's whole numbers, and none *)
(* is empty.                                                               *)
LEMMA HeldTyped ==
  ASSUME NEW v, LdmTables(v), LdmAccepts(v), NEW component
  PROVE  \E S : /\ LdmHeld(v, component) \in Seq(S)
                /\ \A e \in S : e.at \in Int /\ e.size \in Int /\ e.size > 0
<1>0. PICK R : LdmRecords(v, "extent") \in Seq(R) /\ \A r \in R : RecordOf("extent", r)
  BY RecordsTyped
<1>1. LdmRecords(v, "extent") \in Seq(R) /\ \A r \in R : r.at \in Int /\ r.size \in Int
  BY <1>0 DEF RecordOf
<1> DEFINE S == {r \in R : r.size > 0}
           all == LdmRecords(v, "extent")
           places == {i \in 1..Len(all) : all[i].component = component /\ all[i].size > 0}
<1>2. LdmHeld(v, component) = Kept(all, places)
  BY DEF LdmHeld, Keeping
<1> HIDE DEF all
<1>3. Len(all) \in Nat /\ \A i \in 1..Len(all) : i \in places => all[i] \in S
  BY <1>1 DEF all
<1> HIDE DEF places, S
<1>4. Kept(all, places) \in Seq(S)
  BY <1>3, KeptList
<1>5. \A e \in S : e.at \in Int /\ e.size \in Int /\ e.size > 0
  BY <1>1 DEF S
<1> QED
  BY <1>2, <1>4, <1>5

(* An extent that lies on the disk.                                        *)
LEMMA LdmPartFits ==
  ASSUME NEW v, LdmTables(v), NEW e, e.at \in Int, e.size \in Int, e.size > 0, LdmOnDisk(v, e)
  PROVE  LdmPart(v, e) \in Extent(v.capacity)
<1>1. v.capacity \in Nat /\ v.header.dataStart \in Int
  BY DEF LdmTables
<1>2. /\ LdmPart(v, e).at = (v.header.dataStart + e.at) * 512
      /\ LdmPart(v, e).len = e.size * 512
      /\ LdmPart(v, e) = [at |-> LdmPart(v, e).at, len |-> LdmPart(v, e).len]
  BY DEF LdmPart, Part, VolSector
<1>3. /\ LdmPart(v, e).at \in 0..v.capacity - 1
      /\ LdmPart(v, e).len =< v.capacity - LdmPart(v, e).at
  BY DEF LdmOnDisk
<1>4. LdmPart(v, e).len \in Nat
  BY <1>2
<1> HIDE DEF Part
<1> DEFINE at == LdmPart(v, e).at
           len == LdmPart(v, e).len
<1>5. at \in Nat /\ len \in Nat /\ at + len =< v.capacity
  BY <1>1, <1>3, <1>4
<1> QED
  BY <1>2, <1>5 DEF Extent

(* What the components of a volume are made of, one after the other.       *)
Stage(capacity) ==
  [stores : Seq(Seq(Shows(capacity))), parts : Seq(Extent(capacity)), next : Int,
   ok : BOOLEAN, over : BOOLEAN]

(* Marking a volume under construction as done or as refused adds no piece *)
(* to it.                                                                  *)
LEMMA StageOver ==
  ASSUME NEW capacity, NEW s \in Stage(capacity)
  PROVE  /\ [s EXCEPT !.ok = FALSE] \in Stage(capacity) /\ [s EXCEPT !.over = TRUE] \in Stage(capacity)
         /\ [s EXCEPT !.ok = FALSE, !.over = TRUE] \in Stage(capacity)
         /\ [s EXCEPT !.parts = <<>>] \in Stage(capacity)
<1>1. [s EXCEPT !.ok = FALSE] \in Stage(capacity) /\ [s EXCEPT !.over = TRUE] \in Stage(capacity)
  BY DEF Stage
<1>2. [s EXCEPT !.ok = FALSE, !.over = TRUE] \in Stage(capacity)
  BY DEF Stage
<1>3. [s EXCEPT !.parts = <<>>] \in Stage(capacity)
  <2>1. <<>> \in Seq(Extent(capacity))
    OBVIOUS
  <2> QED
    BY <2>1 DEF Stage
<1> QED
  BY <1>1, <1>2, <1>3

(* Neither does handing it a finished component.                           *)
LEMMA StageStores ==
  ASSUME NEW capacity, NEW s \in Stage(capacity), NEW store \in Seq(Shows(capacity))
  PROVE  [s EXCEPT !.stores = Append(@, store)] \in Stage(capacity)
<1>1. s.stores \in Seq(Seq(Shows(capacity)))
  BY DEF Stage
<1>2. Append(s.stores, store) \in Seq(Seq(Shows(capacity)))
  BY <1>1
<1> QED
  BY <1>2 DEF Stage

(* Nor handing it one and moving on.                                       *)
LEMMA StageStripes ==
  ASSUME NEW capacity, NEW s \in Stage(capacity), NEW store \in Seq(Shows(capacity)), NEW more \in Int
  PROVE  [s EXCEPT !.stores = Append(@, store), !.next = @ + more] \in Stage(capacity)
<1>1. s.stores \in Seq(Seq(Shows(capacity))) /\ s.next \in Int
  BY DEF Stage
<1>2. Append(s.stores, store) \in Seq(Seq(Shows(capacity))) /\ s.next + more \in Int
  BY <1>1
<1> QED
  BY <1>2 DEF Stage

(* Adding a piece of the disk keeps the volume on the disk.                *)
LEMMA StageGoesOn ==
  ASSUME NEW capacity, NEW s \in Stage(capacity), NEW part \in Extent(capacity), NEW more \in Int
  PROVE  [s EXCEPT !.next = @ + more, !.parts = Append(@, part)] \in Stage(capacity)
<1>1. s.parts \in Seq(Extent(capacity)) /\ s.next \in Int
  BY DEF Stage
<1>2. Append(s.parts, part) \in Seq(Extent(capacity)) /\ s.next + more \in Int
  BY <1>1
<1> QED
  BY <1>2 DEF Stage

(* A concatenated component.                                               *)
LEMMA ConcatFits ==
  ASSUME NEW v, LdmTables(v), LdmAccepts(v), NEW sofar \in Stage(v.capacity), NEW component
  PROVE  LdmConcat(v, sofar, component) \in Stage(v.capacity)
<1>a. PICK S : /\ LdmHeld(v, component.id) \in Seq(S)
               /\ \A e \in S : e.at \in Int /\ e.size \in Int /\ e.size > 0
  BY HeldTyped
<1> DEFINE extents == LdmExtents(v, component.id, LAMBDA x, y : x.offset < y.offset)
           n == Len(extents)
           base == [sofar EXCEPT !.parts = <<>>]
           A == Stage(v.capacity)
           Taken(a, k) == LdmAdd(v, a, extents[k])
           Is(g) == g = [k \in 0..n |-> IF k = 0 THEN base ELSE Taken(g[k - 1], k)]
           step == [k \in 1..n |-> [a \in A |-> Taken(a, k)]]
           upto == CHOOSE g : Is(g)
<1>b. LdmConcat(v, sofar, component) =
        IF ~upto[n].ok \/ extents = <<>> THEN [upto[n] EXCEPT !.over = TRUE]
        ELSE [upto[n] EXCEPT !.stores = Append(@, upto[n].parts)]
  BY DEF LdmConcat
<1>c. extents \in Seq(S)
  BY <1>a, SortedList DEF LdmExtents, LdmHeld, Sorted
<1> HIDE DEF extents
<1>0. n \in Nat /\ \A k \in 1..n : extents[k] \in S
  BY <1>c
<1>1. \A k \in 1..n, a \in A : Taken(a, k) \in A
  <2>1. ASSUME NEW k \in 1..n, NEW a \in A PROVE LdmAdd(v, a, extents[k]) \in A
    <3> DEFINE e == extents[k]
    <3>1. e.at \in Int /\ e.size \in Int /\ e.size > 0
      BY <1>0, <1>a
    <3> HIDE DEF e
    <3>2. CASE ~a.ok \/ e.offset # a.next \/ ~LdmOnDisk(v, e)
      <4>1. LdmAdd(v, a, e) = [a EXCEPT !.ok = FALSE]
        BY <3>2 DEF LdmAdd
      <4> QED
        BY <4>1, StageOver DEF e
    <3>3. CASE ~(~a.ok \/ e.offset # a.next \/ ~LdmOnDisk(v, e))
      <4>1. LdmAdd(v, a, e) = [a EXCEPT !.next = @ + e.size, !.parts = Append(@, LdmPart(v, e))]
        BY <3>3 DEF LdmAdd
      <4>2. LdmPart(v, e) \in Extent(v.capacity)
        BY <3>1, <3>3, LdmPartFits
      <4>3. a \in Stage(v.capacity) /\ e.size \in Int
        BY <3>1
      <4>4. [a EXCEPT !.next = @ + e.size, !.parts = Append(@, LdmPart(v, e))] \in Stage(v.capacity)
        BY <4>2, <4>3, StageGoesOn
      <4>5. LdmAdd(v, a, e) \in A
        BY <4>1, <4>4
      <4> QED
        BY <4>5 DEF e
    <3> QED
      BY <3>2, <3>3
  <2> QED
    BY <2>1
<1>2. base \in A
  BY StageOver
<1> HIDE DEF A, Taken, base, n
<1>4. \E f \in [0..n -> A] : Is(f)
  <2>1. PICK f \in [0..n -> A] : RecursiveIn(f, n, base, step)
    BY <1>0, <1>1, <1>2, LoopsRun
  <2>2. f[0] = base /\ \A k \in 1..n : f[k] = Taken(f[k - 1], k)
    BY <1>0, <2>1 DEF RecursiveIn
  <2>3. Is(f)
    BY <2>2
  <2> QED
    BY <2>3
<1>5. Is(upto)
  BY <1>4
<1> HIDE DEF upto
<1>6. \A k \in 0..n : upto[k] \in A
  <2>1. upto[0] \in A /\ \A k \in 1..n : upto[k - 1] \in A => upto[k] \in A
    BY <1>0, <1>1, <1>2, <1>5
  <2> QED
    BY <1>0, <2>1, LoopsKeep
<1>7. upto[n] \in Stage(v.capacity)
  BY <1>0, <1>6 DEF A
<1> DEFINE s == upto[n]
<1>8. s \in Stage(v.capacity) /\ s.parts \in Seq(Shows(v.capacity))
  <2>1. s.parts \in Seq(Extent(v.capacity))
    BY <1>7 DEF Stage
  <2>2. Extent(v.capacity) \subseteq Shows(v.capacity)
    BY DEF Shows
  <2> QED
    BY <1>7, <2>1, <2>2
<1> HIDE DEF s
<1>9. /\ [s EXCEPT !.over = TRUE] \in Stage(v.capacity)
      /\ [s EXCEPT !.stores = Append(@, s.parts)] \in Stage(v.capacity)
  BY <1>8, StageOver, StageStores
<1> QED
  BY <1>b, <1>9 DEF s

(* A striped component.                                                    *)
LEMMA StripeFits ==
  ASSUME NEW v, LdmTables(v), LdmAccepts(v), NEW sofar \in Stage(v.capacity),
         NEW component, component.stripe \in Int
  PROVE  LdmStripe(v, sofar, component) \in Stage(v.capacity)
<1> DEFINE extents == LdmExtents(v, component.id, LAMBDA a, b : a.order < b.order)
           ok == component.stripe > 0 /\ extents # <<>> /\ \A i \in 1..Len(extents) : LdmOnDisk(v, extents[i])
           parts == [i \in 1..Len(extents) |-> LdmPart(v, extents[i])]
           store == Striped(parts, component.stripe * VolSector)
           more == LengthOf(parts) \div VolSector
<1>1. PICK S : /\ LdmHeld(v, component.id) \in Seq(S)
               /\ \A e \in S : e.at \in Int /\ e.size \in Int /\ e.size > 0
  BY HeldTyped
<1>2. extents \in Seq(S)
  BY <1>1, SortedList DEF LdmExtents, LdmHeld, Sorted
<1>3. LdmStripe(v, sofar, component) =
        IF ~ok THEN [sofar EXCEPT !.ok = FALSE, !.over = TRUE]
        ELSE [sofar EXCEPT !.stores = Append(@, store), !.next = @ + more]
  BY DEF LdmStripe
<1> HIDE DEF extents
<1>4. CASE ok
  <2>1. Len(extents) \in Nat /\ Len(extents) > 0
    BY <1>2, <1>4
  <2>2. ASSUME NEW i \in 1..Len(extents) PROVE parts[i] \in Extent(v.capacity)
    <3> DEFINE e == extents[i]
    <3>1. e.at \in Int /\ e.size \in Int /\ e.size > 0 /\ LdmOnDisk(v, e)
      BY <1>1, <1>2, <1>4, <2>1
    <3> HIDE DEF e
    <3>2. LdmPart(v, e) \in Extent(v.capacity)
      BY <3>1, LdmPartFits
    <3> QED
      BY <3>2 DEF e
  <2>3. parts = [i \in 1..Len(extents) |-> parts[i]]
    OBVIOUS
  <2> HIDE DEF parts
  <2>4. parts \in Seq(Extent(v.capacity)) /\ Len(parts) > 0
    <3>1. parts \in Seq(Extent(v.capacity)) /\ Len(parts) = Len(extents)
      BY <2>1, <2>2, <2>3, MadeOf
    <3> QED
      BY <2>1, <3>1
  <2>5. store \in Seq(Shows(v.capacity))
    <3> DEFINE chunk == component.stripe * VolSector
    <3>1. chunk \in Nat /\ chunk > 0
      BY <1>4 DEF VolSector
    <3>2. v.capacity \in Nat
      BY DEF LdmTables
    <3> HIDE DEF chunk
    <3>3. Striped(parts, chunk) \in Seq(Shows(v.capacity))
      BY <2>4, <3>1, <3>2, StripedFits
    <3> QED
      BY <3>3 DEF chunk
  <2>6. more \in Int
    <3>1. Len(parts) \in Nat /\ \A i \in 1..Len(parts) : parts[i].len \in Nat
      BY <2>4 DEF Extent
    <3>2. LengthOf(parts) \in Nat
      BY <3>1, PartsAdd
    <3> QED
      BY <3>2 DEF VolSector
  <2> HIDE DEF store, more
  <2>7. [sofar EXCEPT !.stores = Append(@, store), !.next = @ + more] \in Stage(v.capacity)
    BY <2>5, <2>6, StageStripes
  <2> HIDE DEF ok
  <2> QED
    BY <1>3, <1>4, <2>7
<1> HIDE DEF ok
<1>5. CASE ~ok
  BY <1>3, <1>5, StageOver
<1> QED
  BY <1>4, <1>5

(* A volume, component after component.                                    *)
LEMMA LdmVolumeFits ==
  ASSUME NEW v, LdmTables(v), LdmAccepts(v), NEW volume
  PROVE  LdmVolume(v, volume) \in Stage(v.capacity)
<1>d. PICK S : LdmRecords(v, "component") \in Seq(S) /\ \A r \in S : RecordOf("component", r)
  BY RecordsTyped
<1>a. /\ LdmRecords(v, "component") \in Seq(S)
      /\ \A r \in S : r.stripe \in Int /\ r.merge \in {"concat", "stripe", "other"}
  BY <1>d DEF RecordOf
<1> DEFINE mine == Keeping(LdmComponents(v), LAMBDA c : c.volume = volume.id)
           n == Len(mine)
           base == [stores |-> <<>>, parts |-> <<>>, next |-> 0, ok |-> TRUE, over |-> FALSE]
           A == Stage(v.capacity)
           Taken(a, k) == LdmComponent(v, a, mine[k])
           Is(g) == g = [k \in 0..n |-> IF k = 0 THEN base ELSE Taken(g[k - 1], k)]
           step == [k \in 1..n |-> [a \in A |-> Taken(a, k)]]
           upto == CHOOSE g : Is(g)
<1>b. LdmVolume(v, volume) = upto[n]
  BY DEF LdmVolume
<1>c. mine \in Seq(S)
  <2> DEFINE all == LdmRecords(v, "component")
             places == {i \in 1..Len(all) : all[i].id # 0 /\ \A j \in i + 1..Len(all) : all[j].id # all[i].id}
             last == Kept(all, places)
  <2>1. LdmComponents(v) = Sorted(last, LAMBDA x, y : x.id < y.id)
    BY DEF LdmComponents, Latest
  <2> HIDE DEF all, places
  <2>2. last \in Seq(S)
    BY <1>a, KeptList DEF all
  <2> HIDE DEF last
  <2>3. Sorted(last, LAMBDA x, y : x.id < y.id) \in Seq(S)
    BY <2>2, SortedList DEF Sorted
  <2>4. LdmComponents(v) \in Seq(S)
    BY <2>1, <2>3
  <2> QED
    BY <2>4, KeptList DEF Keeping
<1> HIDE DEF mine
<1>0. n \in Nat /\ \A k \in 1..n : mine[k] \in S
  BY <1>c
<1>1. \A k \in 1..n, a \in A : Taken(a, k) \in A
  <2>1. ASSUME NEW k \in 1..n, NEW a \in A PROVE LdmComponent(v, a, mine[k]) \in A
    <3> DEFINE c == mine[k]
    <3>1. c.stripe \in Int /\ c.merge \in {"concat", "stripe", "other"}
      BY <1>0, <1>a
    <3> HIDE DEF c
    <3>2. /\ LdmConcat(v, a, c) \in A
          /\ LdmStripe(v, a, c) \in A
          /\ [a EXCEPT !.ok = FALSE, !.over = TRUE] \in A
      BY <3>1, ConcatFits, StripeFits, StageOver
    <3>3. LdmComponent(v, a, c) \in {a, LdmConcat(v, a, c), LdmStripe(v, a, c),
                                    [a EXCEPT !.ok = FALSE, !.over = TRUE]}
      BY <3>1 DEF LdmComponent
    <3>4. LdmComponent(v, a, c) \in A
      BY <3>2, <3>3
    <3> QED
      BY <3>4 DEF c
  <2> QED
    BY <2>1
<1>2. base \in A
  <2>1. <<>> \in Seq(Seq(Shows(v.capacity))) /\ <<>> \in Seq(Extent(v.capacity))
    OBVIOUS
  <2> QED
    BY <2>1 DEF Stage
<1> HIDE DEF A, Taken, base, n
<1>4. \E f \in [0..n -> A] : Is(f)
  <2>1. PICK f \in [0..n -> A] : RecursiveIn(f, n, base, step)
    BY <1>0, <1>1, <1>2, LoopsRun
  <2>2. f[0] = base /\ \A k \in 1..n : f[k] = Taken(f[k - 1], k)
    BY <1>0, <2>1 DEF RecursiveIn
  <2>3. Is(f)
    BY <2>2
  <2> QED
    BY <2>3
<1>5. Is(upto)
  BY <1>4
<1> HIDE DEF upto
<1>6. \A k \in 0..n : upto[k] \in A
  <2>1. upto[0] \in A /\ \A k \in 1..n : upto[k - 1] \in A => upto[k] \in A
    BY <1>0, <1>1, <1>2, <1>5
  <2> QED
    BY <1>0, <2>1, LoopsKeep
<1> QED
  BY <1>0, <1>b, <1>6 DEF A

(* The volumes that are shown.                                             *)
LEMMA LdmEntriesFit ==
  ASSUME NEW v, LdmTables(v), LdmAccepts(v)
  PROVE  EntriesFit(LdmEntries(v), Shows(v.capacity))
<1> DEFINE volumes == LdmVolumes(v)
           P == Seq(Shows(v.capacity))
           made(i) == LdmVolume(v, volumes[i])
           size(i) == VolSector * (IF volumes[i].size # 0 THEN volumes[i].size ELSE made(i).next)
           name(i) == IF volumes[i].name = "" THEN "Dynamic volume" ELSE volumes[i].name
           E == {[name |-> name(i), dir |-> FALSE, parts |-> made(i).stores[1], size |-> size(i)] :
                   i \in {k \in 1..Len(volumes) : made(k).stores # <<>>}}
           lists == [i \in 1..Len(volumes) |-> LdmEntry(volumes[i], made(i))]
<1>1. LdmEntries(v) = Concatenated(lists)
  BY DEF LdmEntries
<1>2. Len(volumes) \in Nat
  <2>1. PICK S : LdmRecords(v, "volume") \in Seq(S)
    BY RecordsTyped
  <2> DEFINE all == LdmRecords(v, "volume")
             places == {i \in 1..Len(all) : all[i].id # 0 /\ \A j \in i + 1..Len(all) : all[j].id # all[i].id}
             last == Kept(all, places)
  <2>2. volumes = Sorted(last, LAMBDA x, y : x.id < y.id)
    BY DEF LdmVolumes, Latest
  <2> HIDE DEF all, places, volumes
  <2>3. last \in Seq(S)
    BY <2>1, KeptList DEF all
  <2> HIDE DEF last
  <2>4. Sorted(last, LAMBDA x, y : x.id < y.id) \in Seq(S)
    BY <2>3, SortedList DEF Sorted
  <2>5. volumes \in Seq(S)
    BY <2>2, <2>4
  <2> QED
    BY <2>5
<1> HIDE DEF volumes
<1>3. ASSUME NEW i \in 1..Len(volumes) PROVE lists[i] \in Seq(E)
  <2> DEFINE e == [name |-> name(i), dir |-> FALSE, parts |-> made(i).stores[1], size |-> size(i)]
  <2>1. LdmEntry(volumes[i], made(i)) = IF ~made(i).ok \/ made(i).stores = <<>> THEN <<>> ELSE <<e>>
    BY DEF LdmEntry
  <2>2. made(i).stores # <<>> => e \in E
    OBVIOUS
  <2> HIDE DEF e, E, made
  <2>3. LdmEntry(volumes[i], made(i)) \in Seq(E)
    <3>1. CASE LdmEntry(volumes[i], made(i)) = <<>>
      BY <3>1
    <3>2. CASE made(i).stores # <<>> /\ LdmEntry(volumes[i], made(i)) = <<e>>
      <4>1. e \in E
        BY <2>2, <3>2
      <4> QED
        BY <3>2, <4>1
    <3> QED
      BY <2>1, <3>1, <3>2
  <2> QED
    BY <2>3
<1>4. Len(lists) = Len(volumes)
  BY <1>2
<1> HIDE DEF lists
<1>5. LdmEntries(v) \in Seq(E)
  BY <1>1, <1>2, <1>3, <1>4, ConcatenatedList
<1>6. ASSUME NEW e \in E PROVE e.parts \in P
  <2>1. PICK i \in 1..Len(volumes) : made(i).stores # <<>> /\ e.parts = made(i).stores[1]
    <3> HIDE DEF made, name, size
    <3>1. PICK i \in 1..Len(volumes) :
            /\ made(i).stores # <<>>
            /\ e = [name |-> name(i), dir |-> FALSE, parts |-> made(i).stores[1], size |-> size(i)]
      OBVIOUS
    <3> QED
      BY <3>1
  <2>2. made(i) \in Stage(v.capacity)
    BY LdmVolumeFits
  <2> HIDE DEF made
  <2>3. made(i).stores \in Seq(P)
    BY <2>2 DEF Stage
  <2> HIDE DEF P
  <2> DEFINE stores == made(i).stores
  <2>4. stores \in Seq(P) /\ stores # <<>> /\ e.parts = stores[1]
    BY <2>1, <2>3
  <2> HIDE DEF stores, E
  <2>6. Len(stores) \in Nat /\ Len(stores) # 0
    BY <2>4
  <2>7. 1 \in 1..Len(stores)
    BY <2>6
  <2>5. stores[1] \in P
    BY <2>4, <2>7
  <2> QED
    BY <2>4, <2>5
<1> HIDE DEF E
<1>7. /\ Len(LdmEntries(v)) \in Nat
      /\ LdmEntries(v) = [i \in 1..Len(LdmEntries(v)) |-> LdmEntries(v)[i]]
      /\ \A i \in 1..Len(LdmEntries(v)) : LdmEntries(v)[i] \in E
  BY <1>5
<1> QED
  BY <1>6, <1>7 DEF EntriesFit

-----------------------------------------------------------------------------
(* LVM.                                                                    *)

(* What lies in the data area of a label.                                  *)
InArea(area) ==
  {part \in [at : Nat, len : Nat] : area.at =< part.at /\ part.at + part.len =< area.at + area.len}

(* The first of what is kept is one of those it is kept from.              *)
LEMMA FirstKept ==
  ASSUME NEW s, IsList(s), NEW places, Kept(s, places) # <<>>
  PROVE  \E i \in 1..Len(s) : i \in places /\ Kept(s, places)[1] = s[i]
<1> DEFINE T == {s[i] : i \in {k \in 1..Len(s) : k \in places}}
           kept == Kept(s, places)
<1>1. Len(s) \in Nat /\ \A i \in 1..Len(s) : i \in places => s[i] \in T
  BY DEF IsList
<1> HIDE DEF T
<1>2. kept \in Seq(T)
  BY <1>1, KeptList
<1> HIDE DEF kept
<1>3. kept # <<>>
  BY DEF kept
<1>4. Len(kept) \in Nat /\ Len(kept) # 0
  BY <1>2, <1>3
<1>5. 1 \in 1..Len(kept)
  BY <1>4
<1>6. kept[1] \in T
  BY <1>2, <1>5
<1> QED
  BY <1>6 DEF T, kept

(* What an accepted disk has: a data area, and a text with volumes.        *)
LvmSound(v) ==
  /\ LvmLabel(v)[1].data[1] \in [at : Nat, len : Nat]
  /\ LvmText(v)[1].extent \in Nat
  /\ Len(LvmText(v)[1].volumes) \in Nat
  /\ \A n \in 1..Len(LvmText(v)[1].volumes) : LvmText(v)[1].volumes[n].segments \in Seq(LvmSegmentOf)

(* A group that is accepted has a sound label with one data area, and its  *)
(* text gives volumes made of segments.                                    *)
LEMMA LvmAccepted ==
  ASSUME NEW v, LvmTables(v), LvmAccepts(v)
  PROVE  LvmSound(v)
<1> DEFINE label == LvmLabel(v)[1]
           text == LvmText(v)[1]
<1>1. /\ LvmLabel(v) # <<>> /\ label.sound /\ Len(label.data) = 1
      /\ LvmText(v) # <<>> /\ text.sound
  BY DEF LvmAccepts
<1>2. /\ label.data \in Seq([at : Nat, len : Nat]) /\ IsList(label.texts)
      /\ \A k \in 1..Len(label.texts) :
           ~label.texts[k].ignored /\ label.texts[k].sound =>
             /\ label.texts[k].extent \in Nat /\ IsList(label.texts[k].volumes)
             /\ \A n \in 1..Len(label.texts[k].volumes) :
                  label.texts[k].volumes[n].segments \in Seq(LvmSegmentOf)
  <2> DEFINE places == {i \in 1..Smaller(4, Len(v.labels)) : v.labels[i].signed}
  <2>1. LvmLabel(v) = Kept(v.labels, places)
    BY DEF LvmLabel
  <2>2. IsList(v.labels)
    BY DEF LvmTables
  <2>3. PICK i \in 1..Len(v.labels) : i \in places /\ Kept(v.labels, places)[1] = v.labels[i]
    <3> HIDE DEF places
    <3> QED
      BY <1>1, <2>1, <2>2, FirstKept
  <2>4. v.labels[i].signed /\ label = v.labels[i]
    BY <2>1, <2>3
  <2> HIDE DEF label
  <2> QED
    BY <1>1, <2>4 DEF LvmTables
<1>3. PICK k \in 1..Len(label.texts) : ~label.texts[k].ignored /\ text = label.texts[k]
  <2> DEFINE places == {i \in 1..Len(label.texts) : ~label.texts[i].ignored}
  <2>1. LvmText(v) = Kept(label.texts, places)
    BY DEF LvmText, Keeping
  <2>2. PICK k \in 1..Len(label.texts) : k \in places /\ Kept(label.texts, places)[1] = label.texts[k]
    <3> HIDE DEF places, label
    <3> QED
      BY <1>1, <1>2, <2>1, FirstKept
  <2> QED
    BY <2>1, <2>2
<1>4. label.data[1] \in [at : Nat, len : Nat]
  <2> DEFINE data == label.data
             Areas == [at : Nat, len : Nat]
  <2>1. data \in Seq(Areas) /\ Len(data) = 1
    BY <1>1, <1>2
  <2> HIDE DEF data, Areas
  <2>2. data[1] \in Areas
    BY <2>1
  <2> QED
    BY <2>2 DEF data, Areas
<1> HIDE DEF label, text
<1>5. /\ text.extent \in Nat /\ IsList(text.volumes)
      /\ \A n \in 1..Len(text.volumes) : text.volumes[n].segments \in Seq(LvmSegmentOf)
  BY <1>1, <1>2, <1>3
<1>6. Len(text.volumes) \in Nat
  BY <1>5 DEF IsList
<1> QED
  BY <1>4, <1>5, <1>6 DEF LvmSound, label, text

(* The parts of a volume that is whole lie in the area.                    *)
LEMMA LvmPartsFit ==
  ASSUME NEW v, LvmSound(v), NEW lv, lv.segments \in Seq(LvmSegmentOf), LvmWhole(v, lv)
  PROVE  LvmParts(v, lv) \in Seq(InArea(LvmLabel(v)[1].data[1]))
<1> DEFINE unit == LvmText(v)[1].extent * VolSector
           segments == LvmSegments(lv)
           area == LvmLabel(v)[1].data[1]
           parts == LvmParts(v, lv)
<1>1. segments \in Seq(LvmSegmentOf)
  <2> DEFINE striped == Keeping(lv.segments, LAMBDA s : s.striped /\ s.stripes = 1 /\ s.count # 0)
  <2>1. striped \in Seq(LvmSegmentOf)
    BY KeptList DEF Keeping
  <2>2. segments = Sorted(striped, LAMBDA a, b : a.start < b.start)
    BY DEF LvmSegments
  <2> HIDE DEF striped, segments
  <2>3. Sorted(striped, LAMBDA a, b : a.start < b.start) \in Seq(LvmSegmentOf)
    BY <2>1, SortedList DEF Sorted
  <2> QED
    BY <2>2, <2>3
<1>2. unit \in Nat
  BY DEF LvmSound, VolSector
<1>3. area.at \in Nat /\ area.len \in Nat
  BY DEF LvmSound
<1>4. \A i \in 1..Len(segments) : (segments[i].at + segments[i].count) * unit =< area.len
  BY DEF LvmWhole
<1>5. parts = [i \in 1..Len(segments) |-> Part(area.at + segments[i].at * unit, segments[i].count * unit)]
  BY DEF LvmParts
<1> HIDE DEF unit, segments, area, parts
<1>6. ASSUME NEW i \in 1..Len(segments) PROVE parts[i] \in InArea(area)
  <2> DEFINE at == segments[i].at
             count == segments[i].count
  <2>1. segments[i] \in LvmSegmentOf
    BY <1>1
  <2>2. at \in Nat /\ count \in Nat
    BY <2>1 DEF LvmSegmentOf
  <2>3. parts[i] = Part(area.at + at * unit, count * unit) /\ (at + count) * unit =< area.len
    BY <1>4, <1>5
  <2> HIDE DEF at, count
  <2>4. at * unit \in Nat /\ count * unit \in Nat
    BY <1>2, <2>2
  <2>5. (at + count) * unit = at * unit + count * unit
    BY <1>2, <2>2
  <2> DEFINE before == at * unit
             len == count * unit
  <2>6. before \in Nat /\ len \in Nat /\ before + len =< area.len /\ parts[i] = Part(area.at + before, len)
    BY <2>3, <2>4, <2>5
  <2> HIDE DEF before, len
  <2> QED
    BY <1>3, <2>6 DEF Part, InArea
<1>7. Len(segments) \in Nat /\ parts = [i \in 1..Len(segments) |-> parts[i]]
  BY <1>1, <1>5
<1>8. parts \in Seq(InArea(area))
  BY <1>6, <1>7, MadeOf
<1> QED
  BY <1>8 DEF parts, area

(* The segments of a listed logical volume lie in the data area.           *)
LEMMA LvmEntriesFit ==
  ASSUME NEW v, LvmSound(v)
  PROVE  EntriesFit(LvmEntries(v), InArea(LvmLabel(v)[1].data[1]))
<1> DEFINE volumes == LvmText(v)[1].volumes
           places == {i \in 1..Len(volumes) : LvmWhole(v, volumes[i])}
           whole == Kept(volumes, places)
           V == {volumes[i] : i \in places}
           list == [i \in 1..Len(whole) |->
                     [name |-> whole[i].name, dir |-> FALSE, parts |-> LvmParts(v, whole[i]),
                      size |-> LengthOf(LvmParts(v, whole[i]))]]
           P == InArea(LvmLabel(v)[1].data[1])
<1>1. LvmEntries(v) = list
  BY DEF LvmEntries, Keeping
<1>2. /\ Len(volumes) \in Nat
      /\ \A n \in 1..Len(volumes) : volumes[n].segments \in Seq(LvmSegmentOf)
  BY DEF LvmSound
<1> HIDE DEF volumes
<1>3. \A lv \in V : lv.segments \in Seq(LvmSegmentOf) /\ LvmWhole(v, lv)
  BY <1>2
<1>4. whole \in Seq(V)
  <2>1. \A i \in 1..Len(volumes) : i \in places => volumes[i] \in V
    OBVIOUS
  <2> HIDE DEF places, V
  <2> QED
    BY <1>2, <2>1, KeptList
<1> HIDE DEF whole, V
<1>5. ASSUME NEW i \in 1..Len(whole) PROVE list[i].parts \in Seq(P)
  <2>1. whole[i] \in V
    BY <1>4
  <2>2. LvmParts(v, whole[i]) \in Seq(P)
    BY <1>3, <2>1, LvmPartsFit
  <2> HIDE DEF P
  <2> QED
    BY <2>2
<1>6. Len(whole) \in Nat /\ list = [i \in 1..Len(whole) |-> list[i]] /\ Len(list) = Len(whole)
  BY <1>4
<1> HIDE DEF list, P
<1>7. EntriesFit(list, P)
  BY <1>5, <1>6 DEF EntriesFit
<1> QED
  BY <1>1, <1>7 DEF P

-----------------------------------------------------------------------------
(* Linux RAID.                                                             *)
LEMMA RaidEntriesFit ==
  ASSUME NEW v, RaidTables(v)
  PROVE  EntriesFit(RaidEntries(v), Extent(v.capacity))
<1> DEFINE places == RaidPlaces(v)
           hits == {i \in 1..Len(places) : RaidFits(v, places[i])}
           found == FirstWhere(RaidPlaces(v), LAMBDA p : RaidFits(v, p))
           s == RaidSuper(v, found[1])
           at == RaidStart(found[1], s) * VolSector
           len == s.size * VolSector
           parts == <<Part(at, len)>>
           e == [name |-> s.name, dir |-> FALSE, parts |-> parts, size |-> LengthOf(parts)]
<1>1. RaidEntries(v) = IF found = <<>> \/ s.level # 1 THEN <<>> ELSE <<e>>
  BY DEF RaidEntries
<1>2. ASSUME found # <<>> PROVE RaidFits(v, found[1])
  <2> DEFINE i == CHOOSE i \in hits : \A j \in hits : i =< j
  <2>1. found = IF hits = {} THEN <<>> ELSE <<places[i]>>
    BY DEF FirstWhere
  <2>2. hits \in SUBSET Nat
    <3>1. Len(places) \in Nat
      BY DEF RaidPlaces
    <3> HIDE DEF places
    <3> QED
      BY <3>1
  <2> HIDE DEF found
  <2>3. hits # {} /\ found[1] = places[i]
    BY <1>2, <2>1
  <2>4. i \in hits
    <3> HIDE DEF hits
    <3> QED
      BY <2>2, <2>3, LeastElement
  <2> HIDE DEF i
  <2>5. RaidFits(v, places[i])
    BY <2>4
  <2> QED
    BY <2>3, <2>5
<1> HIDE DEF found
<1>3. s.start \in Nat /\ s.size \in Nat /\ v.capacity \in Nat
  BY DEF RaidSuper, At, RaidTables
<1>4. ASSUME found # <<>> PROVE Part(at, len) \in Extent(v.capacity)
  <2>1. at =< v.capacity /\ len =< v.capacity - at
    BY <1>2, <1>4 DEF RaidFits
  <2>2. at \in Nat /\ len \in Nat
    BY <1>3 DEF RaidStart, VolSector
  <2> HIDE DEF at, len
  <2> QED
    BY <1>3, <2>1, <2>2 DEF Part, Extent
<1> HIDE DEF at, len, s
<1>5. ASSUME found # <<>> PROVE e.parts \in Seq(Extent(v.capacity))
  BY <1>4, <1>5
<1> HIDE DEF e
<1>6. CASE RaidEntries(v) = <<>>
  <2> DEFINE none == RaidEntries(v)
  <2>1. Len(none) = 0 /\ none = [i \in 1..Len(none) |-> none[i]]
    BY <1>6
  <2> HIDE DEF none
  <2>2. EntriesFit(none, Extent(v.capacity))
    BY <2>1 DEF EntriesFit
  <2> QED
    BY <2>2 DEF none
<1>7. CASE found # <<>> /\ RaidEntries(v) = <<e>>
  <2> DEFINE one == RaidEntries(v)
  <2>1. one \in Seq({e})
    BY <1>7
  <2> HIDE DEF one
  <2>2. Len(one) \in Nat /\ one = [i \in 1..Len(one) |-> one[i]] /\ \A i \in 1..Len(one) : one[i] = e
    BY <2>1
  <2>3. EntriesFit(one, Extent(v.capacity))
    BY <1>5, <1>7, <2>2 DEF EntriesFit
  <2> QED
    BY <2>3 DEF one
<1> QED
  BY <1>1, <1>6, <1>7

-----------------------------------------------------------------------------
(* The machine.                                                            *)

(* Where the parts lie that a disk shows.                                  *)
Lies ==
  IF Kind = "ldm" THEN Shows(Volume.capacity)
  ELSE IF Kind = "lvm" THEN InArea(LvmLabel(Volume)[1].data[1])
  ELSE Extent(Volume.capacity)

(* What mounting found out.                                                *)
PartFacts ==
  facts = [partitions |-> facts.partitions] /\ facts.partitions \in Seq(Partitions(Volume.capacity))

(* A disk of partitions or extents: it was accepted before it is asked,    *)
(* what its tables were read to is partitions that lie on it, and so are   *)
(* the entries at hand.                                                    *)
TableInv ==
  /\ disk \in Disks
  /\ Kind \in Tables /\ state \notin {"new", "refused"} => Accepts(Kind, Volume)
  /\ Kind \in Tables \ {"table"} => facts \in {NoFacts, Unusable}
  /\ Kind = "table" /\ state = "mounting" => MbrWalk(Volume, walk)
  /\ Kind = "table" /\ state \in {"ready", "entering", "walking", "gathered", "answered"} => PartFacts
  /\ Kind \in Tables => here = [dir |-> here.dir, entries |-> here.entries] /\ EntriesFit(here.entries, Lies)

(* No entries are in their place.                                          *)
LEMMA NoEntriesFit == ASSUME NEW P PROVE EntriesFit(<<>>, P)
<1> DEFINE none == <<>>
<1>1. Len(none) = 0 /\ none = [i \in 1..Len(none) |-> none[i]]
  OBVIOUS
<1> HIDE DEF none
<1>2. EntriesFit(none, P)
  BY <1>1 DEF EntriesFit
<1> QED
  BY <1>2 DEF none

(* What a reader keeps besides is nothing that the disk says otherwise.    *)
LEMMA MountedDisk ==
  ASSUME facts \in {NoFacts, Unusable}, NEW f \in DOMAIN Volume, f # "mounted"
  PROVE  Mounted[f] = Volume[f]
<1>1. DOMAIN facts = {"mounted"}
  BY DEF NoFacts, Unusable
<1> QED
  BY <1>1 DEF Mounted

(* The mounted disk has the database of the one on file.                   *)
LEMMA LdmMounted ==
  ASSUME NEW u, NEW v, LdmTables(v), LdmAccepts(v), DOMAIN v \subseteq DOMAIN u,
         u.capacity = v.capacity, u.header = v.header, u.tocs = v.tocs, u.databases = v.databases
  PROVE  LdmTables(u) /\ LdmAccepts(u)
<1>1. LdmAccepts(u)
  BY DEF LdmAccepts
<1>2. LdmTables(u)
  BY DEF LdmTables
<1> QED
  BY <1>1, <1>2

(* The mounted disk has the label and the text of the one on file.         *)
LEMMA LvmMounted ==
  ASSUME NEW u, NEW v, LvmSound(v), u.labels = v.labels
  PROVE  LvmSound(u) /\ LvmLabel(u) = LvmLabel(v)
<1>1. LvmLabel(u) = LvmLabel(v)
  BY DEF LvmLabel
<1>2. LvmText(u) = LvmText(v)
  BY <1>1 DEF LvmText
<1> QED
  BY <1>1, <1>2 DEF LvmSound

(* The mounted disk has the superblocks of the one on file.                *)
LEMMA RaidMounted ==
  ASSUME NEW u, NEW v, RaidTables(v), DOMAIN v \subseteq DOMAIN u,
         u.capacity = v.capacity, u.supers = v.supers
  PROVE  RaidTables(u)
  BY DEF RaidTables

(* The entries that are read lie where they should.                        *)
LEMMA EntriesRead ==
  ASSUME TableInv, state = "walking", Kind \in Tables
  PROVE  EntriesFit(Entries(Kind, Mounted, node, walk), Lies)
<1> DEFINE u == Mounted
           v == Volume
<1>1. DOMAIN v \subseteq DOMAIN u
  BY DEF Mounted
<1>2. Accepts(Kind, Volume) /\ disk \in Disks
  BY DEF TableInv
<1>3. CASE Kind = "table"
  <2>1. PartVolume(Volume) /\ PartFacts
    BY <1>2, <1>3, TablesAssumption DEF TableInv, Kind, Volume
  <2>2. "capacity" \in DOMAIN Volume /\ Volume.capacity \in Nat
    BY <2>1 DEF PartVolume
  <2>3. facts = [partitions |-> facts.partitions] /\ facts.partitions \in Seq(Partitions(Volume.capacity))
    BY <2>1 DEF PartFacts
  <2>4. DOMAIN facts = {"partitions"}
    BY <2>3
  <2>5. Mounted["capacity"] = Volume["capacity"] /\ Mounted["partitions"] = facts["partitions"]
    BY <2>2, <2>4 DEF Mounted
  <2> HIDE DEF u
  <2>6. u.capacity = Volume.capacity /\ u.partitions = facts.partitions
    BY <2>5 DEF u
  <2>7. EntriesFit(PartEntries(u), Extent(u.capacity))
    BY <2>2, <2>3, <2>6, PartEntriesFit
  <2>8. Entries(Kind, Mounted, node, walk) = PartEntries(u)
    BY <1>3 DEF Entries, u
  <2>9. Lies = Extent(u.capacity)
    BY <1>3, <2>6 DEF Lies
  <2> QED
    BY <2>7, <2>8, <2>9
<1>4. Kind # "table" => \A f \in DOMAIN Volume : f # "mounted" => Mounted[f] = Volume[f]
  BY MountedDisk DEF TableInv
<1>5. CASE Kind = "ldm"
  <2>1. LdmTables(v) /\ LdmAccepts(v)
    BY <1>2, <1>5, TablesAssumption DEF Kind, Volume, Accepts
  <2>2. {"capacity", "header", "tocs", "databases"} \subseteq DOMAIN v
    BY <2>1 DEF LdmTables
  <2>3. /\ u["capacity"] = v["capacity"] /\ u["header"] = v["header"]
        /\ u["tocs"] = v["tocs"] /\ u["databases"] = v["databases"]
    BY <1>4, <1>5, <2>2
  <2> HIDE DEF u, v
  <2>4. LdmTables(u) /\ LdmAccepts(u) /\ u.capacity = v.capacity
    <3>1. u.capacity = v.capacity /\ u.header = v.header /\ u.tocs = v.tocs /\ u.databases = v.databases
      BY <2>3
    <3> QED
      BY <1>1, <2>1, <3>1, LdmMounted
  <2>5. EntriesFit(LdmEntries(u), Shows(u.capacity))
    BY <2>4, LdmEntriesFit
  <2>6. Entries(Kind, Mounted, node, walk) = LdmEntries(u)
    BY <1>5 DEF Entries, u
  <2>7. Lies = Shows(u.capacity)
    BY <1>5, <2>4 DEF Lies, v
  <2> QED
    BY <2>5, <2>6, <2>7
<1>6. CASE Kind = "lvm"
  <2>1. LvmTables(v) /\ LvmAccepts(v)
    BY <1>2, <1>6, TablesAssumption DEF Kind, Volume, Accepts
  <2>2. "labels" \in DOMAIN v
    BY <2>1 DEF LvmTables
  <2>3. u["labels"] = v["labels"]
    BY <1>4, <1>6, <2>2
  <2> HIDE DEF u, v
  <2>4. LvmSound(v)
    BY <2>1, LvmAccepted
  <2>5. LvmSound(u) /\ LvmLabel(u) = LvmLabel(v)
    BY <2>3, <2>4, LvmMounted
  <2>6. EntriesFit(LvmEntries(u), InArea(LvmLabel(u)[1].data[1]))
    BY <2>5, LvmEntriesFit
  <2>7. Entries(Kind, Mounted, node, walk) = LvmEntries(u)
    BY <1>6 DEF Entries, u
  <2>8. Lies = InArea(LvmLabel(u)[1].data[1])
    BY <1>6, <2>5 DEF Lies, v
  <2> QED
    BY <2>6, <2>7, <2>8
<1>7. CASE Kind = "raid"
  <2>1. RaidTables(v)
    BY <1>2, <1>7, TablesAssumption DEF Kind, Volume
  <2>2. {"capacity", "supers"} \subseteq DOMAIN v
    BY <2>1 DEF RaidTables
  <2>3. u["capacity"] = v["capacity"] /\ u["supers"] = v["supers"]
    BY <1>4, <1>7, <2>2
  <2> HIDE DEF u, v
  <2>4. RaidTables(u) /\ u.capacity = v.capacity
    <3>1. u.capacity = v.capacity /\ u.supers = v.supers
      BY <2>3
    <3> QED
      BY <1>1, <2>1, <3>1, RaidMounted
  <2>5. EntriesFit(RaidEntries(u), Extent(u.capacity))
    BY <2>4, RaidEntriesFit
  <2>6. Entries(Kind, Mounted, node, walk) = RaidEntries(u)
    BY <1>7 DEF Entries, u
  <2>7. Lies = Extent(u.capacity)
    BY <1>7, <2>4 DEF Lies, v
  <2> QED
    BY <2>5, <2>6, <2>7
<1> QED
  BY <1>3, <1>5, <1>6, <1>7 DEF Tables

(* Every step keeps what is said of the disk and of its entries.           *)
LEMMA TableStep == TableInv /\ [Next]_vars => TableInv'
<1> SUFFICES ASSUME TableInv, [Next]_vars PROVE TableInv'
  OBVIOUS
<1>0. disk' = disk
  BY DEF Next, Step, Mount, MountOn, MountDone, Enter, Turn, Gathered, Descend, AnswerList, AnswerRead,
         AnswerValue, Reply, Ask, Idle, Rest, vars
<1>1. Kind' = Kind /\ Volume' = Volume /\ Lies' = Lies
  BY <1>0 DEF Kind, Volume, Lies
<1>2. Kind = "table" => PartVolume(Volume)
  BY TablesAssumption DEF TableInv, Kind, Volume
<1>3. ASSUME here' = here
      PROVE  Kind' \in Tables =>
               here' = [dir |-> here'.dir, entries |-> here'.entries] /\ EntriesFit(here'.entries, Lies')
  BY <1>1, <1>3 DEF TableInv
<1>4. CASE Mount
  <2>1. /\ here' = here /\ facts' = facts
        /\ \/ Accepts(Kind, Volume) /\ state' = "mounting" /\ walk' = MountStart(Kind, Volume)
           \/ state' = "refused"
    BY <1>4 DEF Mount
  <2>2. Kind = "table" => MbrWalk(Volume, MountStart(Kind, Volume))
    BY <1>2, PartStarts DEF MountStart
  <2> QED
    BY <1>0, <1>1, <1>3, <2>1, <2>2 DEF TableInv
<1>5. CASE MountOn
  <2>1. /\ here' = here /\ facts' = facts /\ state' = state /\ state = "mounting"
        /\ walk.todo # <<>> /\ walk' = MountTurn(Kind, Volume, walk)
    BY <1>5 DEF MountOn
  <2>2. Kind = "table" => MbrWalk(Volume, MountTurn(Kind, Volume, walk))
    BY <1>2, <2>1, MbrTurnKeeps DEF MountTurn, TableInv
  <2> QED
    BY <1>0, <1>1, <1>3, <2>1, <2>2 DEF TableInv
<1>6. CASE MountDone
  <2>1. /\ here' = here /\ state = "mounting"
        /\ facts' = IF walk.ok THEN Facts(Kind, Volume, walk) ELSE Unusable
        /\ state' = IF facts' = Unusable THEN "refused" ELSE "ready"
    BY <1>6 DEF MountDone
  <2>2. Kind \in Tables \ {"table"} => Facts(Kind, Volume, walk) = NoFacts
    BY DEF Facts, Tables
  <2>3. Kind = "table" => Facts(Kind, Volume, walk) = [partitions |-> PartDone(Volume, walk)]
    BY DEF Facts
  <2>4. Kind = "table" => PartDone(Volume, walk) \in Seq(Partitions(Volume.capacity))
    BY <1>2, <2>1, PartDoneFits DEF TableInv
  <2>5. state' = "ready" \/ state' = "refused"
    BY <2>1
  <2>6. Kind = "table" /\ state' = "ready" => PartFacts'
    <3>1. SUFFICES ASSUME Kind = "table", state' = "ready" PROVE PartFacts'
      OBVIOUS
    <3>2. facts' = [partitions |-> PartDone(Volume, walk)]
      BY <2>1, <2>3, <3>1
    <3>3. facts'.partitions = PartDone(Volume, walk)
      BY <3>2
    <3> QED
      BY <1>1, <2>4, <3>1, <3>2, <3>3 DEF PartFacts
  <2>7. Kind \in Tables \ {"table"} => facts' \in {NoFacts, Unusable}
    BY <2>1, <2>2
  <2>8. Kind \in Tables => Accepts(Kind, Volume)
    BY <2>1 DEF TableInv
  <2> QED
    BY <1>0, <1>1, <1>3, <2>1, <2>5, <2>6, <2>7, <2>8 DEF TableInv
<1>7. CASE Ask \/ Enter
  <2>1. CASE Ask
    <3>1. here' = here /\ facts' = facts /\ state = "ready" /\ state' = "entering"
      BY <2>1 DEF Ask
    <3> QED
      BY <1>0, <1>1, <1>3, <3>1 DEF TableInv, PartFacts
  <2>2. CASE Enter
    <3>1. /\ facts' = facts /\ state = "entering" /\ state' = "walking"
          /\ here' = [dir |-> IsDirectory(Kind, Mounted, node), entries |-> <<>>]
      BY <2>2 DEF Enter
    <3>2. here' = [dir |-> here'.dir, entries |-> here'.entries] /\ EntriesFit(here'.entries, Lies')
      <4>1. here'.entries = <<>>
        BY <3>1
      <4> QED
        BY <3>1, <4>1, NoEntriesFit
    <3> QED
      BY <1>0, <1>1, <3>1, <3>2 DEF TableInv, PartFacts
  <2> QED
    BY <1>7, <2>1, <2>2
<1>8. CASE Turn
  <2>1. here' = here /\ facts' = facts /\ state' = state /\ state = "walking"
    BY <1>8 DEF Turn
  <2> QED
    BY <1>0, <1>1, <1>3, <2>1 DEF TableInv, PartFacts
<1>9. CASE Gathered
  <2>1. /\ facts' = facts /\ state = "walking" /\ state' = "gathered"
        /\ here' = IF here.dir THEN [here EXCEPT !.entries = Entries(Kind, Mounted, node, walk)] ELSE here
    BY <1>9 DEF Gathered
  <2> DEFINE read == Entries(Kind, Mounted, node, walk)
  <2>2. Kind \in Tables => EntriesFit(read, Lies)
    BY <2>1, EntriesRead
  <2> HIDE DEF read
  <2>3. Kind \in Tables =>
          here' = [dir |-> here'.dir, entries |-> here'.entries] /\ EntriesFit(here'.entries, Lies)
    <3>1. SUFFICES ASSUME Kind \in Tables
          PROVE  here' = [dir |-> here'.dir, entries |-> here'.entries] /\ EntriesFit(here'.entries, Lies)
      OBVIOUS
    <3>2. here = [dir |-> here.dir, entries |-> here.entries] /\ EntriesFit(here.entries, Lies)
      BY <3>1 DEF TableInv
    <3>3. here' = here \/ here' = [here EXCEPT !.entries = read]
      BY <2>1 DEF read
    <3>4. [here EXCEPT !.entries = read] = [dir |-> here.dir, entries |-> read]
      BY <3>2
    <3>5. CASE here' = here
      BY <3>2, <3>5
    <3>6. CASE here' = [dir |-> here.dir, entries |-> read]
      BY <2>2, <3>1, <3>6
    <3> QED
      BY <3>3, <3>4, <3>5, <3>6
  <2> QED
    BY <1>0, <1>1, <2>1, <2>3 DEF TableInv, PartFacts
<1>10. CASE Descend
  <2>1. /\ here' = here /\ facts' = facts /\ state = "gathered"
        /\ state' \in {"entering", "answered"}
    BY <1>10 DEF Descend, Reply
  <2> QED
    BY <1>0, <1>1, <1>3, <2>1 DEF TableInv, PartFacts
<1>11. CASE AnswerList \/ AnswerRead \/ AnswerValue
  <2>1. here' = here /\ facts' = facts /\ state = "gathered" /\ state' = "answered"
    BY <1>11 DEF AnswerList, AnswerRead, AnswerValue, Reply
  <2> QED
    BY <1>0, <1>1, <1>3, <2>1 DEF TableInv, PartFacts
<1>12. CASE UNCHANGED vars
  <2>1. here' = here /\ facts' = facts /\ state' = state /\ walk' = walk
    BY <1>12 DEF vars
  <2> QED
    BY <1>0, <1>1, <1>3, <2>1 DEF TableInv, PartFacts
<1> QED
  BY <1>4, <1>5, <1>6, <1>7, <1>8, <1>9, <1>10, <1>11, <1>12 DEF Next, Step, Idle

(* What the entries at hand show lies on the disk.                         *)
LEMMA TableInvShows == TableInv => PartsOnTheDisk
<1> SUFFICES ASSUME TableInv, Kind \in Tables, NEW e \in ToSet(here.entries), NEW part \in ToSet(e.parts)
             PROVE  \/ Kind = "ldm" /\ part.at = Nothing
                    \/ part.len >= 0 /\ Room.at =< part.at /\ part.at + part.len =< Room.at + Room.len
  BY DEF PartsOnTheDisk
<1> DEFINE entries == here.entries
<1>1. EntriesFit(entries, Lies)
  BY DEF TableInv
<1> HIDE DEF entries
<1>2. e.parts \in Seq(Lies)
  <2>1. PICK i \in DOMAIN entries : e = entries[i]
    BY DEF ToSet, entries
  <2>2. i \in 1..Len(entries)
    BY <1>1, <2>1 DEF EntriesFit
  <2> QED
    BY <1>1, <2>1, <2>2 DEF EntriesFit
<1>3. part \in Lies
  <2> DEFINE parts == e.parts
  <2> HIDE DEF parts
  <2>1. PICK i \in DOMAIN parts : part = parts[i]
    BY DEF ToSet, parts
  <2>2. parts \in Seq(Lies)
    BY <1>2 DEF parts
  <2>3. i \in 1..Len(parts)
    BY <2>1, <2>2
  <2> QED
    BY <2>1, <2>2, <2>3
<1>4. CASE Kind = "lvm"
  <2> DEFINE area == LvmLabel(Volume)[1].data[1]
  <2>1. Room = area /\ Lies = InArea(area)
    BY <1>4 DEF Room, Lies
  <2> HIDE DEF area
  <2>2. part \in InArea(area)
    BY <1>3, <2>1
  <2> QED
    BY <2>1, <2>2 DEF InArea
<1>5. CASE Kind # "lvm"
  <2>1. Room = [at |-> 0, len |-> Volume.capacity]
    BY <1>5 DEF Room, Part
  <2>2. part \in Extent(Volume.capacity) \/ (Kind = "ldm" /\ part \in Gap)
    BY <1>3, <1>5 DEF Lies, Shows
  <2>3. CASE part \in Extent(Volume.capacity)
    <3>1. part.at \in Nat /\ part.len \in Nat /\ part.at + part.len =< Volume.capacity
      BY <2>3 DEF Extent
    <3>2. Volume.capacity \in Nat
      BY <1>5, TablesAssumption DEF TableInv, Tables, Kind, Volume, PartVolume, LdmTables, RaidTables
    <3> QED
      BY <2>1, <3>1, <3>2
  <2>4. CASE Kind = "ldm" /\ part \in Gap
    BY <2>4 DEF Gap
  <2> QED
    BY <2>2, <2>3, <2>4
<1> QED
  BY <1>4, <1>5

(* Whatever the tables of a disk say, what it shows ends where the disk    *)
(* does, or before: partitions of an MBR, of GPT and of the Apple map, JFS *)
(* volumes that are recovered and joined, extents of a Logical Disk        *)
(* Manager, and the member of an array; a segment of an LVM volume lies in *)
(* the data area (readPartitionTable, readDynamicDiskVolumes,              *)
(* parseLogicalVolumes, readLinuxRaidSuperblock).                          *)
THEOREM PartsAreOnTheDisk == Spec => []PartsOnTheDisk
<1>1. Init => TableInv
  BY NoEntriesFit DEF Init, TableInv, NothingHere
<1> QED
  BY <1>1, TableStep, TableInvShows, PTL DEF Spec
===============================================================================
