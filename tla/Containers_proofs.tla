--------------------------- MODULE Containers_proofs ---------------------------
(***************************************************************************)
(* What the stores of packed members give, whatever they kept of what they *)
(* decoded before: theorems about the machine of Containers, for any files *)
(* and any decoders' tables.                                               *)
(***************************************************************************)
EXTENDS Containers, Intervals, SequenceTheorems

-----------------------------------------------------------------------------
(* The smaller of two numbers.                                             *)
LEMMA LeastOfTwo ==
  ASSUME NEW a \in Int, NEW b \in Int
  PROVE  Min({a, b}) = IF a =< b THEN a ELSE b
<1> DEFINE m == IF a =< b THEN a ELSE b
<1>1. m \in {a, b} /\ \A y \in {a, b} : m =< y
  OBVIOUS
<1>2. \A x \in {a, b} : (\A y \in {a, b} : x =< y) => x = m
  OBVIOUS
<1> HIDE DEF m
<1>3. Min({a, b}) = m
  BY <1>1, <1>2 DEF Min
<1> QED
  BY <1>3 DEF m

(* A range of a sequence, by its ends.                                     *)
LEMMA SliceEnds ==
  ASSUME NEW T, NEW s \in Seq(T), NEW pos \in Nat, NEW n \in Nat
  PROVE  Slice(s, pos, n) = SubSeq(s, pos + 1, IF pos + n =< Len(s) THEN pos + n ELSE Len(s))
<1>1. Len(s) \in Int /\ pos + n \in Int
  OBVIOUS
<1> QED
  BY <1>1, LeastOfTwo DEF Slice

(* Nothing lies behind the end.                                            *)
LEMMA SliceBehind ==
  ASSUME NEW T, NEW s \in Seq(T), NEW pos \in Nat, NEW n \in Nat, pos >= Len(s)
  PROVE  Slice(s, pos, n) = <<>>
<1> DEFINE e == IF pos + n =< Len(s) THEN pos + n ELSE Len(s)
<1>1. e \in Int /\ e < pos + 1 /\ pos + 1 \in Int
  OBVIOUS
<1>2. Slice(s, pos, n) = SubSeq(s, pos + 1, e)
  BY SliceEnds
<1> HIDE DEF e
<1> QED
  BY <1>1, <1>2, SubSeqEmpty

(* A range of a part of a sequence is a range of the sequence.             *)
LEMMA SliceOfPart ==
  ASSUME NEW T, NEW s \in Seq(T), NEW i \in Nat, NEW j \in i..Len(s),
         NEW pos \in Nat, NEW n \in Nat, pos < j - i
  PROVE  Slice(SubSeq(s, i + 1, j), pos, n)
           = SubSeq(s, i + pos + 1, IF i + pos + n =< j THEN i + pos + n ELSE j)
<1> DEFINE t == SubSeq(s, i + 1, j)
           e == IF pos + n =< j - i THEN pos + n ELSE j - i
<1>1. t \in Seq(T) /\ Len(t) = j - i
  <2>1. i + 1 \in Int /\ j \in Int /\ \A k \in i + 1..j : s[k] \in T
    BY ElementOfSeq
  <2> QED
    BY <2>1, SubSeqProperties
<1>2. Slice(t, pos, n) = SubSeq(t, pos + 1, e)
  BY <1>1, SliceEnds
<1>3. CASE n = 0
  <2>1. e = pos /\ pos < pos + 1 /\ pos + 1 \in Int /\ pos \in Int
    BY <1>3
  <2>2. SubSeq(s, i + pos + 1, i + pos) = <<>>
    BY SubSeqEmpty
  <2>3. (IF i + pos + n =< j THEN i + pos + n ELSE j) = i + pos
    BY <1>3
  <2> HIDE DEF t, e
  <2>4. Slice(t, pos, n) = <<>>
    BY <1>2, <2>1, SubSeqEmpty
  <2> QED
    BY <2>2, <2>3, <2>4 DEF t
<1>4. CASE n # 0
  <2>1. /\ i + 1 \in 1..Len(s) /\ j \in 1..Len(s)
        /\ pos + 1 \in 1..j - (i + 1) + 1 /\ e \in 1..j - (i + 1) + 1
    BY <1>4
  <2>2. SubSeq(t, pos + 1, e) = SubSeq(s, (i + 1) + (pos + 1) - 1, (i + 1) + e - 1)
    <3> HIDE DEF e
    <3> QED
      BY <2>1, SubSeqOfSubSeq
  <2>3. (i + 1) + (pos + 1) - 1 = i + pos + 1
    OBVIOUS
  <2>4. (i + 1) + e - 1 = IF i + pos + n =< j THEN i + pos + n ELSE j
    OBVIOUS
  <2> QED
    BY <1>2, <2>2, <2>3, <2>4
<1> QED
  BY <1>3, <1>4

(* A sequence begins with itself and with nothing.                         *)
LEMMA BeginsWith ==
  ASSUME NEW T, NEW s \in Seq(T)
  PROVE  IsPrefix(s, s) /\ IsPrefix(<<>>, s)
<1>1. Len(<<>>) = 0 /\ Len(s) \in Nat /\ SubSeq(s, 1, 0) = <<>> /\ SubSeq(<<>>, 1, 0) = <<>>
  BY SubSeqEmpty
<1> QED
  BY <1>1 DEF IsPrefix

(* A range of a sequence is one.                                           *)
LEMMA SliceType ==
  ASSUME NEW T, NEW s \in Seq(T), NEW pos \in Nat, NEW n \in Nat
  PROVE  Slice(s, pos, n) \in Seq(T)
<1> DEFINE e == IF pos + n =< Len(s) THEN pos + n ELSE Len(s)
<1>1. pos + 1 \in Int /\ e \in Int /\ \A k \in pos + 1..e : s[k] \in T
  BY ElementOfSeq
<1>2. Slice(s, pos, n) = SubSeq(s, pos + 1, e)
  BY SliceEnds
<1> HIDE DEF e
<1> QED
  BY <1>1, <1>2, SubSeqProperties
-----------------------------------------------------------------------------
(* What a store may keep of a member between two reads: a prefix of it,    *)
(* all or nothing of it, or the chunk whose number it keeps; and that it   *)
(* failed only where the member was damaged.                               *)
KeepsPrefix(c, member, cache) ==
  \/ cache.failed = TRUE /\ member.damaged
  \/ cache.failed = FALSE /\ \E m \in 0..c.size : cache.bytes = SubSeq(member.bytes, 1, m)
KeepsAll(c, member, cache) ==
  \/ cache.failed = TRUE /\ member.damaged
  \/ cache.failed = FALSE /\ cache.bytes \in {<<>>, member.bytes}
KeepsChunk(c, member, cache) ==
  \/ cache.chunk = -1
  \/ cache.chunk \in ChunksOf(c) /\ cache.bytes = ChunkOf(c, member.bytes, cache.chunk)
IsCache(cache) == cache = [failed |-> cache.failed, bytes |-> cache.bytes, chunk |-> cache.chunk]
Keeps(c, member, cache) ==
  /\ IsCache(cache)
  /\ c.kind = "deflate" => KeepsPrefix(c, member, cache)
  /\ c.kind = "shrink" => KeepsAll(c, member, cache)
  /\ c.kind = "chunks" => KeepsChunk(c, member, cache)

(* What a read has to answer.                                              *)
Answered(member, pos, n, bytes) ==
  LET there == Slice(member.bytes, pos, n)
  IN  IF member.damaged THEN IsPrefix(bytes, there) ELSE bytes = there

(* A new store keeps nothing, and the range itself is always an answer;    *)
(* nothing is one where the member was damaged.                            *)
LEMMA NothingKept ==
  ASSUME NEW T, NEW c, NEW member, member.bytes \in Seq(T), c.size = Len(member.bytes)
  PROVE  Keeps(c, member, NoCache)
<1>1. NoCache.failed = FALSE /\ NoCache.bytes = <<>> /\ NoCache.chunk = -1 /\ IsCache(NoCache)
  BY DEF NoCache, IsCache
<1>2. SubSeq(member.bytes, 1, 0) = <<>> /\ 0 \in 0..c.size
  BY SubSeqEmpty
<1>3. KeepsPrefix(c, member, NoCache) /\ KeepsAll(c, member, NoCache) /\ KeepsChunk(c, member, NoCache)
  BY <1>1, <1>2 DEF KeepsPrefix, KeepsAll, KeepsChunk
<1> QED
  BY <1>1, <1>3 DEF Keeps

LEMMA RangeAnswers ==
  ASSUME NEW T, NEW member, member.bytes \in Seq(T), NEW pos \in Nat, NEW n \in Nat
  PROVE  Answered(member, pos, n, Slice(member.bytes, pos, n))
<1> DEFINE there == Slice(member.bytes, pos, n)
<1>1. there \in Seq(T)
  BY SliceType
<1> HIDE DEF there
<1>2. IsPrefix(there, there)
  BY <1>1, BeginsWith
<1> QED
  BY <1>2 DEF Answered, there

LEMMA NothingAnswers ==
  ASSUME NEW T, NEW member, member.bytes \in Seq(T), NEW pos \in Nat, NEW n \in Nat,
         member.damaged \/ pos >= Len(member.bytes)
  PROVE  Answered(member, pos, n, <<>>)
<1> DEFINE there == Slice(member.bytes, pos, n)
<1>1. there \in Seq(T)
  BY SliceType
<1>2. CASE pos >= Len(member.bytes)
  <2>1. there = <<>>
    BY <1>2, SliceBehind
  <2> QED
    BY <2>1, RangeAnswers
<1>3. CASE member.damaged
  <2> HIDE DEF there
  <2>1. IsPrefix(<<>>, there)
    BY <1>1, BeginsWith
  <2> QED
    BY <1>3, <2>1 DEF Answered, there
<1> QED
  BY <1>2, <1>3

-----------------------------------------------------------------------------
(* A member that lies in the file by a place for each of its bytes: a      *)
(* range of it lies at the places of the range.                            *)
GivesThere(s, place, pos, n) ==
  [i \in 1..Min({n, Len(s) - pos}) |-> place[pos + i - 1]] = Slice(s, pos, n)
LEMMA RangeOfPlaces ==
  ASSUME NEW T, NEW s \in Seq(T), NEW place, s = [i \in 1..Len(s) |-> place[0 + i - 1]],
         NEW pos \in Nat, NEW n \in Nat, pos < Len(s)
  PROVE  GivesThere(s, place, pos, n)
<1> DEFINE count == IF n =< Len(s) - pos THEN n ELSE Len(s) - pos
           e == IF pos + n =< Len(s) THEN pos + n ELSE Len(s)
           range == [i \in 1..count |-> place[pos + i - 1]]
<1>1. count \in Nat /\ e \in Int /\ e = pos + count /\ e =< Len(s)
  OBVIOUS
<1>2. Min({n, Len(s) - pos}) = count
  <2>1. Len(s) - pos \in Int /\ n \in Int
    OBVIOUS
  <2> QED
    BY <2>1, LeastOfTwo
<1>3. Slice(s, pos, n) = SubSeq(s, pos + 1, e)
  BY SliceEnds
<1>4. \A i \in 1..count : s[pos + i] = place[pos + i - 1]
  <2> TAKE i \in 1..count
  <2>1. pos + i \in 1..Len(s) /\ 0 + (pos + i) - 1 = pos + i - 1
    BY <1>1
  <2> DEFINE q == pos + i
  <2>2. q \in 1..Len(s)
    BY <2>1
  <2> HIDE DEF q
  <2>3. s[q] = place[0 + q - 1]
    BY <2>2
  <2> QED
    BY <2>1, <2>3 DEF q
<1> HIDE DEF count, e
<1>5. SubSeq(s, pos + 1, e) = [i \in 1..count |-> s[pos + i]]
  <2>1. pos + 1 \in Int /\ \A k \in pos + 1..e : s[k] \in T
    <3>1. \A k \in pos + 1..e : k \in 1..Len(s)
      BY <1>1
    <3> QED
      BY <3>1, ElementOfSeq
  <2> DEFINE u == SubSeq(s, pos + 1, e)
  <2>2. u \in Seq(T) /\ Len(u) = IF pos + 1 =< e THEN e - (pos + 1) + 1 ELSE 0
    BY <1>1, <2>1, SubSeqProperties
  <2>3. \A i \in 1..e - (pos + 1) + 1 : u[i] = s[(pos + 1) + i - 1]
    BY <1>1, <2>1, SubSeqProperties
  <2>4. e - (pos + 1) + 1 = count /\ \A i \in 1..count : (pos + 1) + i - 1 = pos + i
    BY <1>1
  <2> HIDE DEF u
  <2>5. Len(u) = count /\ u = [i \in 1..Len(u) |-> u[i]]
    BY <1>1, <2>2
  <2> QED
    BY <2>3, <2>4, <2>5 DEF u
<1> QED
  BY <1>2, <1>3, <1>4, <1>5 DEF GivesThere

(* Nothing is read behind the end, and nothing changes by it.              *)
LEMMA ReadsBehind ==
  ASSUME NEW T, NEW data, NEW c, NEW member, NEW cache, NEW pos \in Nat, NEW n \in Nat,
         member.bytes \in Seq(T), c.size = Len(member.bytes), pos >= c.size,
         Keeps(c, member, cache)
  PROVE  /\ Keeps(c, member, ReadOf(data, c, cache, pos, n).cache)
         /\ Answered(member, pos, n, ReadOf(data, c, cache, pos, n).bytes)
<1>1. ReadOf(data, c, cache, pos, n) = [cache |-> cache, bytes |-> <<>>]
  BY DEF ReadOf, Reply
<1>2. Answered(member, pos, n, <<>>)
  BY NothingAnswers
<1> QED
  BY <1>1, <1>2

(* What the module holds already decoded is read as it is.                 *)
LEMMA ReadsHeld ==
  ASSUME NEW T, NEW data, NEW c, NEW member, NEW cache, NEW pos \in Nat, NEW n \in Nat,
         member.bytes \in Seq(T), c.size = Len(member.bytes), pos < c.size,
         c.kind = "held", c.bytes = member.bytes, Keeps(c, member, cache)
  PROVE  /\ Keeps(c, member, ReadOf(data, c, cache, pos, n).cache)
         /\ Answered(member, pos, n, ReadOf(data, c, cache, pos, n).bytes)
<1>1. ReadOf(data, c, cache, pos, n) = [cache |-> cache, bytes |-> Slice(c.bytes, pos, n)]
  BY DEF ReadOf, Reply
<1>2. Answered(member, pos, n, Slice(member.bytes, pos, n))
  BY RangeAnswers
<1> QED
  BY <1>1, <1>2

(* A window of the file, a chain of sectors or of mini sectors, and the    *)
(* sectors of an image: a place for every byte.                            *)
LEMMA ReadsPlaces ==
  ASSUME NEW T, NEW data, NEW c, NEW member, NEW cache, NEW pos \in Nat, NEW n \in Nat,
         member.bytes \in Seq(T), c.size = Len(member.bytes), pos < c.size,
         c.kind \in {"range", "chain", "mini", "sectors"},
         ReadOf(data, c, NoCache, 0, c.size).bytes = member.bytes, Keeps(c, member, cache)
  PROVE  /\ Keeps(c, member, ReadOf(data, c, cache, pos, n).cache)
         /\ Answered(member, pos, n, ReadOf(data, c, cache, pos, n).bytes)
<1> DEFINE size == c.size
           PlaceOf(p) == CASE c.kind = "range" -> WindowPlace(c, p)
                           [] c.kind = "chain" -> ChainPlace(data, c, p)
                           [] c.kind = "mini" -> ChainPlace(data, RootStream(data), Place(c.ids, data.mini, 0, p))
                           [] c.kind = "sectors" -> SectorPlace(c, p)
           place == [p \in 0..size - 1 |-> PlaceOf(p)]
           Ranges(cch, q, m) ==
             ReadOf(data, c, cch, q, m) = [cache |-> cch, bytes |-> [i \in 1..Count(c, q, m) |-> PlaceOf(q + i - 1)]]
<1>1. size \in Nat /\ size = Len(member.bytes)
  OBVIOUS
<1>2. \A cch, q, m : ~(q >= c.size) => Ranges(cch, q, m)
  <2> SUFFICES ASSUME NEW cch, NEW q, NEW m, ~(q >= c.size)
               PROVE  Ranges(cch, q, m)
    OBVIOUS
  <2>1. CASE c.kind = "range"
    BY <2>1 DEF ReadOf, Reply, ReadWindow
  <2>2. CASE c.kind = "chain"
    BY <2>2 DEF ReadOf, Reply, ReadChain
  <2>3. CASE c.kind = "mini"
    BY <2>3 DEF ReadOf, Reply, ReadMini
  <2>4. CASE c.kind = "sectors"
    BY <2>4 DEF ReadOf, Reply, ReadSectors
  <2> QED
    BY <2>1, <2>2, <2>3, <2>4
<1> HIDE DEF PlaceOf
<1>3. \A q \in 0..size - 1, m \in Nat :
        [i \in 1..Count(c, q, m) |-> PlaceOf(q + i - 1)]
          = [i \in 1..Min({m, size - q}) |-> place[q + i - 1]]
  <2> SUFFICES ASSUME NEW q \in 0..size - 1, NEW m \in Nat
               PROVE  [i \in 1..Count(c, q, m) |-> PlaceOf(q + i - 1)]
                        = [i \in 1..Min({m, size - q}) |-> place[q + i - 1]]
    OBVIOUS
  <2>1. Count(c, q, m) = Min({m, size - q})
    BY DEF Count
  <2>2. Min({m, size - q}) = IF m =< size - q THEN m ELSE size - q
    <3>1. m \in Int /\ size - q \in Int
      BY <1>1
    <3> QED
      BY <3>1, LeastOfTwo
  <2>3. \A i \in 1..Min({m, size - q}) : q + i - 1 \in 0..size - 1
    BY <1>1, <2>2
  <2> QED
    BY <2>1, <2>3
<1>4. member.bytes = [i \in 1..size |-> place[0 + i - 1]]
  <2>1. 0 \in 0..size - 1 /\ ~(0 >= c.size) /\ size \in Nat
    BY <1>1
  <2>2. member.bytes = [i \in 1..Count(c, 0, c.size) |-> PlaceOf(0 + i - 1)]
    <3>1. Ranges(NoCache, 0, c.size)
      BY <1>2, <2>1
    <3> DEFINE there == [i \in 1..Count(c, 0, c.size) |-> PlaceOf(0 + i - 1)]
    <3>2. ReadOf(data, c, NoCache, 0, c.size) = [cache |-> NoCache, bytes |-> there]
      BY <3>1
    <3> HIDE DEF there
    <3>3. ReadOf(data, c, NoCache, 0, c.size).bytes = there
      BY <3>2
    <3> QED
      BY <3>3 DEF there
  <2>3. Min({size, size - 0}) = size
    <3>1. size - 0 = size /\ size \in Int
      BY <1>1
    <3> QED
      BY <3>1, LeastOfTwo
  <2> HIDE DEF place
  <2>4. [i \in 1..Count(c, 0, size) |-> PlaceOf(0 + i - 1)]
          = [i \in 1..Min({size, size - 0}) |-> place[0 + i - 1]]
    BY <1>3, <2>1
  <2> QED
    BY <2>2, <2>3, <2>4
<1>5. pos \in 0..size - 1 /\ ~(pos >= c.size)
  OBVIOUS
<1>6. [i \in 1..Min({n, size - pos}) |-> place[pos + i - 1]] = Slice(member.bytes, pos, n)
  <2> HIDE DEF place
  <2>1. member.bytes = [i \in 1..Len(member.bytes) |-> place[0 + i - 1]]
    BY <1>1, <1>4
  <2> DEFINE s == member.bytes
  <2>2. s \in Seq(T) /\ pos < Len(s) /\ s = [i \in 1..Len(s) |-> place[0 + i - 1]]
    BY <2>1
  <2> HIDE DEF s
  <2>3. [i \in 1..Min({n, Len(s) - pos}) |-> place[pos + i - 1]] = Slice(s, pos, n)
    <3>1. GivesThere(s, place, pos, n)
      BY <2>2, RangeOfPlaces
    <3> QED
      BY <3>1 DEF GivesThere
  <2>4. size = Len(s) /\ s = member.bytes
    BY <1>1 DEF s
  <2> DEFINE left == Min({n, size - pos})
  <2>5. left = Min({n, Len(s) - pos})
    BY <2>4
  <2> HIDE DEF left
  <2>6. [i \in 1..left |-> place[pos + i - 1]] = Slice(s, pos, n)
    BY <2>3, <2>5
  <2> QED
    BY <2>4, <2>6 DEF left
<1>7. ReadOf(data, c, cache, pos, n) = [cache |-> cache, bytes |-> Slice(member.bytes, pos, n)]
  <2> HIDE DEF place
  <2>1. Ranges(cache, pos, n)
    BY <1>2, <1>5
  <2> QED
    BY <2>1, <1>3, <1>5, <1>6
<1>8. Answered(member, pos, n, Slice(member.bytes, pos, n))
  BY RangeAnswers
<1> QED
  BY <1>7, <1>8

-----------------------------------------------------------------------------
(* A store that decodes a prefix: what it keeps is a prefix of the member  *)
(* as long as was wanted, or the member was damaged.                       *)
KeepsWanted(c, member, wanted, cache) ==
  /\ Keeps(c, member, cache)
  /\ \/ cache.failed = TRUE /\ member.damaged
     \/ /\ cache.failed = FALSE
        /\ \E m \in wanted..c.size : cache.bytes = SubSeq(member.bytes, 1, m)
LEMMA PrefixKept ==
  ASSUME NEW T, NEW data, NEW c, NEW member, NEW cache, NEW wanted \in Nat,
         member.bytes \in Seq(T), IsPackedAs(data, c, member), c.kind = "deflate",
         Keeps(c, member, cache), wanted =< c.size
  PROVE  KeepsWanted(c, member, wanted, EnsurePrefix(data, c, cache, wanted))
<1> DEFINE next == EnsurePrefix(data, c, cache, wanted)
           FarEnough(kept) == \/ kept.failed = TRUE /\ member.damaged
                         \/ /\ kept.failed = FALSE
                            /\ \E m \in wanted..c.size : kept.bytes = SubSeq(member.bytes, 1, m)
           Good(kept) == IsCache(kept) /\ FarEnough(kept)
<1>1. /\ c.size = Len(member.bytes) /\ c.size \in Nat
      /\ c.at > data.size - c.packed => member.damaged
      /\ \A n \in 1..c.size : Gives(Prefix(data, c, n), SubSeq(member.bytes, 1, n), member.damaged)
  BY DEF IsPackedAs
<1>2. IsCache(cache) /\ KeepsPrefix(c, member, cache)
  BY DEF Keeps
<1>3. \A kept : Good(kept) => KeepsWanted(c, member, wanted, kept)
  <2> SUFFICES ASSUME NEW kept, Good(kept) PROVE KeepsWanted(c, member, wanted, kept)
    OBVIOUS
  <2>1. KeepsPrefix(c, member, kept)
    BY <1>1 DEF KeepsPrefix
  <2>2. Keeps(c, member, kept)
    BY <2>1 DEF Keeps
  <2> QED
    BY <2>2 DEF KeepsWanted
<1>4. CASE cache.failed
  <2>1. next = cache /\ Good(cache)
    BY <1>2, <1>4 DEF EnsurePrefix, KeepsPrefix
  <2> QED
    BY <1>3, <2>1
<1>5. CASE ~cache.failed
  <2>1. cache.failed = FALSE
    BY <1>2, <1>5 DEF KeepsPrefix
  <2>2. PICK m \in 0..c.size : cache.bytes = SubSeq(member.bytes, 1, m)
    BY <1>2, <1>5 DEF KeepsPrefix
  <2>3. Len(cache.bytes) = m
    <3>1. m \in Int /\ 1 \in Int /\ \A i \in 1..m : member.bytes[i] \in T
      <4>1. \A i \in 1..m : i \in 1..Len(member.bytes)
        BY <1>1
      <4> QED
        BY <4>1, ElementOfSeq
    <3>2. Len(SubSeq(member.bytes, 1, m)) = IF 1 =< m THEN m - 1 + 1 ELSE 0
      BY <3>1, SubSeqProperties
    <3> QED
      BY <2>2, <3>2
  <2>4. CASE m >= wanted
    <3>1. next = cache
      BY <2>3, <2>4 DEF EnsurePrefix
    <3>2. m \in wanted..c.size
      BY <2>4
    <3>3. Good(cache)
      BY <1>2, <2>1, <2>2, <3>2
    <3> QED
      BY <1>3, <3>1, <3>3
  <2>5. CASE m < wanted /\ c.at > data.size - c.packed
    <3>1. next = [cache EXCEPT !.failed = TRUE]
      BY <1>5, <2>3, <2>5 DEF EnsurePrefix
    <3>2. Good(next)
      <4>1. next.failed = TRUE /\ IsCache(next)
        BY <1>2, <3>1 DEF IsCache
      <4> QED
        BY <1>1, <2>5, <4>1
    <3> QED
      BY <1>3, <3>2
  <2>6. CASE m < wanted /\ ~(c.at > data.size - c.packed)
    <3> DEFINE got == Prefix(data, c, wanted)
    <3>1. next = Decoded(cache, got)
      BY <1>5, <2>3, <2>6 DEF EnsurePrefix, Prefix
    <3>2. wanted \in 1..c.size /\ Gives(got, SubSeq(member.bytes, 1, wanted), member.damaged)
      BY <1>1, <2>6
    <3> HIDE DEF got
    <3>3. next.failed = ~got.ok /\ next.bytes = got.out /\ IsCache(next)
      BY <1>2, <3>1 DEF Decoded, IsCache
    <3>4. CASE got.ok
      <4>1. next.failed = FALSE /\ next.bytes = SubSeq(member.bytes, 1, wanted)
        BY <3>2, <3>3, <3>4 DEF Gives
      <4>2. wanted \in wanted..c.size
        BY <3>2
      <4>3. Good(next)
        BY <3>3, <4>1, <4>2
      <4> QED
        BY <1>3, <4>3
    <3>5. CASE ~got.ok
      <4>1. next.failed = TRUE /\ member.damaged
        BY <3>2, <3>3, <3>5 DEF Gives
      <4>2. Good(next)
        BY <3>3, <4>1
      <4> QED
        BY <1>3, <4>2
    <3> QED
      BY <3>4, <3>5
  <2>7. m >= wanted \/ m < wanted
    BY <1>1
  <2> HIDE DEF next, FarEnough
  <2> QED
    BY <2>4, <2>5, <2>6, <2>7
<1> QED
  BY <1>4, <1>5

(* A range of a prefix that is long enough is the range of the member.     *)
LEMMA SliceOfPrefix ==
  ASSUME NEW T, NEW s \in Seq(T), NEW pos \in Nat, NEW n \in Nat, pos < Len(s), NEW m \in Nat,
         m =< Len(s), (IF pos + n =< Len(s) THEN pos + n ELSE Len(s)) =< m
  PROVE  Slice(SubSeq(s, 1, m), pos, IF n =< Len(s) - pos THEN n ELSE Len(s) - pos) = Slice(s, pos, n)
<1> DEFINE part == SubSeq(s, 1, m)
           count == IF n =< Len(s) - pos THEN n ELSE Len(s) - pos
           e == IF pos + n =< Len(s) THEN pos + n ELSE Len(s)
<1>1. count \in Nat /\ e = pos + count /\ e \in Nat /\ e =< m
  OBVIOUS
<1>2. Slice(s, pos, n) = SubSeq(s, pos + 1, e)
  BY SliceEnds
<1>3. part \in Seq(T)
  <2>1. 1 \in Int /\ m \in Int /\ \A k \in 1..m : s[k] \in T
    <3>1. \A k \in 1..m : k \in 1..Len(s)
      OBVIOUS
    <3> QED
      BY <3>1, ElementOfSeq
  <2> QED
    BY <2>1, SubSeqProperties
<1>4. CASE pos < m
  <2> HIDE DEF count, e
  <2>1. m \in 0..Len(s) /\ pos < m - 0 /\ 0 \in Nat
    BY <1>4
  <2>2. Slice(SubSeq(s, 0 + 1, m), pos, count)
          = SubSeq(s, 0 + pos + 1, IF 0 + pos + count =< m THEN 0 + pos + count ELSE m)
    BY <1>1, <2>1, SliceOfPart
  <2>3. 0 + 1 = 1 /\ 0 + pos + 1 = pos + 1 /\ (IF 0 + pos + count =< m THEN 0 + pos + count ELSE m) = e
    BY <1>1
  <2> QED
    BY <1>2, <2>2, <2>3 DEF count
<1>5. CASE pos >= m
  <2>1. e = pos
    BY <1>1, <1>5
  <2>2. Len(part) = m
    <3>1. \A k \in 1..m : k \in 1..Len(s)
      OBVIOUS
    <3>2. 1 \in Int /\ m \in Int /\ \A k \in 1..m : s[k] \in T
      BY <3>1, ElementOfSeq
    <3>3. Len(part) = IF 1 =< m THEN m - 1 + 1 ELSE 0
      BY <3>2, SubSeqProperties
    <3> QED
      BY <3>3
  <2> HIDE DEF part, count, e
  <2>3. Slice(part, pos, count) = <<>>
    BY <1>1, <1>3, <1>5, <2>2, SliceBehind
  <2>4. pos + 1 \in Int /\ e \in Int /\ e < pos + 1
    BY <2>1
  <2>5. SubSeq(s, pos + 1, e) = <<>>
    BY <2>4, SubSeqEmpty
  <2> QED
    BY <1>2, <2>3, <2>5 DEF part, count
<1> QED
  BY <1>4, <1>5

(* A deflated member.                                                      *)
LEMMA ReadsDeflated ==
  ASSUME NEW T, NEW data, NEW c, NEW member, NEW cache, NEW pos \in Nat, NEW n \in Nat,
         member.bytes \in Seq(T), IsPackedAs(data, c, member), c.kind = "deflate", pos < c.size,
         Keeps(c, member, cache)
  PROVE  /\ Keeps(c, member, ReadOf(data, c, cache, pos, n).cache)
         /\ Answered(member, pos, n, ReadOf(data, c, cache, pos, n).bytes)
<1> DEFINE wanted == IF c.size =< pos + n THEN c.size ELSE pos + n
           count == IF c.size - pos =< n THEN c.size - pos ELSE n
           next == EnsurePrefix(data, c, cache, wanted)
           bytes == IF next.failed THEN <<>> ELSE Slice(next.bytes, pos, count)
<1>1. c.size = Len(member.bytes) /\ c.size \in Nat
  BY DEF IsPackedAs
<1>2. Min({c.size, pos + n}) = wanted /\ Min({c.size - pos, n}) = count
  <2>1. c.size \in Int /\ pos + n \in Int /\ c.size - pos \in Int /\ n \in Int
    BY <1>1
  <2> QED
    BY <2>1, LeastOfTwo
<1>3. wanted \in Nat /\ wanted =< c.size /\ count = (IF n =< c.size - pos THEN n ELSE c.size - pos)
  BY <1>1
<1>4. wanted = IF pos + n =< Len(member.bytes) THEN pos + n ELSE Len(member.bytes)
  BY <1>1
<1> HIDE DEF wanted
<1>5. /\ Keeps(c, member, next)
      /\ \/ next.failed = TRUE /\ member.damaged
         \/ /\ next.failed = FALSE
            /\ \E m \in wanted..c.size : next.bytes = SubSeq(member.bytes, 1, m)
  <2>1. KeepsWanted(c, member, wanted, next)
    BY <1>3, PrefixKept
  <2> HIDE DEF next
  <2> QED
    BY <2>1 DEF KeepsWanted
<1> HIDE DEF next, count
<1>6. ReadOf(data, c, cache, pos, n) = [cache |-> next, bytes |-> bytes]
  <2>1. ReadOf(data, c, cache, pos, n) = ReadDeflate(data, c, cache, pos, n)
    BY <1>1 DEF ReadOf
  <2>2. ReadDeflate(data, c, cache, pos, n) = Answer(next, pos, count)
    BY <1>2 DEF ReadDeflate, next
  <2> QED
    BY <2>1, <2>2 DEF Answer, Reply
<1>7. Answered(member, pos, n, bytes)
  <2>1. CASE next.failed = TRUE /\ member.damaged
    <3>1. bytes = <<>>
      BY <2>1
    <3> QED
      BY <2>1, <3>1, NothingAnswers
  <2>2. CASE next.failed = FALSE /\ \E m \in wanted..c.size : next.bytes = SubSeq(member.bytes, 1, m)
    <3>1. PICK m \in wanted..c.size : next.bytes = SubSeq(member.bytes, 1, m)
      BY <2>2
    <3>2. bytes = Slice(SubSeq(member.bytes, 1, m), pos, count)
      BY <2>2, <3>1
    <3> DEFINE s == member.bytes
    <3>3. s \in Seq(T) /\ pos < Len(s) /\ m \in Nat /\ m =< Len(s)
      BY <1>1, <1>3
    <3>4. (IF pos + n =< Len(s) THEN pos + n ELSE Len(s)) =< m
      BY <1>3, <1>4
    <3>5. count = IF n =< Len(s) - pos THEN n ELSE Len(s) - pos
      BY <1>1, <1>3
    <3> HIDE DEF s, bytes
    <3>6. Slice(SubSeq(s, 1, m), pos, IF n =< Len(s) - pos THEN n ELSE Len(s) - pos) = Slice(s, pos, n)
      BY <3>3, <3>4, SliceOfPrefix
    <3>7. bytes = Slice(s, pos, n)
      BY <3>2, <3>5, <3>6 DEF s
    <3> QED
      BY <3>7, RangeAnswers DEF s
  <2> QED
    BY <1>5, <2>1, <2>2
<1> HIDE DEF bytes
<1> QED
  BY <1>5, <1>6, <1>7

(* A member that is decoded whole.                                         *)
LEMMA ReadsShrunk ==
  ASSUME NEW T, NEW data, NEW c, NEW member, NEW cache, NEW pos \in Nat, NEW n \in Nat,
         member.bytes \in Seq(T), IsPackedAs(data, c, member), c.kind = "shrink", pos < c.size,
         Keeps(c, member, cache)
  PROVE  /\ Keeps(c, member, ReadOf(data, c, cache, pos, n).cache)
         /\ Answered(member, pos, n, ReadOf(data, c, cache, pos, n).bytes)
<1> DEFINE next == EnsureDecoded(data, c, cache)
           bytes == IF next.failed THEN <<>> ELSE Slice(next.bytes, pos, n)
           got == ShrinkDecoded(Packed(data, c), c.size)
<1>1. /\ c.size = Len(member.bytes) /\ c.size \in Nat
      /\ Gives(got, member.bytes, member.damaged)
  BY DEF IsPackedAs
<1>2. IsCache(cache) /\ KeepsAll(c, member, cache)
  BY DEF Keeps
<1>3. /\ Keeps(c, member, next)
      /\ \/ next.failed = TRUE /\ member.damaged
         \/ next.failed = FALSE /\ next.bytes = member.bytes
  <2>1. \A kept : /\ IsCache(kept)
                  /\ \/ kept.failed = TRUE /\ member.damaged
                     \/ kept.failed = FALSE /\ kept.bytes = member.bytes
                  => Keeps(c, member, kept)
    BY DEF Keeps, KeepsAll
  <2>2. CASE cache.failed = TRUE /\ member.damaged
    <3>1. next = cache
      BY <2>2 DEF EnsureDecoded
    <3> HIDE DEF next
    <3> QED
      BY <1>2, <2>1, <2>2, <3>1
  <2>3. CASE cache.failed = FALSE /\ cache.bytes # <<>>
    <3>1. next = cache /\ cache.bytes = member.bytes
      BY <1>2, <2>3 DEF EnsureDecoded, KeepsAll
    <3> HIDE DEF next
    <3> QED
      BY <1>2, <2>1, <2>3, <3>1
  <2>4. CASE cache.failed = FALSE /\ cache.bytes = <<>>
    <3>1. next = Decoded(cache, got)
      BY <2>4 DEF EnsureDecoded
    <3> HIDE DEF got, next
    <3>2. next.failed = ~got.ok /\ next.bytes = got.out /\ IsCache(next)
      BY <1>2, <3>1 DEF Decoded, IsCache
    <3>3. \/ next.failed = TRUE /\ member.damaged
          \/ next.failed = FALSE /\ next.bytes = member.bytes
      <4>1. CASE got.ok
        BY <1>1, <3>2, <4>1 DEF Gives
      <4>2. CASE ~got.ok
        BY <1>1, <3>2, <4>2 DEF Gives
      <4> QED
        BY <4>1, <4>2
    <3> QED
      BY <2>1, <3>2, <3>3
  <2> QED
    BY <1>2, <2>2, <2>3, <2>4 DEF KeepsAll
<1> HIDE DEF next, got
<1>4. ReadOf(data, c, cache, pos, n) = [cache |-> next, bytes |-> bytes]
  <2>1. ReadOf(data, c, cache, pos, n) = ReadShrink(data, c, cache, pos, n)
    BY <1>1 DEF ReadOf
  <2>2. ReadShrink(data, c, cache, pos, n) = Answer(next, pos, n)
    BY DEF ReadShrink, next
  <2> QED
    BY <2>1, <2>2 DEF Answer, Reply
<1>5. Answered(member, pos, n, bytes)
  <2>1. CASE next.failed = TRUE /\ member.damaged
    <3>1. bytes = <<>>
      BY <2>1
    <3> QED
      BY <2>1, <3>1, NothingAnswers
  <2>2. CASE next.failed = FALSE /\ next.bytes = member.bytes
    <3>1. bytes = Slice(member.bytes, pos, n)
      BY <2>2
    <3> QED
      BY <3>1, RangeAnswers
  <2> QED
    BY <1>3, <2>1, <2>2
<1> HIDE DEF bytes
<1> QED
  BY <1>3, <1>4, <1>5

-----------------------------------------------------------------------------
(* A place in a member is a place in one of its chunks.                    *)
LEMMA PlaceInChunk ==
  ASSUME NEW p \in Nat, NEW unit \in Nat \ {0}
  PROVE  /\ p \div unit \in Nat /\ p % unit \in Nat /\ p % unit < unit
         /\ (p \div unit) * unit \in Nat /\ p = (p \div unit) * unit + (p % unit)
<1>1. p \div unit \in Nat /\ p % unit \in 0..unit - 1
  OBVIOUS
<1>2. p = (p \div unit) * unit + (p % unit)
  OBVIOUS
<1>3. \A a \in Nat, b \in Nat : a * b \in Nat
  OBVIOUS
<1> QED
  BY <1>1, <1>2, <1>3

(* The length of a part.                                                   *)
LEMMA PartLength ==
  ASSUME NEW T, NEW s \in Seq(T), NEW a \in Nat, NEW b \in Nat, a =< b, b =< Len(s)
  PROVE  SubSeq(s, a + 1, b) \in Seq(T) /\ Len(SubSeq(s, a + 1, b)) = b - a
<1>1. \A k \in a + 1..b : k \in 1..Len(s)
  OBVIOUS
<1>2. a + 1 \in Int /\ b \in Int /\ \A k \in a + 1..b : s[k] \in T
  BY <1>1, ElementOfSeq
<1>3. SubSeq(s, a + 1, b) \in Seq(T) /\ Len(SubSeq(s, a + 1, b)) = IF a + 1 =< b THEN b - (a + 1) + 1 ELSE 0
  BY <1>2, SubSeqProperties
<1> QED
  BY <1>3

(* The store takes the chunk it wants, whatever chunk it has.              *)
Holding(c, s, k) == [failed |-> FALSE, bytes |-> ChunkOf(c, s, k), chunk |-> k]
LEMMA ChunkTaken ==
  ASSUME NEW data, NEW c, NEW member, NEW cache, NEW k \in Int, k >= 0, k \in ChunksOf(c),
         IsPackedAs(data, c, member), c.kind = "chunks", IsCache(cache), KeepsChunk(c, member, cache)
  PROVE  EnsureChunk(data, c, cache, k) = Holding(c, member.bytes, k)
<1> DEFINE got == ChunkDecoded(data, c, k)
           length == ChunkLength(c, k)
           there == ChunkOf(c, member.bytes, k)
<1>1. length \in Nat /\ Gives(got, there, FALSE)
  BY DEF IsPackedAs
<1>2. length \in Nat => ~(length < 0)
  OBVIOUS
<1> HIDE DEF got, there
<1>3. CASE cache.chunk = k
  <2>1. cache.bytes = there
    BY <1>3 DEF KeepsChunk, there
  <2>2. EnsureChunk(data, c, cache, k) = [cache EXCEPT !.failed = FALSE]
    BY <1>3 DEF EnsureChunk
  <2>3. [cache EXCEPT !.failed = FALSE] = [failed |-> FALSE, bytes |-> there, chunk |-> k]
    <3> DEFINE next == [cache EXCEPT !.failed = FALSE]
    <3>1. next.failed = FALSE /\ next.bytes = cache.bytes /\ next.chunk = cache.chunk /\ IsCache(next)
      <4>1. DOMAIN cache = {"failed", "bytes", "chunk"} /\ cache = [x \in DOMAIN cache |-> cache[x]]
        BY DEF IsCache
      <4>2. next.failed = FALSE /\ next.bytes = cache.bytes /\ next.chunk = cache.chunk
        BY <4>1
      <4>3. DOMAIN next = {"failed", "bytes", "chunk"} /\ next = [x \in DOMAIN next |-> next[x]]
        BY <4>1
      <4> HIDE DEF next
      <4>4. IsCache(next)
        BY <4>3 DEF IsCache
      <4> QED
        BY <4>2, <4>4
    <3> HIDE DEF next
    <3>2. next = [failed |-> next.failed, bytes |-> next.bytes, chunk |-> next.chunk]
      BY <3>1 DEF IsCache
    <3>3. next = [failed |-> FALSE, bytes |-> there, chunk |-> k]
      BY <1>3, <2>1, <3>1, <3>2
    <3> QED
      BY <3>3 DEF next
  <2> QED
    BY <2>2, <2>3 DEF Holding, there
<1>4. CASE cache.chunk # k
  <2>1. EnsureChunk(data, c, cache, k) = CacheChunk(c, cache, k, got)
    BY <1>1, <1>2, <1>4 DEF EnsureChunk, got
  <2>2. got.ok /\ got.out = there
    BY <1>1 DEF Gives
  <2>3. CacheChunk(c, cache, k, got) = [failed |-> FALSE, bytes |-> got.out, chunk |-> k]
    BY <2>2 DEF CacheChunk
  <2> QED
    BY <2>1, <2>2, <2>3 DEF Holding, there
<1> QED
  BY <1>3, <1>4

(* How much of a range there is.                                           *)
Due(s, pos, n) == IF pos + n =< Len(s) THEN n ELSE Len(s) - pos
ChunkState(kept, s, pos, m) == [cache |-> kept, bytes |-> SubSeq(s, pos + 1, pos + m), over |-> FALSE]

(* What a chunk holds of a range from a place in it on.                    *)
HoldsFrom(c, s, from, n) ==
  \E e \in from + 1..Len(s) :
    /\ e =< from + n
    /\ Slice(ChunkOf(c, s, from \div c.unit), from % c.unit, n) = SubSeq(s, from + 1, e)
LEMMA ChunkGives ==
  ASSUME NEW T, NEW c, NEW s \in Seq(T), NEW from \in Nat, NEW n \in Nat, n # 0,
         from < Len(s), c.unit \in Nat \ {0}
  PROVE  HoldsFrom(c, s, from, n)
<1> DEFINE unit == c.unit
           k == from \div unit
           r == from % unit
           base == k * unit
           j == IF base + unit =< Len(s) THEN base + unit ELSE Len(s)
           e == IF base + r + n =< j THEN base + r + n ELSE j
<1>1. unit \in Nat \ {0}
  OBVIOUS
<1>2. k \in Nat /\ r \in Nat /\ r < unit /\ base \in Nat /\ from = base + r
  BY <1>1, PlaceInChunk
<1>3. Slice(s, base, unit) = SubSeq(s, base + 1, j)
  BY <1>1, <1>2, SliceEnds
<1>4. ChunkOf(c, s, k) = Slice(s, base, unit)
  BY DEF ChunkOf
<1> HIDE DEF base, k, r, unit
<1>5. j \in base..Len(s) /\ r < j - base
  BY <1>1, <1>2
<1> HIDE DEF j
<1>6. Slice(SubSeq(s, base + 1, j), r, n)
        = SubSeq(s, base + r + 1, e)
  BY <1>2, <1>5, SliceOfPart
<1>7. e \in from + 1..Len(s) /\ e =< from + n
  BY <1>2, <1>5
<1>8. base + r + 1 = from + 1
  BY <1>2
<1> HIDE DEF e
<1>9. Slice(ChunkOf(c, s, k), r, n) = SubSeq(s, from + 1, e)
  BY <1>3, <1>4, <1>6, <1>8
<1> QED
  BY <1>7, <1>9 DEF k, r, unit, HoldsFrom

(* A read that goes on.                                                    *)
GoesOn(st, after, got) ==
  [st EXCEPT !.cache = after, !.bytes = @ \o got] = [cache |-> after, bytes |-> st.bytes \o got, over |-> FALSE]
LEMMA ReadSoFar ==
  ASSUME NEW st, NEW after, NEW got, st = [cache |-> st.cache, bytes |-> st.bytes, over |-> FALSE]
  PROVE  GoesOn(st, after, got)
<1> DEFINE bytes == st.bytes \o got
           next == [st EXCEPT !.cache = after, !.bytes = bytes]
<1>1. st.over = FALSE /\ DOMAIN st = {"cache", "bytes", "over"}
  OBVIOUS
<1> HIDE DEF bytes
<1>2. DOMAIN next = {"cache", "bytes", "over"} /\ next = [x \in DOMAIN next |-> next[x]]
  BY <1>1
<1>3. next.cache = after /\ next.bytes = bytes /\ next.over = FALSE
  BY <1>1
<1> HIDE DEF next
<1>4. next = [cache |-> after, bytes |-> bytes, over |-> FALSE]
  BY <1>2, <1>3
<1> QED
  BY <1>4 DEF next, bytes, GoesOn

(* The caches a read of a member in chunks leaves, and a turn of the read. *)
KeptChunks(c, s, cache) == {cache} \cup {Holding(c, s, k) : k \in ChunksOf(c)}
ReadsOn(c, s, cache, pos, n, m, st) ==
  \E kept \in KeptChunks(c, s, cache), next \in 0..Due(s, pos, n) :
    st = ChunkState(kept, s, pos, next) /\ (next > m \/ next = Due(s, pos, n))

LEMMA ChunkTurn ==
  ASSUME NEW T, NEW data, NEW c, NEW member, NEW cache, NEW pos \in Nat, NEW n \in Nat,
         member.bytes \in Seq(T), IsPackedAs(data, c, member), c.kind = "chunks", pos < c.size,
         Keeps(c, member, cache),
         NEW kept \in KeptChunks(c, member.bytes, cache), NEW m \in 0..Due(member.bytes, pos, n)
  PROVE  ReadsOn(c, member.bytes, cache, pos, n, m,
                 ReadChunk(data, c, pos, n, ChunkState(kept, member.bytes, pos, m)))
<1> DEFINE s == member.bytes
           st == ChunkState(kept, s, pos, m)
           due == Due(s, pos, n)
           from == pos + m
           unit == c.unit
           k == from \div unit
           after == EnsureChunk(data, c, kept, k)
           got == Slice(after.bytes, from % unit, n - m)
<1>1. s \in Seq(T) /\ c.size = Len(s) /\ c.size \in Nat /\ unit \in Nat \ {0}
  BY DEF IsPackedAs
<1>2. due \in Nat /\ due =< n /\ pos + due =< Len(s) /\ (due = n \/ pos + due = Len(s))
  BY <1>1 DEF Due
<1> HIDE DEF due
<1>3. m \in Nat /\ from \in Nat /\ m =< due /\ from =< Len(s)
  BY <1>1, <1>2 DEF due
<1>4. st.cache = kept /\ st.bytes = SubSeq(s, pos + 1, from) /\ st.over = FALSE
  BY DEF ChunkState
<1>5. st.bytes \in Seq(T) /\ Len(st.bytes) = m
  <2>1. pos =< from /\ from - pos = m
    BY <1>3
  <2> HIDE DEF s, st, from
  <2> QED
    BY <1>1, <1>3, <1>4, <2>1, PartLength
<1> HIDE DEF st
<1>6. ReadChunk(data, c, pos, n, st) =
        IF st.over \/ m = n \/ from >= c.size THEN st
        ELSE IF after.failed \/ got = <<>> THEN [st EXCEPT !.cache = after, !.over = TRUE]
        ELSE [st EXCEPT !.cache = after, !.bytes = @ \o got]
  BY <1>4, <1>5 DEF ReadChunk, Taken
<1>7. CASE m = due
  <2>1. m = n \/ from >= c.size
    BY <1>1, <1>2, <1>3, <1>7
  <2>2. ReadChunk(data, c, pos, n, st) = st
    BY <1>6, <2>1
  <2> QED
    BY <1>7, <2>2 DEF ReadsOn, st, due
<1>8. CASE m # due
  <2>1. m < due /\ m # n /\ from < c.size
    BY <1>1, <1>2, <1>3, <1>8
  <2>2. k \in Int /\ k >= 0 /\ k \in ChunksOf(c)
    <3>1. k \in Nat /\ from \in 0..c.size - 1
      BY <1>1, <1>3, <2>1, PlaceInChunk
    <3> QED
      BY <3>1 DEF ChunksOf
  <2>3. IsCache(kept) /\ KeepsChunk(c, member, kept)
    <3>1. CASE kept = cache
      BY <3>1 DEF Keeps
    <3>2. CASE kept \in {Holding(c, s, i) : i \in ChunksOf(c)}
      <4>1. PICK i \in ChunksOf(c) : kept = Holding(c, s, i)
        BY <3>2
      <4>2. kept.bytes = ChunkOf(c, s, i) /\ kept.chunk = i /\ IsCache(kept)
        BY <4>1 DEF Holding, IsCache
      <4> QED
        BY <4>2 DEF KeepsChunk
    <3> QED
      BY <3>1, <3>2 DEF KeptChunks
  <2>4. after = Holding(c, s, k)
    <3> HIDE DEF k
    <3> QED
      BY <2>2, <2>3, ChunkTaken
  <2> HIDE DEF after
  <2>5. after.failed = FALSE /\ after.bytes = ChunkOf(c, s, k) /\ after \in KeptChunks(c, s, cache)
    BY <2>2, <2>4 DEF Holding, KeptChunks
  <2>6. PICK e \in from + 1..Len(s) : e =< from + (n - m) /\ got = SubSeq(s, from + 1, e)
    <3>1. n - m \in Nat /\ n - m # 0 /\ from < Len(s)
      BY <1>1, <1>2, <2>1
    <3> DEFINE left == n - m
    <3> HIDE DEF left, s, from
    <3>2. left \in Nat /\ left # 0 /\ c.unit \in Nat \ {0}
      BY <1>1, <3>1 DEF left
    <3>3. HoldsFrom(c, s, from, left)
      BY <1>1, <1>3, <3>1, <3>2, ChunkGives
    <3> QED
      BY <2>5, <3>3 DEF left, HoldsFrom
  <2> HIDE DEF got
  <2>7. got \in Seq(T) /\ Len(got) = e - from /\ e - from > 0
    <3>1. e \in Nat /\ from =< e /\ e =< Len(s) /\ e - from > 0
      BY <1>1, <1>3, <2>6
    <3> HIDE DEF s, from
    <3> QED
      BY <1>1, <1>3, <2>6, <3>1, PartLength
  <2>8. got # <<>>
    <3>1. Len(<<>>) = 0
      OBVIOUS
    <3> QED
      BY <2>7, <3>1
  <2>9. ReadChunk(data, c, pos, n, st) = [st EXCEPT !.cache = after, !.bytes = @ \o got]
    BY <1>4, <1>6, <2>1, <2>5, <2>8, <1>1
  <2>10. st.bytes \o got = SubSeq(s, pos + 1, e)
    <3>1. pos + 1 \in 1..Len(s) + 1 /\ from \in (pos + 1) - 1..Len(s) /\ e \in from..Len(s)
      BY <1>1, <1>3, <2>6
    <3> HIDE DEF s, from
    <3>2. SubSeq(s, pos + 1, from) \o SubSeq(s, from + 1, e) = SubSeq(s, pos + 1, e)
      BY <1>1, <3>1, ConcatAdjacentSubSeq
    <3> QED
      BY <1>4, <2>6, <3>2
  <2> DEFINE next == e - pos
  <2>11. next \in 0..due /\ next > m /\ pos + next = e
    BY <1>1, <1>2, <1>3, <2>1, <2>6
  <2> HIDE DEF next
  <2>12. ReadChunk(data, c, pos, n, st) = ChunkState(after, s, pos, next)
    <3>1. st = [cache |-> st.cache, bytes |-> st.bytes, over |-> FALSE]
      BY <1>4 DEF st, ChunkState
    <3>2. [st EXCEPT !.cache = after, !.bytes = @ \o got] = [cache |-> after, bytes |-> st.bytes \o got, over |-> FALSE]
      <4>1. GoesOn(st, after, got)
        BY <3>1, ReadSoFar
      <4> QED
        BY <4>1 DEF GoesOn
    <3> QED
      BY <2>9, <2>10, <2>11, <3>2 DEF ChunkState
  <2> QED
    BY <2>5, <2>11, <2>12 DEF ReadsOn, st, due
<1> QED
  BY <1>7, <1>8

(* A member in chunks.  Every turn gives at least a byte until there are   *)
(* no more, so as many turns as bytes were asked for are enough.           *)
LEMMA ReadsInChunks ==
  ASSUME NEW T, NEW data, NEW c, NEW member, NEW cache, NEW pos \in Nat, NEW n \in Nat,
         member.bytes \in Seq(T), IsPackedAs(data, c, member), c.kind = "chunks", pos < c.size,
         Keeps(c, member, cache)
  PROVE  /\ Keeps(c, member, ReadOf(data, c, cache, pos, n).cache)
         /\ Answered(member, pos, n, ReadOf(data, c, cache, pos, n).bytes)
<1> DEFINE s == member.bytes
           due == Due(s, pos, n)
           kept == KeptChunks(c, s, cache)
           A == {ChunkState(keep, s, pos, m) : keep \in kept, m \in 0..due}
           base == ChunkState(cache, s, pos, 0)
           Following(x) == CHOOSE next \in {ReadChunk(data, c, pos, n, st) : st \in {x}} : TRUE
           Is(g) == g = [k \in 0..n |-> IF k = 0 THEN [cache |-> cache, bytes |-> <<>>, over |-> FALSE]
                                        ELSE Following(g[k - 1])]
           step == [k \in 1..n |-> [st \in A |-> ReadChunk(data, c, pos, n, st)]]
           turns == CHOOSE g : Is(g)
<1>1. s \in Seq(T) /\ c.size = Len(s) /\ c.size \in Nat /\ c.unit \in Nat \ {0}
  BY DEF IsPackedAs
<1>2. due \in Nat /\ due =< n /\ (IF pos + n =< Len(s) THEN pos + n ELSE Len(s)) = pos + due
  BY <1>1 DEF Due
<1>3. \A keep \in kept, m \in 0..due :
        ReadsOn(c, s, cache, pos, n, m, ReadChunk(data, c, pos, n, ChunkState(keep, s, pos, m)))
  BY ChunkTurn
<1> HIDE DEF due, kept
<1>4. base \in A /\ base = [cache |-> cache, bytes |-> <<>>, over |-> FALSE] /\ cache \in kept
  <2>1. cache \in kept /\ 0 \in 0..due
    BY <1>2 DEF kept, KeptChunks
  <2>2. SubSeq(s, pos + 1, pos + 0) = <<>>
    <3>1. pos + 1 \in Int /\ pos + 0 \in Int /\ pos + 0 < pos + 1
      OBVIOUS
    <3> QED
      BY <3>1, SubSeqEmpty
  <2>3. base \in A
    BY <2>1
  <2>4. base = [cache |-> cache, bytes |-> <<>>, over |-> FALSE]
    BY <2>2 DEF ChunkState
  <2> QED
    BY <2>1, <2>3, <2>4
<1> HIDE DEF base
<1>5. \A st \in A : ReadChunk(data, c, pos, n, st) \in A
  <2> SUFFICES ASSUME NEW st \in A PROVE ReadChunk(data, c, pos, n, st) \in A
    OBVIOUS
  <2>1. PICK keep \in kept, m \in 0..due : st = ChunkState(keep, s, pos, m)
    OBVIOUS
  <2>2. ReadsOn(c, s, cache, pos, n, m, ReadChunk(data, c, pos, n, st))
    BY <1>3, <2>1
  <2> QED
    BY <2>2 DEF ReadsOn, due, kept
<1>6. step \in [1..n -> [A -> A]]
  BY <1>5
<1>7. ReadOf(data, c, cache, pos, n) = [cache |-> turns[n].cache, bytes |-> turns[n].bytes]
  <2>1. ReadOf(data, c, cache, pos, n) = ReadChunks(data, c, cache, pos, n)
    BY <1>1 DEF ReadOf
  <2>2. ReadChunks(data, c, cache, pos, n) = [cache |-> turns[n].cache, bytes |-> turns[n].bytes]
    BY DEF ReadChunks, Turns, ReplyOf, Reply
  <2> HIDE DEF turns
  <2> QED
    BY <2>1, <2>2
<1> HIDE DEF A
<1>8. \A st : Following(st) = ReadChunk(data, c, pos, n, st)
  OBVIOUS
<1> HIDE DEF Following
<1>9. \E f : Is(f)
  <2>1. PICK f \in [0..n -> A] : RecursiveIn(f, n, base, step)
    BY <1>4, <1>6, LoopsRun
  <2>2. f[0] = base /\ \A k \in 1..n : f[k] = Following(f[k - 1])
    BY <1>8, <2>1 DEF RecursiveIn
  <2>3. Is(f)
    BY <1>4, <2>2
  <2> QED
    BY <2>3
<1>10. turns[0] = base /\ \A k \in 1..n : turns[k] = ReadChunk(data, c, pos, n, turns[k - 1])
  <2>1. Is(turns)
    BY <1>9
  <2> HIDE DEF turns
  <2> DEFINE start == [cache |-> cache, bytes |-> <<>>, over |-> FALSE]
             f == turns
  <2>2. f = [k \in 0..n |-> IF k = 0 THEN start ELSE Following(f[k - 1])]
    BY <2>1
  <2> HIDE DEF start, f
  <2>3. f[0] = start
    BY <2>2
  <2>4. \A k \in 1..n : f[k] = Following(f[k - 1])
    BY <2>2
  <2> QED
    BY <1>4, <1>8, <2>3, <2>4 DEF start, f
<1> HIDE DEF turns, step
<1> HIDE DEF Is
<1>11. \E keep \in kept : turns[n] = ChunkState(keep, s, pos, due)
  <2> DEFINE Done(k, m) == m >= k \/ m = due
             Good == {k \in 0..n : \E keep \in kept, m \in 0..due :
                                     turns[k] = ChunkState(keep, s, pos, m) /\ Done(k, m)}
  <2>1. 0 \in Good
    <3>1. turns[0] = ChunkState(cache, s, pos, 0)
      BY <1>10 DEF base
    <3>2. 0 \in 0..due /\ 0 \in 0..n /\ Done(0, 0)
      BY <1>2
    <3> QED
      BY <1>4, <3>1, <3>2
  <2>2. \A k \in 1..n : k - 1 \in Good => k \in Good
    <3> SUFFICES ASSUME NEW k \in 1..n, k - 1 \in Good PROVE k \in Good
      OBVIOUS
    <3>1. PICK keep \in kept, m \in 0..due : turns[k - 1] = ChunkState(keep, s, pos, m) /\ Done(k - 1, m)
      OBVIOUS
    <3>2. ReadsOn(c, s, cache, pos, n, m, turns[k])
      BY <1>3, <1>10, <3>1
    <3>3. PICK keep2 \in kept, next \in 0..due :
            turns[k] = ChunkState(keep2, s, pos, next) /\ (next > m \/ next = due)
      BY <3>2 DEF ReadsOn, due, kept
    <3>4. Done(k, next)
      BY <1>2, <3>1, <3>3
    <3> HIDE DEF Done
    <3> QED
      BY <3>3, <3>4
  <2> HIDE DEF Good
  <2>3. 0..n \subseteq Good
    BY <2>1, <2>2, SetInduction
  <2>4. n \in Good
    BY <2>3
  <2>5. PICK keep \in kept, m \in 0..due : turns[n] = ChunkState(keep, s, pos, m) /\ Done(n, m)
    BY <2>4 DEF Good
  <2>6. m = due
    BY <1>2, <2>5
  <2> QED
    BY <2>5, <2>6
<1>12. PICK keep \in kept : turns[n] = ChunkState(keep, s, pos, due)
  BY <1>11
<1>13. turns[n].cache = keep /\ turns[n].bytes = Slice(s, pos, n)
  <2>1. turns[n].cache = keep /\ turns[n].bytes = SubSeq(s, pos + 1, pos + due)
    <3> DEFINE last == turns[n]
    <3>1. last = ChunkState(keep, s, pos, due)
      BY <1>12
    <3> HIDE DEF last
    <3>2. last.cache = keep /\ last.bytes = SubSeq(s, pos + 1, pos + due)
      BY <3>1 DEF ChunkState
    <3> QED
      BY <3>2 DEF last
  <2>2. Slice(s, pos, n) = SubSeq(s, pos + 1, pos + due)
    BY <1>1, <1>2, SliceEnds
  <2> QED
    BY <2>1, <2>2
<1>14. Keeps(c, member, keep)
  <2>1. CASE keep = cache
    BY <2>1
  <2>2. CASE keep # cache
    <3>1. PICK i \in ChunksOf(c) : keep = Holding(c, s, i)
      BY <2>2 DEF kept, KeptChunks
    <3>2. keep.bytes = ChunkOf(c, s, i) /\ keep.chunk = i /\ IsCache(keep)
      BY <3>1 DEF Holding, IsCache
    <3>3. KeepsChunk(c, member, keep)
      BY <3>2 DEF KeepsChunk
    <3> QED
      BY <3>2, <3>3 DEF Keeps
  <2> QED
    BY <2>1, <2>2
<1>15. Answered(member, pos, n, Slice(s, pos, n))
  BY RangeAnswers
<1> QED
  BY <1>7, <1>13, <1>14, <1>15

-----------------------------------------------------------------------------
(* Whatever a store keeps, a range of a member its content is what the     *)
(* member was packed to is answered, and what the store keeps then is as   *)
(* good.                                                                   *)
Reads(member, data, c, cache, pos, n) ==
  /\ Keeps(c, member, ReadOf(data, c, cache, pos, n).cache)
  /\ Answered(member, pos, n, ReadOf(data, c, cache, pos, n).bytes)
LEMMA EveryStoreReads ==
  ASSUME NEW T, NEW data, NEW c, NEW member, NEW cache, NEW pos \in Nat, NEW n \in Nat,
         member.bytes \in Seq(T), IsPackedAs(data, c, member), Keeps(c, member, cache)
  PROVE  Reads(member, data, c, cache, pos, n)
<1>1. c.size = Len(member.bytes) /\ c.size \in Nat
  BY DEF IsPackedAs
<1>2. CASE pos >= c.size
  BY <1>1, <1>2, ReadsBehind DEF Reads
<1>3. CASE pos < c.size /\ c.kind = "held"
  <2>1. c.bytes = member.bytes
    BY <1>3 DEF IsPackedAs
  <2> QED
    BY <1>1, <1>3, <2>1, ReadsHeld DEF Reads
<1>4. CASE pos < c.size /\ c.kind \in {"range", "chain", "mini", "sectors"}
  <2>1. ReadOf(data, c, NoCache, 0, c.size).bytes = member.bytes
    BY <1>4 DEF IsPackedAs
  <2> QED
    BY <1>1, <1>4, <2>1, ReadsPlaces DEF Reads
<1>5. CASE pos < c.size /\ c.kind = "deflate"
  BY <1>5, ReadsDeflated DEF Reads
<1>6. CASE pos < c.size /\ c.kind = "shrink"
  BY <1>6, ReadsShrunk DEF Reads
<1>7. CASE pos < c.size /\ c.kind = "chunks"
  BY <1>7, ReadsInChunks DEF Reads
<1>8. c.kind \in {"held", "range", "chain", "mini", "sectors", "deflate", "shrink", "chunks"}
  BY DEF IsPackedAs
<1> QED
  BY <1>1, <1>2, <1>3, <1>4, <1>5, <1>6, <1>7, <1>8

-----------------------------------------------------------------------------
(* The inductive invariant.  The file is one of the files; nothing is open *)
(* and nothing was read where there is none; every entry has a store, and  *)
(* keeps of its member what a store of it may keep, if its content is what *)
(* the member was packed to; and what was read last is answered.           *)
PackedIn(i) == IsPackedAs(Data, walk.entries[i].content, Members[i])
FileIsOne == file # NoFile => \E name \in Files : file = FileOf(name)
NothingWithoutFile == file = NoFile => walk = Walk /\ caches = <<>> /\ answer = NoAnswer
StoresAreKept ==
  /\ DOMAIN caches = DOMAIN walk.entries
  /\ \A i \in DOMAIN caches :
       i \in DOMAIN Members /\ PackedIn(i) => Keeps(walk.entries[i].content, Members[i], caches[i])
AnswerIsRight ==
  answer.of # 0 =>
    /\ walk.state = "open"
    /\ answer.of \in DOMAIN walk.entries /\ answer.of \in DOMAIN Members /\ answer.of \in Asked
    /\ PackedIn(answer.of) => Answered(Members[answer.of], answer.pos, answer.n, answer.bytes)
StoresInvariant == FileIsOne /\ NothingWithoutFile /\ StoresAreKept /\ AnswerIsRight

(* Every turn of opening but the detector's leaves new stores behind.      *)
TurnedOver ==
  /\ file # NoFile /\ walk.state # "open"
  /\ caches' = [i \in DOMAIN walk'.entries |-> NoCache]
  /\ UNCHANGED <<file, answer>>

LEMMA OpenTurnTurnsOver ==
  ASSUME OpenTurn
  PROVE  (UNCHANGED <<file, walk, caches, answer>>) \/ TurnedOver
<1>1. (OpenZip \/ ZipHeader \/ ClassifyZip \/ TarHeader \/ OpenCab
       \/ DecodeFolder \/ CabFile \/ OpenSzdd \/ OpenPack \/ OpenOle) => TurnedOver
  BY DEF TurnedOver, Turn, Opening, OpenZip, ZipHeader, ClassifyZip, TarHeader, OpenCab,
         DecodeFolder, CabFile, OpenSzdd, OpenPack, OpenOle
<1>2. (OleEntry \/ OpenWim \/ OpenNe \/ NeType \/ NeResource
       \/ OpenLe \/ LeResource \/ OpenLx \/ LxResource \/ OpenPe) => TurnedOver
  BY DEF TurnedOver, Turn, Opening, OleEntry, OpenWim, OpenNe, NeType, NeResource,
         OpenLe, LeResource, OpenLx, LxResource, OpenPe
<1>3. (PeRecord \/ OpenXbe \/ XbeSection \/ OpenXex \/ XexHeader
       \/ XexPe \/ XexResourceRecord \/ OpenMtf \/ MtfHeader \/ MtfData) => TurnedOver
  BY DEF TurnedOver, Turn, Opening, PeRecord, OpenXbe, XbeSection, OpenXex, XexHeader,
         XexPe, XexResourceRecord, OpenMtf, MtfHeader, MtfData
<1>4. (OpenSdi \/ SdiRecord \/ OpenWad \/ WadEntry \/ TryRomdir
       \/ OpenPup \/ PupEntry \/ OpenXuiz \/ XuizEntry \/ OpenEa) => TurnedOver
  BY DEF TurnedOver, Turn, Opening, OpenSdi, SdiRecord, OpenWad, WadEntry, TryRomdir,
         OpenPup, PupEntry, OpenXuiz, XuizEntry, OpenEa
<1>5. (EaEntry \/ OpenFsf \/ FsfEntry \/ OpenFfu \/ FfuHeader
       \/ FfuPartitions \/ OpenMdf \/ ReadCue \/ CueFile \/ CueEntry) => TurnedOver
  BY DEF TurnedOver, Turn, Opening, EaEntry, OpenFsf, FsfEntry, OpenFfu, FfuHeader,
         FfuPartitions, OpenMdf, ReadCue, CueFile, CueEntry
<1>6. (OpenEappx \/ EappxEntry) => TurnedOver
  BY DEF TurnedOver, Turn, Opening, OpenEappx, EappxEntry
<1>7. Detect => UNCHANGED <<file, walk, caches, answer>>
  BY DEF Detect
<1>8. OpenOther => TurnedOver
  BY DEF OpenOther, Opening, TurnedOver
<1> QED
  BY <1>1, <1>2, <1>3, <1>4, <1>5, <1>6, <1>7, <1>8 DEF OpenTurn

(* The invariant holds when nothing is open.                               *)
LEMMA NoFileKeeps ==
  ASSUME file = NoFile, walk = Walk, caches = <<>>, answer = NoAnswer
  PROVE  StoresInvariant
<1>1. DOMAIN caches = {} /\ DOMAIN walk.entries = {} /\ answer.of = 0
  BY DEF Walk, NoAnswer
<1> QED
  BY <1>1 DEF StoresInvariant, FileIsOne, NothingWithoutFile, StoresAreKept, AnswerIsRight

(* The members of a file hold sequences of bytes.                          *)
LEMMA MembersHoldBytes ==
  ASSUME FileIsOne, file # NoFile, NEW i \in DOMAIN Members
  PROVE  \E T : Members[i].bytes \in Seq(T)
<1>1. PICK name \in Files : file = FileOf(name)
  BY DEF FileIsOne
<1> DEFINE bytes == Members[i].bytes
<1>2. bytes \in Seq(ToSet(bytes))
  BY <1>1, FilesAssumption DEF Members
<1> HIDE DEF bytes
<1>3. \E T : bytes \in Seq(T)
  BY <1>2
<1> QED
  BY <1>3 DEF bytes

(* What is asked is asked of a member.                                     *)
LEMMA AskedOfMembers ==
  ASSUME FileIsOne, file # NoFile, NEW ask \in file.asks
  PROVE  ask[1] \in DOMAIN Members /\ ask[1] \in Asked /\ ask[2] \in Nat /\ ask[3] \in Nat
<1>1. PICK name \in Files : file = FileOf(name)
  BY DEF FileIsOne
<1>2. ask \in (DOMAIN Members) \X Nat \X Nat
  BY <1>1, FilesAssumption DEF Members
<1> QED
  BY <1>2 DEF Asked

(* Opening a file, a turn of it, and nothing at all.                       *)
LEMMA OpenKeeps ==
  ASSUME StoresInvariant, NEW name \in Files, NEW door, Open(name, door)
  PROVE  StoresInvariant'
<1>1. file' = FileOf(name) /\ walk' = Walk /\ caches' = <<>> /\ answer' = NoAnswer
  BY DEF StoresInvariant, NothingWithoutFile, Open
<1>2. DOMAIN caches' = {} /\ DOMAIN walk'.entries = {} /\ answer'.of = 0
  BY <1>1 DEF Walk, NoAnswer
<1> QED
  BY <1>1, <1>2 DEF StoresInvariant, FileIsOne, NothingWithoutFile, StoresAreKept, AnswerIsRight

LEMMA TurnKeeps ==
  ASSUME StoresInvariant, TurnedOver
  PROVE  StoresInvariant'
<1>1. /\ file' = file /\ file # NoFile /\ answer' = answer /\ FileIsOne
      /\ caches' = [i \in DOMAIN walk'.entries |-> NoCache]
  BY DEF StoresInvariant, TurnedOver
<1>2. answer.of = 0
  BY DEF StoresInvariant, AnswerIsRight, TurnedOver
<1>3. StoresAreKept'
  <2>1. DOMAIN caches' = DOMAIN walk'.entries
    BY <1>1
  <2>2. ASSUME NEW i \in DOMAIN caches', i \in DOMAIN Members', PackedIn(i)'
        PROVE  Keeps(walk'.entries[i].content, Members'[i], caches'[i])
    <3> DEFINE c == walk'.entries[i].content
               member == Members[i]
    <3>1. caches'[i] = NoCache /\ Members' = Members
      BY <1>1 DEF Members
    <3>2. PICK T : member.bytes \in Seq(T)
      BY <1>1, <2>2, <3>1, MembersHoldBytes
    <3>3. IsPackedAs(file.data, c, member)
      BY <1>1, <2>2, <3>1 DEF PackedIn, Data
    <3> HIDE DEF c, member
    <3>4. c.size = Len(member.bytes)
      BY <3>3 DEF IsPackedAs
    <3>5. Keeps(c, member, NoCache)
      BY <3>2, <3>4, NothingKept
    <3> QED
      BY <3>1, <3>5 DEF c, member
  <2> QED
    BY <2>1, <2>2 DEF StoresAreKept
<1>4. FileIsOne' /\ NothingWithoutFile' /\ AnswerIsRight'
  BY <1>1, <1>2 DEF FileIsOne, NothingWithoutFile, AnswerIsRight
<1> QED
  BY <1>3, <1>4 DEF StoresInvariant

LEMMA StutterKeeps ==
  ASSUME StoresInvariant, UNCHANGED <<file, walk, caches, answer>>
  PROVE  StoresInvariant'
<1>1. file' = file /\ walk' = walk /\ caches' = caches /\ answer' = answer
  OBVIOUS
<1>2. FileIsOne' /\ NothingWithoutFile'
  BY <1>1 DEF StoresInvariant, FileIsOne, NothingWithoutFile
<1>3. StoresAreKept'
  BY <1>1 DEF StoresInvariant, StoresAreKept, PackedIn, Data, Members
<1>4. AnswerIsRight'
  BY <1>1 DEF StoresInvariant, AnswerIsRight, PackedIn, Data, Members, Asked
<1> QED
  BY <1>2, <1>3, <1>4 DEF StoresInvariant

LEMMA CloseKeeps ==
  ASSUME Close
  PROVE  StoresInvariant'
<1>1. file' = NoFile /\ walk' = Walk /\ caches' = <<>> /\ answer' = NoAnswer
  BY DEF Close
<1>2. DOMAIN caches' = {} /\ DOMAIN walk'.entries = {} /\ answer'.of = 0
  BY <1>1 DEF Walk, NoAnswer
<1> QED
  BY <1>1, <1>2 DEF StoresInvariant, FileIsOne, NothingWithoutFile, StoresAreKept, AnswerIsRight

(* A read.                                                                 *)
LEMMA ReadKeeps ==
  ASSUME StoresInvariant, file # NoFile, NEW ask \in file.asks, Read(ask[1], ask[2], ask[3])
  PROVE  StoresInvariant'
<1> DEFINE i == ask[1]
           pos == ask[2]
           n == ask[3]
           c == walk.entries[i].content
           member == Members[i]
           reply == ReadOf(Data, c, caches[i], pos, n)
<1>1. i \in DOMAIN Members /\ i \in Asked /\ pos \in Nat /\ n \in Nat
  BY AskedOfMembers DEF StoresInvariant
<1>2. /\ file' = file /\ walk' = walk /\ walk.state = "open" /\ i \in DOMAIN walk.entries
      /\ caches' = [caches EXCEPT ![i] = reply.cache]
      /\ answer' = [of |-> i, pos |-> pos, n |-> n, bytes |-> reply.bytes]
  BY DEF Read
<1>3. PICK T : member.bytes \in Seq(T)
  BY <1>1, MembersHoldBytes DEF StoresInvariant
<1>4. i \in DOMAIN caches
  BY <1>2 DEF StoresInvariant, StoresAreKept
<1>5. PackedIn(i) => Reads(member, Data, c, caches[i], pos, n)
  <2>1. SUFFICES ASSUME PackedIn(i) PROVE Reads(member, Data, c, caches[i], pos, n)
    OBVIOUS
  <2>2. Keeps(c, member, caches[i])
    BY <1>1, <1>4, <2>1 DEF StoresInvariant, StoresAreKept
  <2>3. IsPackedAs(Data, c, member)
    BY <2>1 DEF PackedIn
  <2> HIDE DEF c, member, pos, n
  <2> QED
    BY <1>1, <1>3, <2>2, <2>3, EveryStoreReads
<1>6. Members' = Members /\ Data' = Data /\ Asked' = Asked
  BY <1>2 DEF Members, Data, Asked
<1>7. \A k : PackedIn(k)' <=> PackedIn(k)
  BY <1>2, <1>6 DEF PackedIn
<1> HIDE DEF reply
<1>8. PackedIn(i) => Keeps(c, member, reply.cache) /\ Answered(member, pos, n, reply.bytes)
  BY <1>5 DEF Reads, reply
<1>9. StoresAreKept'
  <2>1. DOMAIN caches' = DOMAIN caches /\ DOMAIN caches = DOMAIN walk.entries
    BY <1>2 DEF StoresInvariant, StoresAreKept
  <2>2. ASSUME NEW k \in DOMAIN caches, k \in DOMAIN Members, PackedIn(k)
        PROVE  Keeps(walk.entries[k].content, Members[k], caches'[k])
    <3>1. CASE k = i
      <4>1. caches'[k] = reply.cache
        BY <1>2, <1>4, <3>1
      <4> QED
        BY <1>8, <2>2, <3>1, <4>1
    <3>2. CASE k # i
      <4>1. caches'[k] = caches[k]
        BY <1>2, <2>2, <3>2
      <4> QED
        BY <2>2, <4>1 DEF StoresInvariant, StoresAreKept
    <3> QED
      BY <3>1, <3>2
  <2> QED
    BY <1>2, <1>6, <1>7, <2>1, <2>2 DEF StoresAreKept
<1>10. AnswerIsRight'
  <2>1. answer'.of = i /\ answer'.pos = pos /\ answer'.n = n /\ answer'.bytes = reply.bytes
    BY <1>2
  <2>2. walk'.state = "open" /\ i \in DOMAIN walk'.entries /\ i \in DOMAIN Members' /\ i \in Asked'
    BY <1>1, <1>2, <1>6
  <2>3. PackedIn(i)' => Answered(Members'[i], pos, n, reply.bytes)
    BY <1>6, <1>7, <1>8
  <2> HIDE DEF i, pos, n
  <2> QED
    BY <2>1, <2>2, <2>3 DEF AnswerIsRight
<1>11. FileIsOne' /\ NothingWithoutFile'
  BY <1>2 DEF StoresInvariant, FileIsOne, NothingWithoutFile
<1> QED
  BY <1>9, <1>10, <1>11 DEF StoresInvariant

(* Every step keeps it.                                                    *)
LEMMA StepKeeps == StoresInvariant /\ [Next]_vars => StoresInvariant'
<1> SUFFICES ASSUME StoresInvariant, [Next]_vars PROVE StoresInvariant'
  OBVIOUS
<1>1. CASE \E name \in Files : \E door \in FileOf(name).doors : Open(name, door)
  BY <1>1, OpenKeeps
<1>2. CASE OpenTurn
  BY <1>2, OpenTurnTurnsOver, TurnKeeps, StutterKeeps
<1>3. CASE file # NoFile /\ \E ask \in file.asks : Read(ask[1], ask[2], ask[3])
  BY <1>3, ReadKeeps
<1>4. CASE Close
  BY <1>4, CloseKeeps
<1>5. CASE UNCHANGED vars
  BY <1>5, StutterKeeps DEF vars
<1> QED
  BY <1>1, <1>2, <1>3, <1>4, <1>5 DEF Next

(* The caches of the stores are invisible: as long as the module lists for *)
(* every member that is asked for a content its bytes were packed to, any  *)
(* range of it, after any reads in any order, reads as the bytes that are  *)
(* there.                                                                  *)
THEOREM CachesAreInvisible == Spec => [](PackedAsWritten => ReadsTheMember)
<1>1. Init => StoresInvariant
  BY NoFileKeeps DEF Init
<1>2. StoresInvariant => (PackedAsWritten => ReadsTheMember)
  <2> SUFFICES ASSUME StoresInvariant, PackedAsWritten, answer.of # 0
               PROVE  LET member == Members[answer.of]
                          there == Slice(member.bytes, answer.pos, answer.n)
                      IN  IF member.damaged THEN IsPrefix(answer.bytes, there) ELSE answer.bytes = there
    BY DEF ReadsTheMember
  <2>1. /\ walk.state = "open" /\ answer.of \in DOMAIN walk.entries /\ answer.of \in Asked
        /\ PackedIn(answer.of) => Answered(Members[answer.of], answer.pos, answer.n, answer.bytes)
    BY DEF StoresInvariant, AnswerIsRight
  <2>2. Opened
    <3>1. answer # NoAnswer
      BY DEF NoAnswer
    <3> QED
      BY <2>1, <3>1 DEF StoresInvariant, NothingWithoutFile, Opened
  <2>3. PackedIn(answer.of)
    BY <2>1, <2>2 DEF PackedAsWritten, PackedIn
  <2> QED
    BY <2>1, <2>3 DEF Answered
<1>3. StoresInvariant /\ [Next]_vars => StoresInvariant'
  BY StepKeeps
<1> QED
  BY <1>1, <1>2, <1>3, PTL DEF Spec
==============================================================================
