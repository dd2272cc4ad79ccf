--------------------------- MODULE PartitionVolumes ---------------------------
(***************************************************************************)
(* Partition tables (fs/PartitionTable.cpp): the MBR and its chain of      *)
(* extended tables, GPT, the Apple map, JFS volumes found without a table, *)
(* and OS/2 DriveLink volumes joined from several partitions.              *)
(*                                                                         *)
(* `tables` maps a sector to the partition table there, when the sector is *)
(* signed; `boots` a byte to the boot record there and the size it claims; *)
(* `jfs` the byte of a JFS superblock to the size of its aggregate;        *)
(* `trees` a sequence of parts to what the JFS reader makes of the store   *)
(* they form: its score, and the size the superblock declares.             *)
(***************************************************************************)
EXTENDS Filesystems

PartSector == 512

(* What is decoded of a disk: the numbers of its tables are unsigned.      *)
MbrEntry == [type : Nat, boot : Nat, start : Nat, count : Nat]
PartVolume(v) ==
  /\ "capacity" \in DOMAIN v /\ v.capacity \in Nat
  /\ v.sector0 \in Seq(MbrEntry) /\ \A at \in DOMAIN v.tables : v.tables[at] \in Seq(MbrEntry)
  /\ v.gpt.signed => /\ {v.gpt.first, v.gpt.last} \subseteq Nat
                     /\ v.gpt.entries \in Seq([type : STRING, first : Nat, last : Nat])
  /\ v.apm.signed => v.apm.entries \in Seq([signed : BOOLEAN, type : STRING, start : Nat, count : Nat])
  /\ DOMAIN v.jfs \subseteq Int /\ IsFiniteSet(DOMAIN v.jfs)
  /\ \A parts \in DOMAIN v.trees : v.trees[parts] \in [score : Int, declared : Nat]

PartSectors(v) == v.capacity \div PartSector
(* Only the entries of an MBR have a type that is looked at again.         *)
Untyped == 0
Partition(type, at, len) == [type |-> type, at |-> at, len |-> len, parts |-> <<Part(at, len)>>]

Extended == {5, 15, 133}

BootFits(v, at, kinds, room) ==
  at \in DOMAIN v.boots /\ v.boots[at].kind \in kinds /\ v.boots[at].bytes =< room

(* partitionPayloadPlausible().                                            *)
Plausible(v, type, at, len) ==
  \/ type \in {1, 4, 6, 11, 12} /\ BootFits(v, at, {"fat"}, len)
  \/ type = 7 /\ BootFits(v, at, {"ntfs", "exfat"}, len)
  \/ type = 7 /\ len >= 18 * PartSector /\ BootFits(v, at, {"hpfs"}, v.capacity)
  \/ type \in {53, 5, 10, 15, 130, 131, 133, 142, 238, 239}

-----------------------------------------------------------------------------
(* The MBR: a table and its entries are visited depth first.               *)

PartTable(base, chain, depth) == [what |-> "table", base |-> base, chain |-> chain, depth |-> depth]

MbrUsable(e) == (e.type = 53 \/ e.boot \in {0, 128}) /\ e.type # 0 /\ e.start # 0 /\ e.count # 0

(* Links in a chain are relative to the first extended partition.          *)
MbrLink(v, here, e) ==
  LET next == here.chain + e.start
      chain == IF here.chain = 0 THEN next ELSE here.chain
  IN  IF next \in 1..PartSectors(v) - 1 THEN <<PartTable(next, chain, here.depth + 1)>> ELSE <<>>

(* Mutant of MbrPartition: only the start has to be on the disk.           *)
MbrPartitionUncut(v, here, e) ==
  LET start == here.base + e.start
  IN  IF start >= PartSectors(v) \/ ~Plausible(v, e.type, start * PartSector, e.count * PartSector)
      THEN <<>>
      ELSE <<Partition(e.type, start * PartSector, e.count * PartSector)>>

(* A partition that leaves the disk is dropped, an OS/2 segment cut short. *)
MbrPartition(v, here, e) ==
  LET start == here.base + e.start
      left == PartSectors(v) - start
      count == IF e.count > left /\ e.type = 53 THEN left ELSE e.count
  IN  IF start >= PartSectors(v) \/ count > left
         \/ ~Plausible(v, e.type, start * PartSector, count * PartSector)
      THEN <<>>
      ELSE <<Partition(e.type, start * PartSector, count * PartSector)>>

(* Mutant of MbrTurn: every link is relative to the table it is in.        *)
MbrLinkFromTable(v, w) ==
  LET here == Head(w.todo)
      table == At(v.tables, here.base, <<>>)
      entries == [i \in 1..Len(table) |-> [what |-> "entry", base |-> here.base, entry |-> table[i],
                                           chain |-> here.chain, depth |-> here.depth]]
      e == here.entry
  IN  IF here.what = "table"
      THEN IF here.depth > 64 \/ here.base >= PartSectors(v) \/ here.base \in w.seen THEN Skipped(w)
           ELSE Visited(w, here.base, entries)
      ELSE IF ~MbrUsable(e) THEN Skipped(w)
      ELSE IF e.type \in Extended
      THEN [w EXCEPT !.todo = MbrLink(v, [here EXCEPT !.chain = here.base], e) \o Tail(@)]
      ELSE Gather(Skipped(w), MbrPartition(v, here, e))

(* readMbr(): a table, or an entry of one.                                 *)
MbrTurn(v, w) ==
  LET here == Head(w.todo)
      table == At(v.tables, here.base, <<>>)
      entries == [i \in 1..Len(table) |-> [what |-> "entry", base |-> here.base, entry |-> table[i],
                                           chain |-> here.chain, depth |-> here.depth]]
      e == here.entry
  IN  IF here.what = "table"
      THEN IF here.depth > 64 \/ here.base >= PartSectors(v) \/ here.base \in w.seen THEN Skipped(w)
           ELSE Visited(w, here.base, entries)
      ELSE IF ~MbrUsable(e) THEN Skipped(w)
      ELSE IF e.type \in Extended THEN [w EXCEPT !.todo = MbrLink(v, here, e) \o Tail(@)]
      ELSE Gather(Skipped(w), MbrPartition(v, here, e))

-----------------------------------------------------------------------------
(* readGpt(): one header, entries that lie between its bounds.             *)
GptBounds(v) == v.gpt.signed /\ v.gpt.first =< v.gpt.last /\ v.gpt.last < PartSectors(v)
GptTableFits(v) ==
  LET g == v.gpt
  IN  /\ g.headerSize \in 92..512 /\ g.current = 1
      /\ g.entrySize \in 128..4096 /\ Len(g.entries) \in 1..4096
      /\ g.table < PartSectors(v)
      /\ Len(g.entries) * g.entrySize =< (PartSectors(v) - g.table) * PartSector

GptPartitions(v) ==
  LET used == Keeping(v.gpt.entries, LAMBDA e :
                /\ e.type # "" /\ e.first =< e.last
                /\ v.gpt.first =< e.first /\ e.last =< v.gpt.last)
  IN  IF ~(GptBounds(v) /\ GptTableFits(v)) THEN <<>>
      ELSE [i \in 1..Len(used) |->
             Partition(Untyped, used[i].first * PartSector,
                       (used[i].last - used[i].first + 1) * PartSector)]

(* readApm(): the entries after the first, which describes the map.        *)
ApmPartitions(v) ==
  LET used == Keeping(v.apm.entries, LAMBDA e :
                /\ e.signed /\ e.count # 0 /\ e.start * PartSector < v.capacity
                /\ e.count * PartSector =< v.capacity - e.start * PartSector)
  IN  IF ~v.apm.signed \/ Len(v.apm.entries) \notin 1..4095 THEN <<>>
      ELSE [i \in 1..Len(used) |->
             Partition(Untyped, used[i].start * PartSector, used[i].count * PartSector)]

-----------------------------------------------------------------------------
(* JFS volumes without a table.                                            *)

JfsSupersOff == <<32768, 61440>>

(* The superblocks of a volume that starts here, primary first.            *)
JfsSupersIn(v, at, len) ==
  Keeping(JfsSupersOff, LAMBDA off : off =< len /\ len - off >= 32 /\ at + off \in DOMAIN v.jfs)

HasJfsSuper(v, p) == p.len > 0 /\ JfsSupersIn(v, p.at, p.len) # <<>>

(* addRecoveredJfsPartition(): an overlapping one stays, or gives way to   *)
(* one that starts before it.                                              *)
Recovered(v, at, stated, out) ==
  LET available == v.capacity - at
      room == IF stated =< 0 \/ stated > available THEN available ELSE stated
      supers == JfsSupersIn(v, at, room)
      bytes == v.jfs[at + supers[1]]
      p == Partition(Untyped, at, IF bytes \in 61472..available THEN bytes ELSE room)
      meets == {i \in 1..Len(out) : p.at < out[i].at + out[i].len /\ out[i].at < p.at + p.len}
      i == CHOOSE i \in meets : \A j \in meets : i =< j
  IN  IF at < 0 \/ at >= v.capacity \/ supers = <<>> THEN out
      ELSE IF meets = {} THEN Append(out, p)
      ELSE IF p.at < out[i].at THEN [out EXCEPT ![i] = p] ELSE out

(* recoverJfsPartitions(): the entries of sector 0, signed or not, or else *)
(* what the superblocks found by scanning the first 64 MiB point back to.  *)
ScanLimit(v) == Smaller(v.capacity, 67108864 + 61440 + 32)
RecoverEntry(v, out, e) ==
  LET start == e.start * PartSector
  IN  IF e.type = 0 \/ e.start = 0 \/ e.count = 0 \/ start >= v.capacity THEN out
      ELSE Recovered(v, start, e.count * PartSector, out)
RecoverStart(v, out, start) ==
  IF start < 0 \/ start % PartSector # 0 THEN out ELSE Recovered(v, start, v.capacity - start, out)

RecoveredAll(v) ==
  LET told[n \in 0..Len(v.sector0)] ==
        IF n = 0 THEN <<>> ELSE RecoverEntry(v, told[n - 1], v.sector0[n])
      magics == Sorted(SetToSeq({a \in DOMAIN v.jfs : a + 4 =< ScanLimit(v)}), LAMBDA a, b : a < b)
      starts == Concatenated([i \in 1..Len(magics) |-> <<magics[i] - 32768, magics[i] - 61440>>])
      found[n \in 0..Len(starts)] == IF n = 0 THEN <<>> ELSE RecoverStart(v, found[n - 1], starts[n])
  IN  IF v.capacity < 32800 THEN <<>>
      ELSE IF told[Len(v.sector0)] # <<>> THEN told[Len(v.sector0)] ELSE found[Len(starts)]

-----------------------------------------------------------------------------
(* OS/2 DriveLink.                                                         *)

(* partitionStore(): what a partition has on the disk, less a trailer.     *)
SegmentPart(v, p, trim) == Part(p.at, Smaller(p.len, v.capacity - p.at) - trim)

(* driveLinkTrimPlans(): trailers that make the segments add up to what    *)
(* the superblock declares, in the order they are tried: none, all of it   *)
(* on one segment, equal ones on some, a usual size each and the rest on   *)
(* one.                                                                    *)
UsualTrailers == <<512, 4096, 8192, 16384, 32768, 65536, 131072, 262144, 524288, 1048576>>

(* The sets of 1..n in the order of their bit masks.                       *)
Masks(n) ==
  LET upto[k \in 0..n] ==
        IF k = 0 THEN <<{}>>
        ELSE LET less == upto[k - 1] IN less \o [i \in 1..Len(less) |-> less[i] \cup {k}]
  IN  upto[n]

TrimPlans(parts, declared) ==
  LET n == Len(parts)
      over == LengthOf(parts) - declared
      share(s) == [i \in 1..n |-> IF i \notin s THEN 0
                                  ELSE IF over % Cardinality(s) = 0 THEN over \div Cardinality(s) ELSE -1]
      one == [x \in 1..n |-> share({x})]
      equal == [m \in 1..Len(Masks(n)) |-> share(Masks(n)[m])]
      bases == Keeping(UsualTrailers, LAMBDA b : b * n =< over)
      usual == Concatenated([k \in 1..Len(bases) |->
                 [x \in 1..n |-> [i \in 1..n |-> bases[k] + (IF i = x THEN over - bases[k] * n ELSE 0)]]])
      fits(plan) == \A i \in 1..n : plan[i] \in 0..parts[i].len - 1 /\ plan[i] % PartSector = 0
  IN  IF over < 0 THEN <<>>
      ELSE Keeping(<<share({})>> \o (IF over % PartSector = 0
                                     THEN one \o (IF n =< 12 THEN equal ELSE <<>>) \o usual
                                     ELSE <<>>), fits)

(* The arrangements of a list, as std::next_permutation orders them.       *)
Arrangements(list) ==
  LET next(p) == Keeping(list, LAMBDA i : \A k \in 1..Len(p) : p[k] # i)
      upto[n \in 0..Len(list)] ==
        IF n = 0 THEN <<<<>>>>
        ELSE LET less == upto[n - 1]
             IN  Concatenated([k \in 1..Len(less) |->
                   [j \in 1..Len(next(less[k])) |-> Append(less[k], next(less[k])[j])]])
  IN  upto[Len(list)]

(* The orders tried: the first segment is the one with the superblock, the *)
(* others start in disk order and go on by the order of their entries.     *)
Before(a, b) == \E i \in 1..Len(a) : a[i] < b[i] /\ \A j \in 1..i - 1 : a[j] = b[j]
OrdersOf(list, input) ==
  LET disk == Sorted(list, LAMBDA a, b : input[a].at < input[b].at)
  IN  IF Len(list) > 7 THEN <<disk>>
      ELSE Keeping(Arrangements(list), LAMBDA o : o = disk \/ Before(disk, o))

(* The entries that are OS/2 segments.                                     *)
Segments(input) == Keeping([i \in 1..Len(input) |-> i], LAMBDA i : input[i].type = 53)

(* The stores tried; the reader must score one well above the best so far. *)
JoinedStores(v, input, first, declared) ==
  LET orders == OrdersOf(Keeping(Segments(input), LAMBDA i : i # first), input)
      joined(order) ==
        LET plans == TrimPlans([i \in 1..Len(order) |-> SegmentPart(v, input[order[i]], 0)], declared)
        IN  [p \in 1..Len(plans) |->
              CutTo([i \in 1..Len(order) |-> SegmentPart(v, input[order[i]], plans[p][i])], declared)]
  IN  Concatenated([i \in 1..Len(orders) |-> joined(<<first>> \o orders[i])])

Better(v, best, store) ==
  IF store \in DOMAIN v.trees /\ v.trees[store].score > best.score + 8
  THEN [score |-> v.trees[store].score, parts |-> store] ELSE best

BestJoining(v, input, first) ==
  LET alone == v.trees[<<SegmentPart(v, input[first], 0)>>]
      stores == JoinedStores(v, input, first, alone.declared)
      best[n \in 0..Len(stores)] == IF n = 0 THEN [score |-> alone.score, parts |-> <<>>]
                                    ELSE Better(v, best[n - 1], stores[n])
  IN  best[Len(stores)].parts

(* assembleOs2JfsVolumes(): the first segment whose superblock declares    *)
(* more than it has, and that can be joined.                               *)
Overflowing(v, input) ==
  {i \in 1..Len(input) :
     LET s == <<SegmentPart(v, input[i], 0)>>
     IN  input[i].type = 53 /\ s \in DOMAIN v.trees /\ v.trees[s].declared > input[i].len}

JoinedFrom(input, joinings) ==
  LET heads == {i \in DOMAIN joinings : joinings[i] # <<>>}
      first == CHOOSE i \in heads : \A j \in heads : i =< j
      joined == [type |-> 53, at |-> input[first].at, len |-> LengthOf(joinings[first]),
                 parts |-> joinings[first]]
  IN  IF heads = {} THEN input
      ELSE Sorted(Append(Keeping(input, LAMBDA p : p.type # 53), joined), LAMBDA a, b : a.at < b.at)

Assembled(v, input) ==
  IF Len(Segments(input)) < 2 THEN input
  ELSE JoinedFrom(input, [i \in Overflowing(v, input) |-> BestJoining(v, input, i)])

-----------------------------------------------------------------------------
(* readPartitionTable().                                                   *)

(* A filesystem's own boot sector is no partition table, unless it names   *)
(* an OS/2 segment or an extended partition.                               *)
Authoritative(v) ==
  \E i \in 1..Len(v.sector0) :
    LET e == v.sector0[i]
    IN  e.type \in Extended \cup {53} /\ e.start \in 1..PartSectors(v) - 1 /\ e.count # 0

Standalone(v) ==
  \/ BootFits(v, 0, {"fat", "ntfs", "exfat", "hpfs"}, v.capacity)
  \/ JfsSupersIn(v, 0, v.capacity) # <<>>

(* No table is read when the partitions are known already.                 *)
Settled == {-1}

PartStart(v) ==
  LET found(ps) == [Gather(Walk(<<>>), ps) EXCEPT !.seen = Settled]
      gpt == \E i \in 1..Len(v.sector0) : v.sector0[i].type = 238
  IN  IF ApmPartitions(v) # <<>> THEN found(ApmPartitions(v))
      ELSE IF 0 \notin DOMAIN v.tables \/ (~Authoritative(v) /\ Standalone(v)) THEN found(RecoveredAll(v))
      ELSE IF gpt /\ GptPartitions(v) # <<>> THEN found(GptPartitions(v))
      ELSE Walk(<<PartTable(0, 0, 0)>>)

(* What is made of the partitions the MBR walk found.                      *)
PartDone(v, w) ==
  LET jfs == \E i \in 1..Len(w.out) : HasJfsSuper(v, w.out[i])
      found(more) == IF w.out = <<>> THEN more ELSE Assembled(v, w.out \o more)
  IN  IF w.seen = Settled THEN w.out
      ELSE found(IF jfs THEN <<>> ELSE RecoveredAll(v))

(* A mounted disk carries its partitions; without any it is shown whole.   *)
PartEntries(v) ==
  IF v.partitions = <<>>
  THEN <<[name |-> "Whole disk", dir |-> FALSE, size |-> v.capacity, parts |-> <<Part(0, v.capacity)>>]>>
  ELSE [i \in 1..Len(v.partitions) |->
         [name |-> ToString(i), dir |-> FALSE, size |-> v.partitions[i].len,
          parts |-> v.partitions[i].parts]]
PartFind(entries, name) == FirstWhere(entries, LAMBDA e : e.name = name)
(* What a volume has beyond the end of the disk cannot be read.            *)
PartReads(v, node, pos) ==
  LET byte == HostAt(node.parts, node.size, pos) IN IF byte >= v.capacity THEN Nothing ELSE byte
=============================================================================
