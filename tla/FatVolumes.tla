----------------------------- MODULE FatVolumes -------------------------------
(***************************************************************************)
(* The FAT and exFAT readers (fs/FatReader.cpp, fs/ExFatReader.cpp): the   *)
(* geometry in the boot sector, the cluster chains, the directory slots    *)
(* with their long names, and the content of a file.                       *)
(*                                                                         *)
(* A volume's `fat` maps a cluster to its entry, `slots` a cluster to the  *)
(* directory slots it holds.  A short slot and the pieces of a long name   *)
(* carry the checksum of the short name they belong to.                    *)
(***************************************************************************)
EXTENDS Filesystems

-----------------------------------------------------------------------------
(* FAT: geometry.                                                          *)

PowerOfTwo(n) == n \in {1, 2, 4, 8, 16, 32, 64, 128, 256, 512, 1024, 2048, 4096}

RootSectors(v) == (v.rootEntries * 32 + v.sector - 1) \div v.sector
FatOverhead(v) == v.reserved + v.fats * v.fatSectors + RootSectors(v)
FatClusters(v) == (v.total - FatOverhead(v)) \div v.perCluster
FatWidth(v) ==
  IF FatClusters(v) < 4085 THEN 12 ELSE IF FatClusters(v) < 65525 THEN 16 ELSE 32

FatAccepts(v) ==
  /\ v.capacity >= 512
  /\ v.sector \in 512..4096 /\ PowerOfTwo(v.sector)
  /\ v.perCluster \in 1..128 /\ PowerOfTwo(v.perCluster)
  /\ v.reserved # 0 /\ v.fats \in {1, 2}
  /\ v.fatSectors # 0 /\ v.total # 0
  /\ FatOverhead(v) < v.total /\ v.total =< v.capacity \div v.sector
  /\ FatClusters(v) # 0
  /\ FatWidth(v) = 32 => /\ v.active < v.fats
                         /\ v.rootCluster \in 2..FatClusters(v) + 1

FatClusterPos(v, c) == (FatOverhead(v) + (c - 2) * v.perCluster) * v.sector
FatClusterBytes(v) == v.perCluster * v.sector

-----------------------------------------------------------------------------
(* FAT: cluster chains.                                                    *)

(* The entry in the active table, without the bits FAT32 reserves.         *)
FatNext(v, c) ==
  LET entry == At(v.fat[v.active], c, 0)
  IN  IF FatWidth(v) = 32 THEN entry % 2^28 ELSE entry

FatTop(v) == IF FatWidth(v) = 12 THEN 2^12 ELSE IF FatWidth(v) = 16 THEN 2^16 ELSE 2^28
FatEnds(v, entry) == entry >= FatTop(v) - 8
FatBad(v, c) == c % FatTop(v) = FatTop(v) - 9

FatChainStart(v, first) == Walk(<<first>>)

(* Mutant of FatChainTurn: clusters are not remembered.                    *)
FatChainForgets(v, w) ==
  LET c == Head(w.todo)
      next == FatNext(v, c)
      inside == c \in 2..FatClusters(v) + 1
  IN  IF ~inside \/ FatBad(v, c) THEN Stopped(w)
      ELSE [Gather(w, <<c>>) EXCEPT
              !.todo = IF FatEnds(v, next) \/ next \in {0, 1} THEN <<>> ELSE <<next>>]

(* A turn of the loop of chain().                                          *)
FatChainTurn(v, w) ==
  LET c == Head(w.todo)
      next == FatNext(v, c)
      goesOn == /\ c \in 2..FatClusters(v) + 1
                /\ Len(w.out) < FatClusters(v) + 2
                /\ c \notin w.seen
  IN  IF ~goesOn \/ FatBad(v, c) THEN Stopped(w)
      ELSE Gather(Visited(w, c, IF FatEnds(v, next) \/ next \in {0, 1} THEN <<>> ELSE <<next>>),
                  <<c>>)

-----------------------------------------------------------------------------
(* FAT: directory slots.                                                   *)

NoLongName == [pieces |-> <<>>, expected |-> 0, sum |-> 0, active |-> FALSE]

(* A piece of a long name: the last one comes first and says how many      *)
(* there are; one out of turn drops what was gathered.                     *)
LongNamePiece(name, slot) ==
  LET started == IF slot.last
                 THEN [pieces |-> [i \in 1..slot.seq |-> ""], expected |-> slot.seq,
                       sum |-> slot.sum, active |-> TRUE]
                 ELSE name
  IN  IF slot.seq \notin 1..20 \/ slot.odd THEN NoLongName
      ELSE IF ~started.active \/ slot.seq # started.expected \/ slot.sum # started.sum
      THEN NoLongName
      ELSE [started EXCEPT !.pieces[slot.seq] = slot.piece, !.expected = @ - 1]

(* The pieces up to the one that starts with the terminator.               *)
LongNameOf(pieces) ==
  LET ends == {i \in 1..Len(pieces) : pieces[i] = ""}
      n == IF ends = {} THEN Len(pieces) ELSE (CHOOSE i \in ends : \A j \in ends : i =< j) - 1
  IN  FoldLeft(LAMBDA a, b : a \o b, "", SubSeq(pieces, 1, n))

NameOf(name, slot) ==
  LET long == IF name.active /\ name.expected = 0 /\ name.sum = slot.sum
              THEN LongNameOf(name.pieces) ELSE ""
  IN  IF long = "" THEN slot.name ELSE long

ReadSlot(d, slot) ==
  IF d.ended THEN d
  ELSE CASE slot.kind = "end" -> [d EXCEPT !.ended = TRUE]
         [] slot.kind \in {"deleted", "label"} -> [d EXCEPT !.long = NoLongName]
         [] slot.kind = "lfn" -> [d EXCEPT !.long = LongNamePiece(@, slot)]
         [] slot.kind = "short" ->
              LET name == NameOf(d.long, slot)
              IN  [d EXCEPT !.long = NoLongName,
                            !.out = IF name \in {".", "..", ""} THEN @
                                    ELSE Append(@, [name |-> name, dir |-> slot.dir,
                                                    first |-> slot.first, size |-> slot.size])]

(* parseDirectory of the slots of a directory.                             *)
FatEntries(slots) ==
  FoldLeft(ReadSlot, [out |-> <<>>, long |-> NoLongName, ended |-> FALSE], slots).out

SlotsOf(v, clusters) == FlattenSeq([i \in 1..Len(clusters) |-> At(v.slots, clusters[i], <<[kind |-> "end"]>>)])

(* directory(): the root has an area of its own, except on FAT32.          *)
FatRoot(v) ==
  IF FatWidth(v) = 32 THEN [name |-> "", dir |-> TRUE, first |-> v.rootCluster, size |-> 0]
  ELSE [name |-> "", dir |-> TRUE, first |-> 0, size |-> 0]
FatRootArea(v) == SubSeq(v.rootArea, 1, Smaller(Len(v.rootArea), v.rootEntries))
FatDirectory(v, node, clusters) ==
  FatEntries(IF node.first = 0 /\ node.name = "" /\ FatWidth(v) # 32 THEN FatRootArea(v)
             ELSE SlotsOf(v, clusters))

(* find(): letters match without case; only the last may be a file.        *)
FatFind(entries, name) == FirstWhere(entries, LAMBDA e : Fold(e.name) = Fold(name))

(* clusterContent(): one part per run, cut to the size of the file.        *)
FatContent(v, node, clusters) ==
  IF node.first < 2 \/ node.size = 0 THEN <<>>
  ELSE [i \in 1..Len(clusters) |-> Part(FatClusterPos(v, clusters[i]), FatClusterBytes(v))]

-----------------------------------------------------------------------------
(* exFAT.                                                                  *)

ExFatAccepts(v) ==
  /\ v.signed /\ v.sectorShift \in 9..12 /\ v.clusterShift \in 0..25 /\ v.rootCluster >= 2

ExFatClusterBytes(v) == 2^(v.sectorShift + v.clusterShift)
ExFatClusterPos(v, c) == v.heap * 2^v.sectorShift + (c - 2) * ExFatClusterBytes(v)
(* The marks that end a chain are the last eight numbers of 32 bits; here  *)
(* they are the last eight of 31, as wide as TLC counts.                   *)
ExFatMark == 2147483647
ExFatEnds(c) == c < 2 \/ c > ExFatMark - 8
ExFatCap(v) == IF v.clusters # 0 THEN v.clusters + 2 ELSE 2^24

(* A turn of the loop of clusterChain().  Nothing is remembered: a cyclic  *)
(* chain goes round until the cap.                                         *)
ExFatChainTurn(v, w, stream) ==
  LET c == Head(w.todo)
      covered == (Len(w.out) + 1) * ExFatClusterBytes(v)
      next == IF stream.contiguous THEN c + 1 ELSE At(v.fat, c, ExFatMark)
  IN  IF ExFatEnds(c) \/ Len(w.out) >= ExFatCap(v) THEN Stopped(w)
      ELSE [Gather(w, <<c>>) EXCEPT
              !.todo = IF stream.length # 0 /\ covered >= stream.length THEN <<>> ELSE <<next>>]

(* An entry set: a file slot and the secondary slots it announces.         *)
ExFatEntry(set) ==
  LET data == SelectSeq(set, LAMBDA s : s.kind = "stream")
      named == SelectSeq(set, LAMBDA s : s.kind = "name")
      stream == IF data = <<>> THEN [first |-> 0, contiguous |-> FALSE, length |-> 0, valid |-> 0]
                ELSE Last(data)
      name == IF data = <<>> THEN "" ELSE FoldLeft(LAMBDA a, s : a \o s.piece, "", named)
  IN  [name |-> name, first |-> stream.first, contiguous |-> stream.contiguous,
       length |-> stream.length, size |-> stream.valid]

(* parseDirectory(): sets in order, to the first unused slot.              *)
ExFatEntries(slots) ==
  LET parse[i \in 1..Len(slots) + 1] ==
        IF i > Len(slots) \/ slots[i].kind = "end" THEN <<>>
        ELSE IF slots[i].kind # "file" THEN parse[i + 1]
        ELSE LET last == Smaller(i + slots[i].secondary, Len(slots))
                 entry == ExFatEntry(SubSeq(slots, i + 1, last))
                 rest == parse[last + 1]
             IN  IF entry.name = "" THEN rest
                 ELSE <<entry @@ [dir |-> slots[i].dir]>> \o rest
  IN  parse[1]

ExFatRoot(v) == [name |-> "", dir |-> TRUE, first |-> v.rootCluster, contiguous |-> FALSE,
                 length |-> 0, size |-> 0]

(* directory(): on the way down only directories match.                    *)
ExFatFind(entries, name, last) ==
  FirstWhere(entries, LAMBDA e : Fold(e.name) = Fold(name) /\ (last \/ e.dir))

ExFatContent(v, node, clusters) ==
  IF node.first < 2 \/ node.size = 0 THEN <<>>
  ELSE [i \in 1..Len(clusters) |-> Part(ExFatClusterPos(v, clusters[i]), ExFatClusterBytes(v))]
=============================================================================
