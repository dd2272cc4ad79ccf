---------------------------- MODULE OpticalVolumes ----------------------------
(***************************************************************************)
(* The UDF and ISO 9660 readers (fs/UdfReader.cpp, fs/Iso9660Reader.cpp):  *)
(* volume descriptors, partitions and information control blocks of the    *)
(* one, the directory tree of the other, which is read whole at mount.     *)
(*                                                                         *)
(* A UDF volume's `anchors` maps a sector size to the descriptors its      *)
(* anchor leads to; `fsds` and `icbs` say what lies at a byte, `fids` what *)
(* records a directory's content holds.  An ISO volume's `dirs` maps a     *)
(* sector and a length to the records there.                               *)
(***************************************************************************)
EXTENDS Filesystems

(* probeSectorSize(): the first size whose sector 256 is an anchor.        *)
UdfSector(v) ==
  FirstWhere(<<2048, 512, 4096, 1024>>,
             LAMBDA s : s \in DOMAIN v.anchors /\ v.capacity >= 256 * s + 16)

(* The descriptors up to the terminator, 256 at most.                      *)
UdfDescriptors(v) ==
  LET all == v.anchors[UdfSector(v)[1]]
      ends == {i \in 1..Len(all) : all[i].tag \in {0, 8} \/ i > 256}
  IN  IF ends = {} THEN all ELSE SubSeq(all, 1, (CHOOSE i \in ends : \A j \in ends : i =< j) - 1)

UdfOf(v, tag) == SelectSeq(UdfDescriptors(v), LAMBDA d : d.tag = tag)
UdfPhysical(v, number) == SelectSeq(UdfOf(v, 5), LAMBDA d : d.number = number)
UdfMaps(v) == LET lvds == UdfOf(v, 6) IN FlattenSeq([i \in 1..Len(lvds) |-> lvds[i].maps])
UdfBlock(v) == Last(UdfOf(v, 6)).block

(* A later descriptor of a partition replaces an earlier one.              *)
UdfStart(v, partition) ==
  Last(UdfPhysical(v, UdfMaps(v)[partition + 1].number)).start * UdfSector(v)[1]

(* readExtent(): where a control block lies.                               *)
UdfAt(v, icb) ==
  IF icb.partition >= Len(UdfMaps(v)) THEN Nothing
  ELSE UdfStart(v, icb.partition) + icb.block * UdfBlock(v)

UdfAccepts(v) ==
  /\ UdfSector(v) # <<>> /\ UdfOf(v, 6) # <<>>
  /\ UdfMaps(v) # <<>>
  /\ \A i \in 1..Len(UdfMaps(v)) :
       UdfMaps(v)[i].type = 1 /\ UdfPhysical(v, UdfMaps(v)[i].number) # <<>>
  /\ UdfAt(v, Last(UdfOf(v, 6)).fsd) \in DOMAIN v.fsds

(* readNode(): none unless it is a file entry.                             *)
UdfNode(v, icb) ==
  SelectSeq(At(v.icbs, UdfAt(v, icb), <<>>), LAMBDA n : n.tag \in {261, 266})

(* The descriptors up to the first that is empty or of no partition.       *)
UdfAds(v, node) ==
  LET bad == {i \in 1..Len(node.ads) :
                \/ node.ads[i].len = 0
                \/ node.alloc = 1 /\ node.ads[i].partition >= Len(UdfMaps(v))}
  IN  IF bad = {} THEN node.ads
      ELSE SubSeq(node.ads, 1, (CHOOSE i \in bad : \A j \in bad : i =< j) - 1)

(* nodeContent(): embedded, or short or long descriptors; any other kind   *)
(* reads as zeros.  A short one is in the partition of its control block.  *)
UdfExtents(v, ads, short, partition) ==
  LET at(ad) == UdfStart(v, IF short THEN partition ELSE ad.partition) + ad.block * UdfBlock(v)
  IN  [i \in 1..Len(ads) |-> Part(IF short /\ ads[i].flags # 0 THEN Zeros ELSE at(ads[i]), ads[i].len)]

UdfParts(v, node, partition) ==
  CASE node.alloc = 3        -> <<Part(node.at, node.room)>>
    [] node.alloc = 2        -> <<Part(Zeros, node.size)>>
    [] node.alloc \in {0, 1} -> UdfExtents(v, UdfAds(v, node), node.alloc = 0, partition)

(* readDirectory(): deleted, parent and nameless records are not shown.    *)
UdfSized(found) == IF found = <<>> THEN 0 ELSE found[1].size
UdfShown(v, records) ==
  LET shown == SelectSeq(records, LAMBDA r : ~r.deleted /\ ~r.parent /\ r.name # "")
  IN  [i \in 1..Len(shown) |->
        [name |-> shown[i].name, dir |-> shown[i].dir, icb |-> shown[i].icb,
         size |-> IF shown[i].dir THEN 0 ELSE UdfSized(UdfNode(v, shown[i].icb))]]

UdfEntriesOf(v, node, partition) ==
  IF node = <<>> \/ ~node[1].dir THEN <<>>
  ELSE UdfShown(v, At(v.fids, UdfParts(v, node[1], partition), <<>>))

UdfEntries(v, icb) == UdfEntriesOf(v, UdfNode(v, icb), icb.partition)

(* resolve(): letters match without case.                                  *)
UdfFind(entries, name) == FirstWhere(entries, LAMBDA e : Fold(e.name) = Fold(name))

UdfRoot(v) == [name |-> "", dir |-> TRUE, icb |-> v.fsds[UdfAt(v, Last(UdfOf(v, 6)).fsd)], size |-> 0]

UdfReads(v, node, pos) ==
  LET at(found) == IF found = <<>> THEN Nothing
                   ELSE HostAt(UdfParts(v, found[1], node.icb.partition), found[1].size, pos)
  IN  at(UdfNode(v, node.icb))

-----------------------------------------------------------------------------
(* ISO 9660.                                                               *)
IsoSector == 2048

(* The descriptors up to the terminator, 64 at most.                       *)
IsoDescriptors(v) ==
  LET ends == {i \in 1..Len(v.descriptors) :
                 i > 64 \/ ~v.descriptors[i].signed \/ v.descriptors[i].type = 255}
  IN  IF ends = {} THEN v.descriptors
      ELSE SubSeq(v.descriptors, 1, (CHOOSE i \in ends : \A j \in ends : i =< j) - 1)

IsoAccepts(v) ==
  \E i \in 1..Len(IsoDescriptors(v)) :
    LET d == IsoDescriptors(v)[i] IN d.type = 1 \/ (d.type = 2 /\ d.joliet)

(* parse(): the last Joliet descriptor, or else the last primary one.      *)
IsoTop(v) ==
  LET joliet == SelectSeq(IsoDescriptors(v), LAMBDA d : d.type = 2 /\ d.joliet)
      primary == SelectSeq(IsoDescriptors(v), LAMBDA d : d.type = 1)
  IN  IF joliet # <<>> THEN Last(joliet) ELSE Last(primary)

(* A directory is known by the way to it: which child of which child.      *)
IsoTreeStart(v) ==
  Walk(<<[extent |-> IsoTop(v).extent, length |-> IsoTop(v).length, way |-> <<>>]>>)

IsoRecords(v, here) ==
  LET all == At(v.dirs, <<here.extent, here.length>>, <<>>)
      bad == {i \in 1..Len(all) : ~all[i].fits}
      sound == IF bad = {} THEN all
               ELSE SubSeq(all, 1, (CHOOSE i \in bad : \A j \in bad : i =< j) - 1)
  IN  SelectSeq(sound, LAMBDA r : ~r.special)

(* readDirectory() for one directory.  Nothing is remembered but the       *)
(* parent: a loop of two is followed 65 levels down.                       *)
IsoTreeTurn(v, w) ==
  LET here == Head(w.todo)
      records == IsoRecords(v, here)
      entry(i) == [parent |-> here.way, way |-> Append(here.way, i), name |-> records[i].name,
                   dir |-> records[i].dir, extent |-> records[i].extent,
                   length |-> records[i].length, size |-> records[i].length]
      entries == [i \in 1..Len(records) |-> entry(i)]
      below == SelectSeq(entries, LAMBDA e : e.dir /\ e.extent # here.extent)
  IN  IF Len(here.way) > 64 \/ here.length = 0 THEN Skipped(w)
      ELSE [w EXCEPT !.todo = below \o Tail(@), !.out = @ \o entries]

(* A mounted volume carries its tree.                                      *)
IsoRoot(v) == [name |-> "", dir |-> TRUE, way |-> <<>>, extent |-> 0, length |-> 0]
IsoEntries(v, node) == SelectSeq(v.tree, LAMBDA e : e.parent = node.way)
IsoFind(entries, name) == FirstWhere(entries, LAMBDA e : e.name = name)
IsoReads(node, pos) ==
  IF pos \in 0..node.length - 1 THEN node.extent * IsoSector + pos ELSE Nothing
=============================================================================
