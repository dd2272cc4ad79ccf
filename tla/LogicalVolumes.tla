---------------------------- MODULE LogicalVolumes ----------------------------
(***************************************************************************)
(* Volumes made of extents of a disk: the Logical Disk Manager of Windows  *)
(* (fs/DynamicDisk.cpp), LVM2 (modules/LvmModule.cpp) and members of a     *)
(* Linux RAID1 array (fs/LinuxRaid.cpp).                                   *)
(***************************************************************************)
EXTENDS Filesystems

VolSector == 512

(* What is decoded of a disk.  LDM keeps its numbers as signed ones, the   *)
(* others as unsigned ones.                                                *)
IsList(s) == s \in Seq({s[i] : i \in 1..Len(s)})

LdmTables(v) ==
  /\ {"capacity", "header", "tocs", "databases"} \subseteq DOMAIN v
  /\ v.capacity \in Nat /\ v.header.dataStart \in Int
  /\ \A at \in DOMAIN v.databases :
       LET records == v.databases[at]
       IN  /\ IsList(records)
           /\ \A i \in 1..Len(records) :
                /\ records[i].type = "component" =>
                     records[i].stripe \in Int /\ records[i].merge \in {"concat", "stripe", "other"}
                /\ records[i].type = "extent" => {records[i].at, records[i].size} \subseteq Int

LvmSegmentOf == [striped : BOOLEAN, stripes : Nat, start : Nat, count : Nat, at : Nat]
LvmTables(v) ==
  /\ "labels" \in DOMAIN v /\ IsList(v.labels)
  /\ \A i \in 1..Len(v.labels) :
       LET label == v.labels[i]
       IN  label.signed /\ label.sound =>
             /\ label.data \in Seq([at : Nat, len : Nat]) /\ IsList(label.texts)
             /\ \A k \in 1..Len(label.texts) :
                  LET text == label.texts[k]
                  IN  ~text.ignored /\ text.sound =>
                        /\ text.extent \in Nat /\ IsList(text.volumes)
                        /\ \A n \in 1..Len(text.volumes) : text.volumes[n].segments \in Seq(LvmSegmentOf)

RaidTables(v) ==
  /\ {"capacity", "supers"} \subseteq DOMAIN v /\ v.capacity \in Nat
  /\ \A at \in DOMAIN v.supers : {v.supers[at].start, v.supers[at].size} \subseteq Nat

(* The last record of an identifier counts; the map the reader keeps them  *)
(* in is in the order of identifiers.                                      *)
Latest(records) ==
  Sorted(Kept(records, {i \in 1..Len(records) :
                          /\ records[i].id # 0
                          /\ \A j \in i + 1..Len(records) : records[j].id # records[i].id}),
         LAMBDA a, b : a.id < b.id)

-----------------------------------------------------------------------------
(* readPrivateHeader(), readToc() and the header of parseDatabase().       *)
LdmAccepts(v) ==
  /\ v.header.signed /\ v.header.dataStart >= 0
  /\ v.header.configStart > 0 /\ v.header.tocSize > 0
  /\ (v.header.configStart + v.header.tocSize) * VolSector \in DOMAIN v.tocs
  /\ LET toc == v.tocs[(v.header.configStart + v.header.tocSize) * VolSector]
     IN  /\ toc.config >= 0
         /\ (v.header.configStart + toc.config) * VolSector \in DOMAIN v.databases

(* parseDatabase(): the records of the database, by type.                  *)
LdmRecords(v, type) ==
  LET toc == v.tocs[(v.header.configStart + v.header.tocSize) * VolSector]
      all == v.databases[(v.header.configStart + toc.config) * VolSector]
  IN  Keeping(all, LAMBDA r : r.type = type)
LdmVolumes(v) == Latest(LdmRecords(v, "volume"))
LdmComponents(v) == Latest(LdmRecords(v, "component"))
LdmExtents(v, component, Earlier(_, _)) ==
  Sorted(Keeping(LdmRecords(v, "extent"), LAMBDA e : e.component = component /\ e.size > 0), Earlier)

(* An extent lies on the disk.                                             *)
LdmPart(v, e) == Part((v.header.dataStart + e.at) * VolSector, e.size * VolSector)
LdmOnDisk(v, e) ==
  LdmPart(v, e).at \in 0..v.capacity - 1 /\ LdmPart(v, e).len =< v.capacity - LdmPart(v, e).at

(* StripedStore over extents of a component: chunk after chunk, and        *)
(* nothing where an extent ends before the others.                         *)
LdmChunk(parts, chunk, i) ==
  LET p == parts[(i % Len(parts)) + 1]
      from == Smaller((i \div Len(parts)) * chunk, p.len)
      have == Smaller(chunk, p.len - from)
  IN  <<Part(p.at + from, have), Part(Nothing, chunk - have)>>
Striped(parts, chunk) ==
  LET rows == (LengthOf(parts) + chunk - 1) \div chunk
  IN  CutTo(Concatenated([i \in 1..rows |-> LdmChunk(parts, chunk, i - 1)]), LengthOf(parts))

(* A concatenated component: its extents in order, each where the last one *)
(* ended.  `next` is the end so far; it is kept from one component of a    *)
(* volume to the next.                                                     *)
LdmAdd(v, s, e) ==
  IF ~s.ok \/ e.offset # s.next \/ ~LdmOnDisk(v, e) THEN [s EXCEPT !.ok = FALSE]
  ELSE [s EXCEPT !.next = @ + e.size, !.parts = Append(@, LdmPart(v, e))]

LdmConcat(v, sofar, component) ==
  LET extents == LdmExtents(v, component.id, LAMBDA a, b : a.offset < b.offset)
      upto[n \in 0..Len(extents)] == IF n = 0 THEN [sofar EXCEPT !.parts = <<>>]
                                     ELSE LdmAdd(v, upto[n - 1], extents[n])
      s == upto[Len(extents)]
  IN  IF ~s.ok \/ extents = <<>> THEN [s EXCEPT !.over = TRUE]
      ELSE [s EXCEPT !.stores = Append(@, s.parts)]

LdmStripe(v, sofar, component) ==
  LET extents == LdmExtents(v, component.id, LAMBDA a, b : a.order < b.order)
      ok == component.stripe > 0 /\ extents # <<>> /\ \A i \in 1..Len(extents) : LdmOnDisk(v, extents[i])
      parts == [i \in 1..Len(extents) |-> LdmPart(v, extents[i])]
  IN  IF ~ok THEN [sofar EXCEPT !.ok = FALSE, !.over = TRUE]
      ELSE [sofar EXCEPT !.stores = Append(@, Striped(parts, component.stripe * VolSector)),
                         !.next = @ + LengthOf(parts) \div VolSector]

LdmComponent(v, sofar, component) ==
  IF sofar.over THEN sofar
  ELSE CASE component.merge = "concat" -> LdmConcat(v, sofar, component)
         [] component.merge = "stripe" -> LdmStripe(v, sofar, component)
         [] component.merge = "other" -> [sofar EXCEPT !.ok = FALSE, !.over = TRUE]

(* readDynamicDiskVolumes() for one volume.                                *)
LdmVolume(v, volume) ==
  LET mine == Keeping(LdmComponents(v), LAMBDA c : c.volume = volume.id)
      upto[n \in 0..Len(mine)] ==
        IF n = 0 THEN [stores |-> <<>>, parts |-> <<>>, next |-> 0, ok |-> TRUE, over |-> FALSE]
        ELSE LdmComponent(v, upto[n - 1], mine[n])
  IN  upto[Len(mine)]

(* The volumes of which every component is whole; the first stands for     *)
(* all.                                                                    *)
LdmEntry(r, made) ==
  IF ~made.ok \/ made.stores = <<>> THEN <<>>
  ELSE <<[name |-> IF r.name = "" THEN "Dynamic volume" ELSE r.name, dir |-> FALSE,
          parts |-> made.stores[1],
          size |-> VolSector * (IF r.size # 0 THEN r.size ELSE made.next)]>>

LdmEntries(v) ==
  LET volumes == LdmVolumes(v)
  IN  Concatenated([i \in 1..Len(volumes) |-> LdmEntry(volumes[i], LdmVolume(v, volumes[i]))])

-----------------------------------------------------------------------------
(* LVM2.                                                                   *)

(* parsePv(): the first label decides, right or wrong.                     *)
LvmLabel(v) == Kept(v.labels, {i \in 1..Smaller(4, Len(v.labels)) : v.labels[i].signed})

(* readMetadataText(): the first location that is not to be ignored.       *)
LvmText(v) == Keeping(LvmLabel(v)[1].texts, LAMBDA t : ~t.ignored)

LvmAccepts(v) ==
  /\ LvmLabel(v) # <<>>
  /\ LvmLabel(v)[1].sound /\ Len(LvmLabel(v)[1].data) = 1
  /\ LvmLabel(v)[1].metadataOk /\ LvmText(v) # <<>>
  /\ LvmText(v)[1].sound /\ LvmText(v)[1].extent # 0

(* parseLogicalVolumes(): linear segments, that is striped over one; what  *)
(* is of another kind is passed over.                                      *)
LvmSegments(lv) ==
  Sorted(Keeping(lv.segments, LAMBDA s : s.striped /\ s.stripes = 1 /\ s.count # 0),
         LAMBDA a, b : a.start < b.start)

(* open(): the parts of a logical volume, in the data area of this disk    *)
(* whichever physical volume the segment names.                            *)
LvmParts(v, lv) ==
  LET unit == LvmText(v)[1].extent * VolSector
      segments == LvmSegments(lv)
      area == LvmLabel(v)[1].data[1]
  IN  [i \in 1..Len(segments) |-> Part(area.at + segments[i].at * unit, segments[i].count * unit)]

(* Segments follow each other without a gap, in the data area.             *)
LvmWhole(v, lv) ==
  LET unit == LvmText(v)[1].extent * VolSector
      segments == LvmSegments(lv)
      starts == StartsOf(LvmParts(v, lv))
  IN  /\ segments # <<>>
      /\ \A i \in 1..Len(segments) :
           /\ segments[i].start * unit = starts[i]
           /\ (segments[i].at + segments[i].count) * unit =< LvmLabel(v)[1].data[1].len

LvmEntries(v) ==
  LET whole == Keeping(LvmText(v)[1].volumes, LAMBDA lv : LvmWhole(v, lv))
  IN  [i \in 1..Len(whole) |-> [name |-> whole[i].name, dir |-> FALSE, parts |-> LvmParts(v, whole[i]),
                                size |-> LengthOf(LvmParts(v, whole[i]))]]

-----------------------------------------------------------------------------
(* Linux RAID.                                                             *)

(* readLinuxRaidSuperblock(): the places of the four versions, in turn.    *)
RaidPlaces(v) ==
  <<[minor |-> 1, at |-> 0], [minor |-> 2, at |-> 4096],
    [minor |-> 0, at |-> IF v.capacity =< 8192 THEN 0 ELSE ((v.capacity - 8192) \div 65536) * 65536],
    [minor |-> 9, at |-> IF v.capacity =< 65536 THEN 0 ELSE ((v.capacity - 65536) \div VolSector) * VolSector]>>

RaidSuper(v, place) == At(v.supers, place.at, [major |-> -1, minor |-> -1, start |-> 0, size |-> 0])

(* The member's data; version 0.90 starts at the front.                    *)
RaidStart(place, s) == IF place.minor = 9 THEN 0 ELSE s.start

RaidFits(v, place) ==
  LET s == RaidSuper(v, place)
      start == RaidStart(place, s) * VolSector
  IN  /\ place.at < v.capacity
      /\ IF place.minor = 9 THEN s.major = 0 /\ s.minor = 9 ELSE s.major = 1
      /\ s.size # 0 /\ start =< v.capacity /\ s.size * VolSector =< v.capacity - start

RaidEntries(v) ==
  LET place == FirstWhere(RaidPlaces(v), LAMBDA p : RaidFits(v, p))
      s == RaidSuper(v, place[1])
      parts == <<Part(RaidStart(place[1], s) * VolSector, s.size * VolSector)>>
  IN  IF place = <<>> \/ s.level # 1 THEN <<>>
      ELSE <<[name |-> s.name, dir |-> FALSE, parts |-> parts, size |-> LengthOf(parts)]>>
=============================================================================
