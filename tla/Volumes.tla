-------------------------------- MODULE Volumes --------------------------------
(***************************************************************************)
(* A volume that is mounted and then browsed, a path at a time: one        *)
(* machine for every reader of opener/fs.  The modules extended here say   *)
(* what each reader does with its metadata; this one says in which order,  *)
(* and its variables are what the reader holds between two turns of its    *)
(* loops.                                                                  *)
(*                                                                         *)
(* VolumeOf(disk) is [kind, volume, sound, guest, asks], where `guest` is  *)
(* what was put on the volume: its directories and files by path, a file   *)
(* as a size and parts; nothing but the properties looks at it.  A volume  *)
(* that is not sound is a damaged one.                                     *)
(***************************************************************************)
EXTENDS FatVolumes, HpfsVolumes, JfsVolumes, LinuxVolumes, NtfsVolumes, OpticalVolumes,
        HfsPlusVolumes, PartitionVolumes, LogicalVolumes, ImageVolumes, RegistryHives

CONSTANTS Disks, VolumeOf(_)

(* A FAT volume has the numbers of its boot sector.                        *)
ASSUME FatAssumption ==
  \A d \in Disks :
    VolumeOf(d).kind = "fat" =>
      {"sector", "perCluster", "reserved", "fats", "fatSectors", "rootEntries", "total"}
        \subseteq DOMAIN VolumeOf(d).volume

(* Tables of partitions and extents hold numbers of their widths.          *)
ASSUME TablesAssumption ==
  \A d \in Disks :
    /\ VolumeOf(d).kind = "table" => PartVolume(VolumeOf(d).volume)
    /\ VolumeOf(d).kind = "ldm" => LdmTables(VolumeOf(d).volume)
    /\ VolumeOf(d).kind = "lvm" => LvmTables(VolumeOf(d).volume)
    /\ VolumeOf(d).kind = "raid" => RaidTables(VolumeOf(d).volume)

VARIABLES
  disk,    \* the key of the volume
  state,   \* "new", "mounting", "ready", "refused", "entering", "walking", "gathered"
           \* or "answered"
  facts,   \* what mounting found out and the reader keeps
  ask,     \* the list() or openFile() that is being answered
  node,    \* the entry that the path led to so far
  rest,    \* the names of the path that are left
  here,    \* whether the node is a directory, and its entries
  walk,    \* the loop under way
  reply,   \* the entries listed, or the byte of the image that is read
  beat     \* ticks with every step, so that a turn that changes nothing is one

vars == <<disk, state, facts, ask, node, rest, here, walk, reply, beat>>

Kind == VolumeOf(disk).kind
Volume == VolumeOf(disk).volume
Mounted ==
  [f \in DOMAIN facts \cup DOMAIN Volume |-> IF f \in DOMAIN facts THEN facts[f] ELSE Volume[f]]

Tables == {"table", "ldm", "lvm", "raid"}
NoFacts == [mounted |-> TRUE]
Unusable == [mounted |-> FALSE]
NoAsk == [op |-> "none", path |-> <<>>, pos |-> 0]
NoNode == [name |-> ""]
NothingHere == [dir |-> FALSE, entries |-> <<>>]

-----------------------------------------------------------------------------
(* Mounting.                                                               *)

Accepts(kind, v) ==
  CASE kind = "fat"     -> FatAccepts(v)
    [] kind = "exfat"   -> ExFatAccepts(v)
    [] kind = "hpfs"    -> HpfsAccepts(v)
    [] kind = "jfs"     -> JfsAccepts(v)
    [] kind = "btrfs"   -> BtrfsAccepts(v)
    [] kind = "xfs"     -> XfsAccepts(v)
    [] kind = "ntfs"    -> NtfsAccepts(v)
    [] kind = "ext"     -> ExtAccepts(v)
    [] kind = "udf"     -> UdfAccepts(v)
    [] kind = "iso"     -> IsoAccepts(v)
    [] kind = "hfsplus" -> HfsAccepts(v)
    [] kind = "table"   -> TRUE
    [] kind = "ldm"     -> LdmAccepts(v)
    [] kind = "lvm"     -> LvmAccepts(v)
    [] kind = "raid"    -> RaidEntries(v) # <<>>
    [] kind = "squash"  -> SquashAccepts(v)
    [] kind = "wim"     -> WimAccepts(v)
    [] kind = "hive"    -> HiveAccepts(v)

MountStart(kind, v) ==
  CASE kind = "btrfs"   -> BtrfsChunkStart(v)
    [] kind = "iso"     -> IsoTreeStart(v)
    [] kind = "hfsplus" -> HfsLeafStart(v)
    [] kind = "table"   -> PartStart(v)
    [] OTHER            -> Walk(<<>>)

MountTurn(kind, v, w) ==
  CASE kind = "btrfs"   -> BtrfsChunkTurn(v, w)
    [] kind = "iso"     -> IsoTreeTurn(v, w)
    [] kind = "hfsplus" -> HfsLeafTurn(v, w)
    [] kind = "table"   -> MbrTurn(v, w)

JfsFacts(map) == IF map = <<>> THEN Unusable ELSE [map |-> map]
BtrfsFacts(v) == IF BtrfsUsable(v) THEN [chunks |-> v.chunks] ELSE Unusable

Facts(kind, v, w) ==
  CASE kind = "btrfs"   -> BtrfsFacts([chunks |-> w.out] @@ v)
    [] kind = "iso"     -> [tree |-> w.out]
    [] kind = "hfsplus" -> [children |-> w.out]
    [] kind = "table"   -> [partitions |-> PartDone(v, w)]
    [] kind = "jfs"     -> JfsFacts(JfsChosen(v))
    [] OTHER            -> NoFacts

-----------------------------------------------------------------------------
(* A directory or a file of a mounted volume.                              *)

Root(kind, v) ==
  CASE kind = "fat"     -> FatRoot(v)
    [] kind = "exfat"   -> ExFatRoot(v)
    [] kind = "hpfs"    -> HpfsRoot(v)
    [] kind = "jfs"     -> JfsRoot(v)
    [] kind = "btrfs"   -> BtrfsRoot(v)
    [] kind = "xfs"     -> XfsRoot(v)
    [] kind = "ntfs"    -> NtfsRoot(v)
    [] kind = "ext"     -> ExtRoot(v)
    [] kind = "udf"     -> UdfRoot(v)
    [] kind = "iso"     -> IsoRoot(v)
    [] kind = "hfsplus" -> HfsRoot(v)
    [] kind = "squash"  -> SquashRoot(v)
    [] kind = "wim"     -> WimRoot(v)
    [] kind = "hive"    -> HiveRoot(v)
    [] kind \in Tables  -> [name |-> "", dir |-> TRUE]

IsDirectory(kind, v, n) ==
  CASE kind = "jfs"    -> JfsIsDirectory(v, JfsNode(v, n)[1])
    [] kind = "xfs"    -> XfsInode(v, n.first) # <<>> /\ XfsInode(v, n.first)[1].kind = "dir"
    [] kind = "ntfs"   -> NtfsIsDirectory(v, n.first)
    [] kind = "ext"    -> ExtIsDirectory(v, n.first)
    [] kind = "squash" -> SquashInode(v, n.ref) # <<>> /\ SquashIsDirectory(SquashInode(v, n.ref)[1])
    [] OTHER           -> n.dir

(* The loop over the pieces of a directory or a file, where there is one.  *)
Start(kind, v, n) ==
  CASE kind = "fat"   -> IF n.first < 2 THEN Walk(<<>>) ELSE FatChainStart(v, n.first)
    [] kind = "exfat" -> IF n.first < 2 THEN Walk(<<>>) ELSE Walk(<<n.first>>)
    [] kind = "hpfs"  -> IF n.dir THEN HpfsDirStart(v, n) ELSE HpfsFileStart(v, n.first)
    [] kind = "jfs"   -> IF IsDirectory(kind, v, n) THEN JfsDirStart(JfsNode(v, n)[1])
                         ELSE JfsTreeStart(JfsNode(v, n)[1].xtree)
    [] kind = "xfs"   -> XfsFileStart(v, n.first)
    [] kind = "hive"  -> HiveKeyStart(v, n)
    [] OTHER          -> Walk(<<>>)

TurnOf(kind, v, n, w) ==
  CASE kind = "fat"   -> FatChainTurn(v, w)
    [] kind = "exfat" -> ExFatChainTurn(v, w, [contiguous |-> n.contiguous, length |-> n.length])
    [] kind = "hpfs"  -> IF n.dir THEN HpfsDirTurn(v, w) ELSE HpfsFileTurn(v, w)
    [] kind = "jfs"   -> IF IsDirectory(kind, v, n) THEN JfsDirTurn(v, w) ELSE JfsTreeTurn(v, w)
    [] kind = "xfs"   -> XfsTreeTurn(v, w)
    [] kind = "hive"  -> HiveListTurn(v, w)

Entries(kind, v, n, w) ==
  CASE kind = "fat"     -> FatDirectory(v, n, w.out)
    [] kind = "exfat"   -> ExFatEntries(SlotsOf(v, w.out))
    [] kind = "hpfs"    -> w.out
    [] kind = "jfs"     -> JfsEntries(w)
    [] kind = "btrfs"   -> BtrfsEntries(v, n)
    [] kind = "xfs"     -> XfsEntries(v, n.first, w)
    [] kind = "ntfs"    -> NtfsEntries(v, NtfsRecord(v, n.first)[1])
    [] kind = "ext"     -> ExtEntries(v, n.first)
    [] kind = "udf"     -> UdfEntries(v, n.icb)
    [] kind = "iso"     -> IsoEntries(v, n)
    [] kind = "hfsplus" -> HfsEntries(v, n)
    [] kind = "table"   -> PartEntries(v)
    [] kind = "ldm"     -> LdmEntries(v)
    [] kind = "lvm"     -> LvmEntries(v)
    [] kind = "raid"    -> RaidEntries(v)
    [] kind = "squash"  -> SquashEntries(v, n.ref)
    [] kind = "hive"    -> HiveKeys(v, w)
    [] kind = "wim"     -> <<>>

(* The entry of a name, in a sequence of one at most.                      *)
Find(kind, v, n, entries, name, last) ==
  CASE kind = "fat"     -> FatFind(entries, name)
    [] kind = "exfat"   -> ExFatFind(entries, name, last)
    [] kind = "hpfs"    -> HpfsFind(entries, name)
    [] kind = "jfs"     -> JfsFind(v, entries, name)
    [] kind = "btrfs"   -> BtrfsFind(entries, name)
    [] kind = "xfs"     -> XfsFind(entries, name)
    [] kind = "ntfs"    -> NtfsFind(entries, name)
    [] kind = "ext"     -> ExtFindName(v, entries, name)
    [] kind = "udf"     -> UdfFind(entries, name)
    [] kind = "iso"     -> IsoFind(entries, name)
    [] kind = "hfsplus" -> HfsFind(entries, name)
    [] kind = "squash"  -> SquashFind(entries, name)
    [] kind = "hive"    -> HiveFind(entries, name)
    [] kind = "wim"     -> WimFind(v, n, name)
    [] kind \in Tables  -> PartFind(entries, name)

Shown(e) == [name |-> e.name, dir |-> e.dir, size |-> IF e.dir THEN 0 ELSE e.size]

Listing(kind, v, n, w, entries) ==
  CASE kind = "jfs"    -> JfsListing(v, entries)
    [] kind = "xfs"    -> XfsListing(v, entries)
    [] kind = "ntfs"   -> NtfsListing(entries)
    [] kind = "ext"    -> ExtListing(v, entries)
    [] kind = "squash" -> SquashListing(v, entries)
    [] kind = "wim"    -> WimListing(v, n)
    [] kind = "hive"   -> HiveListing(v, n, w)
    [] OTHER           -> [i \in 1..Len(entries) |-> Shown(entries[i])]

(* The byte of the image that the file shows at a position.                *)
Reads(kind, v, n, w, pos) ==
  CASE kind = "fat"     -> HostAt(FatContent(v, n, w.out), n.size, pos)
    [] kind = "exfat"   -> HostAt(ExFatContent(v, n, w.out), n.size, pos)
    [] kind = "hpfs"    -> HpfsReads(v, n, w, pos)
    [] kind = "jfs"     -> JfsReads(v, n, w, pos)
    [] kind = "btrfs"   -> BtrfsReads(v, n, pos)
    [] kind = "xfs"     -> XfsReads(v, n, w, pos)
    [] kind = "ntfs"    -> NtfsReads(v, n, pos)
    [] kind = "ext"     -> ExtReads(v, n, pos)
    [] kind = "udf"     -> UdfReads(v, n, pos)
    [] kind = "iso"     -> IsoReads(n, pos)
    [] kind = "hfsplus" -> HfsReads(v, n, pos)
    [] kind = "squash"  -> SquashReads(v, n, pos)
    [] kind = "wim"     -> WimReads(v, n, pos)
    [] kind \in Tables  -> PartReads(v, n, pos)

-----------------------------------------------------------------------------
Init ==
  /\ disk \in Disks
  /\ state = "new" /\ facts = NoFacts
  /\ ask = NoAsk /\ node = NoNode /\ rest = <<>> /\ here = NothingHere /\ walk = Walk(<<>>) /\ reply = <<>>
  /\ beat = 0

Rest == UNCHANGED <<disk, ask, node, rest, reply>>

Mount ==
  /\ state = "new"
  /\ IF Accepts(Kind, Volume)
     THEN state' = "mounting" /\ walk' = MountStart(Kind, Volume)
     ELSE state' = "refused" /\ walk' = walk
  /\ UNCHANGED <<facts, here>> /\ Rest

MountOn ==
  /\ state = "mounting" /\ walk.todo # <<>>
  /\ walk' = MountTurn(Kind, Volume, walk)
  /\ UNCHANGED <<state, facts, here>> /\ Rest

(* A walk that failed leaves nothing mounted.                              *)
MountDone ==
  /\ state = "mounting" /\ walk.todo = <<>>
  /\ facts' = IF walk.ok THEN Facts(Kind, Volume, walk) ELSE Unusable
  /\ state' = IF facts' = Unusable THEN "refused" ELSE "ready"
  /\ walk' = Walk(<<>>) /\ here' = here /\ Rest

Ask ==
  /\ state = "ready"
  /\ ask' \in VolumeOf(disk).asks
  /\ node' = Root(Kind, Mounted) /\ rest' = ask'.path
  /\ state' = "entering"
  /\ UNCHANGED <<disk, facts, walk, here, reply>>

(* The node is read: what it is, and the loop over its pieces.             *)
Enter ==
  /\ state = "entering" /\ state' = "walking"
  /\ walk' = Start(Kind, Mounted, node)
  /\ here' = [dir |-> IsDirectory(Kind, Mounted, node), entries |-> <<>>]
  /\ UNCHANGED <<disk, facts, ask, node, rest, reply>>

Turn ==
  /\ state = "walking" /\ walk.todo # <<>>
  /\ walk' = TurnOf(Kind, Mounted, node, walk)
  /\ UNCHANGED <<state, facts, here>> /\ Rest

(* The loop is over; a directory has its entries.                          *)
Gathered ==
  /\ state = "walking" /\ walk.todo = <<>> /\ state' = "gathered"
  /\ here' = IF here.dir THEN [here EXCEPT !.entries = Entries(Kind, Mounted, node, walk)] ELSE here
  /\ UNCHANGED <<facts, walk>> /\ Rest

Reply(answer) ==
  /\ reply' = answer /\ state' = "answered" /\ walk' = Walk(<<>>)
  /\ UNCHANGED <<disk, facts, ask, node, rest, here>>

Absent == IF ask.op = "list" THEN <<>> ELSE Nothing

(* The value of a key is the last name of its path, and not looked for     *)
(* among the keys.                                                         *)
AtValue == Kind = "hive" /\ ask.op = "read" /\ Len(rest) = 1

(* The next name of the path: only a directory is looked into, except by   *)
(* the WIM reader.                                                         *)
Descend ==
  /\ state = "gathered" /\ rest # <<>> /\ ~AtValue
  /\ \E found \in {IF Kind = "wim" \/ here.dir
                   THEN Find(Kind, Mounted, node, here.entries, Head(rest),
                             Len(rest) = 1 /\ ask.op = "read")
                   ELSE <<>>} :
       \/ /\ found # <<>>
          /\ node' = found[1] /\ rest' = Tail(rest) /\ state' = "entering"
          /\ UNCHANGED <<disk, facts, ask, walk, here, reply>>
       \/ found = <<>> /\ Reply(Absent)

AnswerList ==
  /\ state = "gathered" /\ rest = <<>> /\ ask.op = "list"
  /\ Reply(IF here.dir THEN Listing(Kind, Mounted, node, walk, here.entries) ELSE <<>>)

AnswerRead ==
  /\ state = "gathered" /\ rest = <<>> /\ ask.op = "read"
  /\ Reply(IF Kind = "hive" \/ here.dir THEN Nothing ELSE Reads(Kind, Mounted, node, walk, ask.pos))

AnswerValue ==
  /\ state = "gathered" /\ AtValue
  /\ Reply(HiveReads(Mounted, node, Head(rest), ask.pos))

(* An answer is the end; so is a mounted volume nothing is asked of.       *)
Idle == state \in {"ready", "refused", "answered"} /\ UNCHANGED vars

Step ==
  /\ beat' = 1 - beat
  /\ \/ Mount \/ MountOn \/ MountDone \/ Enter \/ Turn \/ Gathered \/ Descend
     \/ AnswerList \/ AnswerRead \/ AnswerValue
Next == Step \/ (Ask /\ beat' = beat) \/ Idle

(* The reader's loops go on: weak fairness of Step, with what enables it   *)
(* written out.  A step is possible exactly while one is due, or else the  *)
(* run reports a deadlock; and a step is what makes the beat tick.         *)
Due == state \in {"new", "mounting", "entering", "walking", "gathered"}
Fairness == []<>~Due \/ []<><<beat' # beat>>_vars
Spec == Init /\ [][Next]_vars /\ Fairness

-----------------------------------------------------------------------------
Sound == VolumeOf(disk).sound
Guest == VolumeOf(disk).guest
Sought == IF ask.path \in DOMAIN Guest.also THEN Guest.also[ask.path] ELSE ask.path

Children(path) ==
  {[name |-> Last(p), dir |-> TRUE, size |-> 0] :
     p \in {q \in Guest.dirs : q # <<>> /\ Front(q) = path}}
  \cup {[name |-> Last(p), dir |-> FALSE, size |-> Guest.files[p].size] :
     p \in {q \in DOMAIN Guest.files : Front(q) = path}}

(* A sound volume mounts, and listing a path of it shows what was put      *)
(* there, each thing once and nothing else: names put together from        *)
(* pieces, entries spread over clusters, branches, leaves and records,     *)
(* volumes over extents of other volumes.                                  *)
ListsTheGuest ==
  Sound =>
    /\ state # "refused"
    /\ state = "answered" /\ ask.op = "list" =>
         IF ask.path \in Guest.dirs
         THEN ToSet(reply) = Children(ask.path) /\ Len(reply) = Cardinality(ToSet(reply))
         ELSE reply = <<>>

(* Every byte read from a file of a sound volume is the byte that was put  *)
(* there, through every translation on the way; there is none past the     *)
(* end, and none of a path that is no file.                                *)
ReadsTheGuest ==
  Sound /\ state = "answered" /\ ask.op = "read" =>
    reply = IF Sought \in DOMAIN Guest.files
            THEN HostAt(Guest.files[Sought].parts, Guest.files[Sought].size, ask.pos)
            ELSE Nothing

(* Whatever the tables of a volume say, a FAT chain visits only clusters   *)
(* the volume has and none of them twice, and a HPFS directory holds no    *)
(* entry twice.                                                            *)
NothingTwice ==
  state = "walking" =>
    /\ Kind = "fat" => ToSet(walk.out) \subseteq 2..FatClusters(Volume) + 1
    /\ Kind = "fat" \/ (Kind = "hpfs" /\ node.dir) =>
         Len(walk.out) = Cardinality(ToSet(walk.out))

(* Whatever its tables say, a disk shows only parts that lie on it: a      *)
(* partition, an extent of a volume and a member of an array end where the *)
(* disk does, or before.  Only the data area an LVM label tells of is not  *)
(* compared with the disk: a segment lies in that.  An extent of a striped *)
(* volume has no more than it is long, and leaves a gap.                   *)
Room == IF Kind = "lvm" THEN LvmLabel(Volume)[1].data[1] ELSE Part(0, Volume.capacity)
PartsOnTheDisk ==
  Kind \in Tables =>
    \A e \in ToSet(here.entries) : \A part \in ToSet(e.parts) :
      \/ Kind = "ldm" /\ part.at = Nothing
      \/ part.len >= 0 /\ Room.at =< part.at /\ part.at + part.len =< Room.at + Room.len

(* Mounting ends and every question is answered, on a damaged volume too.  *)
WalksEnd == Due ~> ~Due
=============================================================================
