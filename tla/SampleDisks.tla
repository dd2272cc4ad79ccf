------------------------------ MODULE SampleDisks ------------------------------
(***************************************************************************)
(* The last small volumes for TLC: discs, HFS+, partitioned disks, volumes *)
(* over extents, compressed images and a registry hive.                    *)
(***************************************************************************)
EXTENDS SampleVolumes

(* UDF: two partitions, of which one was described twice; embedded data,   *)
(* short descriptors with one not recorded, long descriptors.              *)
Icb(partition, block) == [partition |-> partition, block |-> block]
UdfFile(tag, dir, alloc, size) ==
  [tag |-> tag, dir |-> dir, alloc |-> alloc, size |-> size, at |-> 0, room |-> 0, ads |-> <<>>]
Ad(flags, partition, block, len) ==
  [flags |-> flags, partition |-> partition, block |-> block, len |-> len]
Fid(name, dir, icb) == [name |-> name, dir |-> dir, icb |-> icb, deleted |-> FALSE, parent |-> FALSE]

UdfVolume ==
  [capacity |-> 2000000,
   anchors |-> (2048 :> << [tag |-> 1], [tag |-> 5, number |-> 0, start |-> 300],
                           [tag |-> 5, number |-> 1, start |-> 400],
                           [tag |-> 6, block |-> 2048, fsd |-> Icb(0, 0),
                            maps |-> << [type |-> 1, number |-> 0], [type |-> 1, number |-> 1] >>],
                           [tag |-> 5, number |-> 1, start |-> 500], [tag |-> 8],
                           [tag |-> 5, number |-> 0, start |-> 1] >>),
   fsds |-> (614400 :> Icb(0, 1)),
   icbs |->
     (616448 :> << [UdfFile(261, TRUE, 3, 300) EXCEPT !.at = 616648, !.room = 300] >>)
     @@ (618496 :> << [UdfFile(266, FALSE, 0, 4596) EXCEPT !.ads =
                        << Ad(0, 0, 10, 2048), Ad(2, 0, 0, 2048), Ad(0, 0, 14, 500), Ad(0, 0, 9, 0),
                           Ad(0, 0, 9, 9) >>] >>)
     @@ (620544 :> << [UdfFile(261, TRUE, 1, 400) EXCEPT !.ads = << Ad(0, 1, 16, 400) >>] >>)
     @@ (1032192 :> << [UdfFile(261, FALSE, 3, 30) EXCEPT !.at = 1032392, !.room = 30] >>),
   fids |->
     (<< Part(616648, 300) >> :>
        << [Fid("", TRUE, Icb(0, 1)) EXCEPT !.parent = TRUE],
           [Fid("gone", FALSE, Icb(0, 2)) EXCEPT !.deleted = TRUE],
           Fid("a", FALSE, Icb(0, 2)), Fid("Sub", TRUE, Icb(0, 3)) >>)
     @@ (<< Part(1056768, 400) >> :> << Fid("b", FALSE, Icb(1, 4)) >>)]

Udf ==
  AlsoAs(Sample("udf", {<<"Sub">>},
                (<<"a">> :> File(4596, << Part(634880, 2048), Part(Zeros, 2048), Part(643072, 500) >>))
                @@ (<<"Sub", "b">> :> File(30, << Part(1032392, 30) >>)), UdfVolume),
         <<"Sub", "b">>, <<"SUB", "B">>, 29)

-----------------------------------------------------------------------------
(* ISO 9660: two trees, the Joliet one is shown.                           *)
IsoRecord(name, dir, extent, length) ==
  [name |-> name, dir |-> dir, extent |-> extent, length |-> length, fits |-> TRUE, special |-> FALSE]
IsoDescriptor(type, joliet, extent, length) ==
  [signed |-> TRUE, type |-> type, joliet |-> joliet, extent |-> extent, length |-> length]

IsoVolume ==
  [descriptors |-> << IsoDescriptor(1, FALSE, 18, 2048), IsoDescriptor(2, TRUE, 20, 4096),
                      IsoDescriptor(255, FALSE, 0, 0), IsoDescriptor(2, TRUE, 18, 2048) >>,
   dirs |-> (<<18, 2048>> :> << IsoRecord("A", FALSE, 30, 3000) >>)
            @@ (<<20, 4096>> :> << [IsoRecord(".", TRUE, 20, 4096) EXCEPT !.special = TRUE],
                                   IsoRecord("a", FALSE, 30, 3000), IsoRecord("Sub", TRUE, 22, 2048) >>)
            @@ (<<22, 2048>> :> << IsoRecord("a", FALSE, 40, 10), IsoRecord("A", FALSE, 41, 7),
                                   [IsoRecord("b", FALSE, 42, 7) EXCEPT !.fits = FALSE] >>)]

Iso ==
  Sample("iso", {<<"Sub">>},
         (<<"a">> :> File(3000, << Part(61440, 3000) >>))
         @@ (<<"Sub", "a">> :> File(10, << Part(81920, 10) >>))
         @@ (<<"Sub", "A">> :> File(7, << Part(83968, 7) >>)), IsoVolume)

-----------------------------------------------------------------------------
(* HFS+: a catalog in two extents, its leaves out of order.                *)
Fork(size, extents) == [size |-> size, extents |-> extents]
Blocks(start, count) == [start |-> start, count |-> count]
Cat(parent, name, kind, id, fork) ==
  [parent |-> parent, name |-> name, kind |-> kind, id |-> id, fork |-> fork, fits |-> TRUE]
HfsNodeOf(kind, forward, records) == << [kind |-> kind, forward |-> forward, records |-> records] >>

HfsVolume ==
  [capacity |-> 51200, signed |-> TRUE, block |-> 512, total |-> 100, headerOk |-> TRUE, node |-> 512,
   firstLeaf |-> 1, depth |-> 2, catalog |-> Fork(2560, << Blocks(10, 2), Blocks(20, 3) >>),
   nodes |->
     (5632 :> HfsNodeOf(-1, 3, << Cat(2, "a", "file", 17, Fork(1300, << Blocks(30, 1), Blocks(33, 2), Blocks(0, 0) >>)),
                                  Cat(2, "", "thread", 1, Fork(0, <<>>)) >>))
     @@ (10752 :> HfsNodeOf(0, 2, << Cat(2, "index", "file", 19, Fork(0, <<>>)) >>))
     @@ (10240 :> HfsNodeOf(-1, 0, << Cat(2, "Sub", "folder", 16, Fork(0, <<>>)),
                                      Cat(16, "a", "file", 18, Fork(5, << Blocks(40, 1) >>)) >>))]

HfsPlus ==
  Sample("hfsplus", {<<"Sub">>},
         (<<"a">> :> File(1300, << Part(15360, 512), Part(16896, 1024) >>))
         @@ (<<"Sub", "a">> :> File(5, << Part(20480, 512) >>)), HfsVolume)

-----------------------------------------------------------------------------
(* Partitioned disks of a thousand sectors.                                *)
PEntry(type, start, count) == [type |-> type, boot |-> 0, start |-> start, count |-> count]
NoGpt == [signed |-> FALSE]
NoApm == [signed |-> FALSE, entries |-> <<>>]

Disk(tables, sector0, boots) ==
  [capacity |-> 512000, tables |-> tables, sector0 |-> sector0, boots |-> boots, jfs |-> <<>>,
   trees |-> <<>>, gpt |-> NoGpt, apm |-> NoApm]

(* What the reader should show of a disk: its partitions, by number.       *)
Numbered(parts) ==
  [p \in {<<ToString(i)>> : i \in DOMAIN parts} |->
     LET ps == parts[CHOOSE i \in DOMAIN parts : <<ToString(i)>> = p]
     IN  File(FoldLeft(LAMBDA n, x : n + x.len, 0, ps), ps)]

(* An MBR with a chain of three extended tables.                           *)
MbrTable == << PEntry(6, 10, 50), PEntry(5, 100, 500), PEntry(130, 70, 20), PEntry(77, 700, 10) >>
Mbr ==
  Sample("table", {}, Numbered(<< <<Part(5120, 25600)>>, <<Part(51712, 20480)>>, <<Part(154112, 25600)>>,
                                  <<Part(230912, 10240)>>, <<Part(35840, 10240)>> >>),
         Disk((0 :> MbrTable)
              @@ (100 :> << PEntry(131, 1, 40), PEntry(5, 200, 100) >>)
              @@ (300 :> << PEntry(131, 1, 50), PEntry(5, 350, 60) >>)
              @@ (450 :> << PEntry(131, 1, 20), PEntry(0, 0, 0) >>),
              MbrTable, 5120 :> [kind |-> "fat", bytes |-> 25600]))

GptTable == << PEntry(238, 1, 999) >>
Gpt ==
  Sample("table", {}, Numbered(<< <<Part(20480, 30720)>>, <<Part(51200, 51200)>> >>),
         [Disk(0 :> GptTable, GptTable, <<>>) EXCEPT !.gpt =
            [signed |-> TRUE, headerSize |-> 92, current |-> 1, first |-> 34, last |-> 966,
             entrySize |-> 128, table |-> 2,
             entries |-> << [type |-> "linux", first |-> 40, last |-> 99],
                            [type |-> "", first |-> 0, last |-> 0],
                            [type |-> "efi", first |-> 100, last |-> 199],
                            [type |-> "linux", first |-> 30, last |-> 50] >>]])

Apm ==
  Sample("table", {}, Numbered(<< <<Part(512, 32256)>>, <<Part(51200, 102400)>> >>),
         [Disk(<<>>, <<>>, <<>>) EXCEPT !.apm =
            [signed |-> TRUE,
             entries |-> << [signed |-> TRUE, type |-> "map", start |-> 1, count |-> 63],
                            [signed |-> TRUE, type |-> "Apple_HFS", start |-> 100, count |-> 200],
                            [signed |-> TRUE, type |-> "Apple_HFS", start |-> 900, count |-> 200] >>]])

(* A JFS volume with nothing that says where it is, early on the disk and  *)
(* where a volume usually starts.                                          *)
LostJfs(sector) ==
  LET start == sector * 512
  IN  Sample("table", {}, Numbered(<< <<Part(start, 204800)>> >>),
             [Disk(<<>>, <<>>, <<>>) EXCEPT
                !.jfs = (start + 32768 :> 204800) @@ (start + 61440 :> 204800)])

(* An OS/2 volume of two segments, the first with a trailer.               *)
LinkTable == << PEntry(53, 100, 200), PEntry(53, 400, 300), PEntry(131, 800, 10) >>
DriveLink ==
  Sample("table", {}, Numbered(<< <<Part(51200, 98304), Part(204800, 153600)>>, <<Part(409600, 5120)>> >>),
         [Disk(0 :> LinkTable, LinkTable, <<>>) EXCEPT
            !.jfs = (51200 + 32768 :> 251904),
            !.trees = (<<Part(51200, 102400)>> :> [score |-> 10, declared |-> 251904])
                      @@ (<<Part(51200, 98304), Part(204800, 153600)>> :> [score |-> 40, declared |-> 251904])])

(* One of three, the last two not in the order of the disk, which makes    *)
(* too little of it.                                                       *)
LinkThree == << PEntry(53, 100, 200), PEntry(53, 400, 100), PEntry(53, 700, 100) >>
DriveLinkThree ==
  LET start == Part(51200, 102400)
      joined == << start, Part(358400, 50688), Part(204800, 51200) >>
      crossed == << start, Part(204800, 50688), Part(358400, 51200) >>
      scored(n) == [score |-> n, declared |-> 204288]
  IN  Sample("table", {}, Numbered(<< joined >>),
             [Disk(0 :> LinkThree, LinkThree, <<>>) EXCEPT
                !.jfs = (51200 + 32768 :> 204288),
                !.trees = (<< start >> :> scored(10)) @@ (joined :> scored(40)) @@ (crossed :> scored(18))])

(* A filesystem on the whole disk, its boot code like a partition table.   *)
Floppy ==
  LET noise == << PEntry(6, 10, 50), PEntry(131, 1, 9) >>
  IN  Sample("table", {}, (<<"Whole disk">> :> File(512000, <<Part(0, 512000)>>)),
             Disk(0 :> noise, noise, 0 :> [kind |-> "fat", bytes |-> 512000]))

-----------------------------------------------------------------------------
(* Windows dynamic disks: a concatenated and a striped volume, and one     *)
(* with two components, each of which holds all of it.                     *)
LdmVol(id, name, size) == [type |-> "volume", id |-> id, name |-> name, size |-> size]
LdmComp(id, volume, merge, stripe) ==
  [type |-> "component", id |-> id, volume |-> volume, merge |-> merge, stripe |-> stripe]
LdmExt(component, at, size, offset, order) ==
  [type |-> "extent", component |-> component, at |-> at, size |-> size, offset |-> offset, order |-> order]

LdmDisk(records) ==
  [capacity |-> 512000, header |-> [signed |-> TRUE, dataStart |-> 63, configStart |-> 900, tocSize |-> 2],
   tocs |-> (461824 :> [config |-> 10]), databases |-> (465920 :> records)]

LdmTwo ==
  << LdmVol(2, "Stripe", 0), LdmVol(1, "old", 9), LdmVol(1, "Vol", 30), LdmComp(10, 1, "concat", 0),
     LdmComp(11, 2, "stripe", 4), LdmExt(10, 300, 20, 10, 0), LdmExt(10, 100, 10, 0, 0),
     LdmExt(11, 500, 8, 8, 1), LdmExt(11, 400, 8, 0, 0) >>
Ldm ==
  Sample("ldm", {},
         (<<"Vol">> :> File(15360, << Part(83456, 5120), Part(185856, 10240) >>))
         @@ (<<"Stripe">> :> File(8192, << Part(237056, 2048), Part(288256, 2048), Part(239104, 2048),
                                           Part(290304, 2048) >>)),
         LdmDisk(LdmTwo))

(* LVM: segments out of order, at an offset of the data area.              *)
LvmSegment(start, count, at) ==
  [striped |-> TRUE, stripes |-> 1, start |-> start, count |-> count, at |-> at]
LvmVolume(volumes) ==
  [capacity |-> 1000000,
   labels |-> << [signed |-> FALSE],
                 [signed |-> TRUE, sound |-> TRUE, metadataOk |-> TRUE,
                  data |-> << [at |-> 500000, len |-> 409600] >>,
                  texts |-> << [ignored |-> TRUE], [ignored |-> FALSE, sound |-> TRUE, extent |-> 8,
                                                    volumes |-> volumes] >>] >>]
Lvm ==
  Sample("lvm", {}, <<"root">> :> File(12288, << Part(512288, 8192), Part(528672, 4096) >>),
         LvmVolume(<< [name |-> "root", segments |-> << LvmSegment(2, 1, 7), LvmSegment(0, 2, 3) >>] >>))

RaidOf(at, super) == [capacity |-> 2000000, supers |-> (at :> super)]
Raid ==
  Sample("raid", {}, <<"md">> :> File(51200, << Part(1048576, 51200) >>),
         RaidOf(4096, [major |-> 1, minor |-> 2, start |-> 2048, size |-> 100, level |-> 1, name |-> "md"]))
OldRaid ==
  Sample("raid", {}, <<"md">> :> File(51200, << Part(0, 51200) >>),
         RaidOf(((2000000 - 65536) \div 512) * 512,
                [major |-> 0, minor |-> 9, start |-> 7, size |-> 100, level |-> 1, name |-> "md"]))

-----------------------------------------------------------------------------
(* SquashFS: an inode and a directory record that cross metadata blocks, a *)
(* file of a packed block, a raw one and the middle of a fragment.         *)
SquashDir(type, size, start, offset) ==
  << [type |-> type, size |-> size, start |-> start, offset |-> offset] >>
SquashFile(size, start, blocks, key, offset) ==
  << [type |-> 2, size |-> size, start |-> start, blocks |-> blocks, fragment |-> key,
      fragmentOffset |-> offset] >>
SquashName(name, len, offset) == << [name |-> name, len |-> len, offset |-> offset] >>

SquashVolume ==
  [signed |-> TRUE, major |-> 4, compression |-> 1, noXattrs |-> TRUE, block |-> 128,
   root |-> [block |-> 0, offset |-> 50], inodeTable |-> 10000, dirTable |-> 20000,
   meta |-> (10000 :> [next |-> 10100, len |-> 60]) @@ (10100 :> [next |-> 10200, len |-> 8192])
            @@ (20000 :> [next |-> 20100, len |-> 56]) @@ (20100 :> [next |-> 20200, len |-> 8192]),
   inodes |-> (<<10000, 50>> :> SquashDir(1, 35, 0, 0)) @@ (<<10100, 40>> :> SquashDir(8, 24, 0, 40))
              @@ (<<10100, 0>> :> SquashFile(300, 500, << [len |-> 50, raw |-> FALSE],
                                                           [len |-> 128, raw |-> TRUE] >>, 0, 20))
              @@ (<<10100, 100>> :> SquashFile(10, 0, <<>>, 0, 0)),
   headers |-> (<<20000, 0>> :> << [count |-> 1, start |-> 100] >>)
               @@ (<<20000, 40>> :> << [count |-> 0, start |-> 100] >>),
   records |-> (<<20000, 12>> :> SquashName("a", 1, 0)) @@ (<<20000, 21>> :> SquashName("Sub", 3, 40))
               @@ (<<20000, 52>> :> SquashName("b", 1, 100)),
   fragments |-> (0 :> [at |-> 900, len |-> 80, raw |-> FALSE]), fragmentCount |-> 1,
   units |-> (<<500, 50>> :> [base |-> Inflated, len |-> 128])
             @@ (<<900, 80>> :> [base |-> Inflated + 1000, len |-> 200])]

Squash ==
  Sample("squash", {<<"Sub">>},
         (<<"a">> :> File(300, << Part(Inflated, 128), Part(550, 128), Part(Inflated + 1020, 44) >>))
         @@ (<<"Sub", "b">> :> File(10, << Part(Inflated + 1000, 10) >>)), SquashVolume)

(* WIM: chunks packed and raw, a resource stored whole.                    *)
WimEntry(name, dir, sub, hash) == [name |-> name, dir |-> dir, sub |-> sub, hash |-> hash]
WimVolume ==
  [signed |-> TRUE, chunk |-> 128,
   lookup |-> << [meta |-> FALSE, hash |-> "h1", at |-> 5000, size |-> 300, compressed |-> TRUE],
                 [meta |-> TRUE, hash |-> "m", at |-> 0, size |-> 0, compressed |-> TRUE],
                 [meta |-> FALSE, hash |-> "h2", at |-> 7000, size |-> 20, compressed |-> FALSE] >>,
   images |-> ("m" :> [rootSub |-> 100, rootAt |-> 16, dirs |->
                        (16 :> << WimEntry("", TRUE, 100, "") >>)
                        @@ (100 :> << WimEntry("a", FALSE, 0, "h1"), WimEntry("Sub", TRUE, 200, "") >>)
                        @@ (200 :> << WimEntry("b", FALSE, 0, "h2") >>)]),
   chunks |-> (5000 :> <<50, 128, 44>>), units |-> (<<5008, 50>> :> [base |-> Inflated, len |-> 128])]
Wim ==
  AlsoAs(Sample("wim", {<<"Sub">>},
                (<<"a">> :> File(300, << Part(Inflated, 128), Part(5058, 172) >>))
                @@ (<<"Sub", "b">> :> File(20, << Part(7000, 20) >>)), WimVolume),
         <<"Sub", "b">>, <<"SUB", "B">>, 19)

(* A hive: keys under a list of lists, values inline and in segments.      *)
Key(name, subkeys, count, values, n) ==
  [kind |-> "nk", name |-> name, subkeys |-> subkeys, subkeyCount |-> count, values |-> values,
   valueCount |-> n]
Value(name, self, len, inline, data) ==
  [kind |-> "vk", name |-> name, self |-> self, len |-> len, inline |-> inline, data |-> data]
Items(kind, items) == [kind |-> kind, items |-> items, len |-> 4 * Len(items)]

HiveVolume ==
  [capacity |-> 70000, signed |-> TRUE, root |-> 32, length |-> 60000,
   cells |-> (32 :> Key("ROOT", 100, 2, 600, 2)) @@ (100 :> Items("ri", <<200, 300>>))
             @@ (200 :> Items("lf", <<400>>)) @@ (300 :> Items("lh", <<500>>))
             @@ (400 :> Key("Sub", -1, 0, 620, 1)) @@ (500 :> Key("vol", -1, 0, -1, 0))
             @@ (600 :> Items("data", <<700, 800>>)) @@ (620 :> Items("data", <<850>>))
             @@ (700 :> Value("a", 700, 4, TRUE, 0)) @@ (800 :> Value("b", 800, 5000, FALSE, 900))
             @@ (850 :> Value("a", 850, 6, FALSE, 30000))
             @@ (900 :> [kind |-> "db", list |-> 1000, segments |-> 2])
             @@ (1000 :> Items("data", <<1100, 20000>>))
             @@ (1100 :> [kind |-> "data", items |-> <<>>, len |-> 4400])
             @@ (20000 :> [kind |-> "data", items |-> <<>>, len |-> 604])
             @@ (30000 :> [kind |-> "data", items |-> <<>>, len |-> 12])]
Hive ==
  AlsoAs(Sample("hive", {<<"Sub">>, <<"vol">>},
                (<<"@a">> :> File(4, << Part(4808, 4) >>))
                @@ (<<"@b">> :> File(5000, << Part(5200, 4400), Part(24100, 600) >>))
                @@ (<<"Sub", "@a">> :> File(6, << Part(34100, 6) >>)), HiveVolume),
         <<"Sub", "@a">>, <<"SUB", "@a">>, 5)
=============================================================================
