------------------------------- MODULE MCVolumes -------------------------------
(***************************************************************************)
(* The volumes TLC browses: one that is sound for every kind and layout,   *)
(* and families of damaged ones, whose tables say anything.                *)
(***************************************************************************)
EXTENDS Volumes, SampleDisks

MCLowerCase == ("A" :> "a") @@ ("B" :> "b") @@ ("C" :> "c") @@ ("BC" :> "bc") @@ ("Sub" :> "sub")
               @@ ("SUB" :> "sub")
MCNameRank == ("@a" :> 1) @@ ("@b" :> 2) @@ ("A" :> 3) @@ ("Sub" :> 4) @@ ("a" :> 5) @@ ("b" :> 6)
              @@ ("long name" :> 7) @@ ("sub" :> 8) @@ ("vol" :> 9)

SoundVolumes ==
  << Fat12, Fat32, ExFat, Hpfs, Jfs, JfsOs2, Btrfs, Xfs, Ntfs, Ext, Udf, Iso, HfsPlus, Mbr, Gpt, Apm,
     LostJfs(8), DriveLink, DriveLinkThree,
     Floppy, Ldm, Lvm, Raid, OldRaid, Squash, Wim, Hive >>

-----------------------------------------------------------------------------
(* Every table of three clusters: free, in a loop, off the volume, bad, the*)
(* end.                                                                    *)
FatDamage ==
  [f \in [2..4 -> {0, 2, 3, 4, 9, 4087, 4095}] |->
     Damaged("fat", {ReadAt(<<"a">>, 600), Listed(<<"Sub">>)},
             [FatBoot EXCEPT !.total = 7] @@
             [fat |-> (0 :> f),
              rootArea |-> << Short("a", 1, FALSE, 2, 3000), Short("Sub", 2, TRUE, 3, 0) >>,
              slots |-> [c \in 2..4 |-> << Short(ToString(c), 3, FALSE, c, 5) >>]])]

FatRefused == << Damaged("fat", {}, [Fat12Volume EXCEPT !.fats = 3]) >>

ExFatDamage ==
  [f \in [4..6 -> {0, 4, 5, 6, ExFatMark}] |->
     Damaged("exfat", {Listed(<<>>)}, [ExFatVolume EXCEPT !.clusters = 3, !.fat = f])]

(* Every dnode has a branch to any other; an anode that leads back.        *)
HpfsDamage ==
  [p \in [1..3 -> {0, 24, 28, 32}] |->
     Damaged("hpfs", {Listed(<<>>)},
             [HpfsVolume EXCEPT !.dnodes[24].records[1].down = p[1], !.dnodes[28].records[1].down = p[2],
                                !.dnodes[80].records[2].down = p[3]])]

HpfsAnodes ==
  [a \in {0, 55, 70} |->
     Damaged("hpfs", {ReadAt(<<"a">>, 0)},
             [HpfsVolume EXCEPT !.anodes[70].tree = [internal |-> TRUE, items |-> <<70, a>>]])]

(* Leaves whose siblings and routers whose pages lead anywhere.            *)
JfsDamage ==
  [p \in [1..2 -> {0, 400, 401}] |->
     Damaged("jfs", {Listed(<<>>)},
             [JfsVolume EXCEPT !.dpages[400].next = p[1], !.dpages[401].next = p[2]])]

JfsRouters ==
  [a \in {400, 401, 0} |->
     Damaged("jfs", {Listed(<<>>)},
             [JfsVolume EXCEPT !.dpages[400] =
                Dnodes({"internal"}, <<1, 2>>, (1 :> [block |-> a, count |-> 1])
                                               @@ (2 :> [block |-> 401, count |-> 1]), 0)])]

XfsDamage ==
  [p \in {8, 9, 21} \X {8, 9, 21} \X {1, 2} |->
     Damaged("xfs", {ReadAt(<<"Sub", "a">>, 600)},
             [XfsVolume EXCEPT !.bmaps[4096].pointers = <<p[1]>>,
                               !.bmaps[7680] = [level |-> p[3], pointers |-> <<p[2], 9>>, extents |-> <<>>]])]

BtrfsDamage ==
  [p \in {1000000, 1004096, 7777777} \X {1000000, 1004096, 2000000} |->
     Damaged("btrfs", {}, [BtrfsVolume EXCEPT !.nodes[1000000].pointers = << To(1, p[1]), To(2, p[2]) >>])]
BtrfsRefused ==
  [array |-> Damaged("btrfs", {}, [BtrfsVolume EXCEPT !.supers[2].bootstrap = << BtrfsItem(1, "other") >> \o @]),
   default |-> Damaged("btrfs", {}, [BtrfsVolume EXCEPT !.nodes[3004096].items = << @[1], @[3] >>]),
   packing |-> Damaged("btrfs", {ReadAt(<<"a">>, 100)}, [BtrfsVolume EXCEPT !.nodes[3016384].items[1].packing = "zstd"])]

IsoDamage ==
  [e \in {20, 22} |->
     Damaged("iso", {}, [IsoVolume EXCEPT !.dirs[<<22, 2048>>][2] = IsoRecord("loop", TRUE, e, 4096)])]

HfsDamage ==
  [p \in [1..3 -> {1, 2, 3, 9}] |->
     Damaged("hfsplus", {}, [HfsVolume EXCEPT !.nodes[5632][1].forward = p[1],
                                              !.nodes[10752][1].forward = p[2],
                                              !.nodes[10240][1].forward = p[3]])]

(* Extended tables that lead to each other, partitions that leave the disk.*)
MbrDamage ==
  [p \in {200, 350, 899, 900} \X {200, 350} \X {131, 53, 6} \X {1, 699, 999} \X {40, 900} |->
     LET part == PEntry(p[3], p[4], p[5])
     IN  Damaged("table", {Listed(<<>>)},
           Disk((0 :> << PEntry(5, 100, 500), part >>)
                @@ (100 :> << PEntry(131, 1, 40), PEntry(5, 200, 100) >>)
                @@ (300 :> << part, PEntry(5, p[1], 100) >>)
                @@ (450 :> << PEntry(5, p[2], 100), PEntry(131, 1, 20) >>),
                << PEntry(5, 100, 500), part >>, <<>>))]

GptDamage ==
  [p \in {34, 99, 950} \X {98, 967, 1000, 1500} \X {90, 999, 1000} |->
     Damaged("table", {Listed(<<>>)},
             [Gpt.volume EXCEPT !.gpt.entries[1].first = p[1], !.gpt.entries[1].last = p[2],
                                !.gpt.last = p[3]])]

ApmDamage ==
  [p \in {0, 800, 999, 1000} \X {1, 200, 201} |->
     Damaged("table", {}, [Apm.volume EXCEPT !.apm.entries[2].start = p[1], !.apm.entries[2].count = p[2]])]

JfsLostDamage ==
  [p \in {10, 300, 2000} \X {32768, 61440} \X {600, 204800, 600000} |->
     Damaged("table", {}, [Disk(<<>>, << PEntry(7, 100, p[1]) >>, <<>>) EXCEPT
                             !.jfs = (51200 + p[2] :> p[3])])]

LvmDamage ==
  [p \in {0, 7, 99, 100, 140} \X {1, 2, 101} \X {409600, 600000} |->
     Damaged("lvm", {Listed(<<>>), ReadAt(<<"root">>, 3)},
             [LvmVolume(<< [name |-> "root", segments |-> << LvmSegment(0, p[2], p[1]) >>] >>) EXCEPT
                !.labels[2].data[1].len = p[3]])]

(* Extents that leave the disk, and a stripe whose extents are not of one  *)
(* length: the gap it leaves cannot be read.                               *)
LdmDamage ==
  [p \in {300, 917, 918, 937} \X {-63, -64, 0, 929, 930, 936, 937} \X {1, 8, 9} |->
     Damaged("ldm", {Listed(<<>>), ReadAt(<<"Stripe">>, 3000)},
             LdmDisk([LdmTwo EXCEPT ![6].at = p[1], ![8].at = p[2], ![8].size = p[3]]))]

RaidDamage ==
  [p \in {0, 4096, ((2000000 - 65536) \div 512) * 512} \X {2, 9} \X {0, 2048, 3900, 5000}
          \X {0, 100, 3906, 3907} |->
     Damaged("raid", {},
             RaidOf(p[1], [major |-> IF p[2] = 9 THEN 0 ELSE 1, minor |-> p[2], start |-> p[3],
                           size |-> p[4], level |-> 1, name |-> "md"]))]

HiveDamage ==
  [i \in {<<100>>, <<200, 100>>, <<100, 300>>, <<200, 32>>, <<>>} |->
     Damaged("hive", {Listed(<<>>)}, [HiveVolume EXCEPT !.cells[100].items = i])]

(* A family under a name: its volumes by the parameters they have in it.   *)
Family(name, volumes) == [k \in {<<name, p>> : p \in DOMAIN volumes} |-> volumes[k[2]]]

MCVolumes ==
  Family("sound", SoundVolumes) @@ Family("fat", FatDamage) @@ Family("fat refused", FatRefused)
  @@ Family("exfat", ExFatDamage) @@ Family("hpfs", HpfsDamage) @@ Family("hpfs anodes", HpfsAnodes)
  @@ Family("jfs", JfsDamage) @@ Family("jfs routers", JfsRouters) @@ Family("xfs", XfsDamage)
  @@ Family("btrfs", BtrfsDamage) @@ Family("btrfs refused", BtrfsRefused) @@ Family("iso", IsoDamage) @@ Family("hfs", HfsDamage)
  @@ Family("mbr", MbrDamage) @@ Family("gpt", GptDamage) @@ Family("apm", ApmDamage)
  @@ Family("jfs lost", JfsLostDamage) @@ Family("lvm", LvmDamage) @@ Family("ldm", LdmDamage)
  @@ Family("raid", RaidDamage) @@ Family("hive", HiveDamage)

MCDisks == DOMAIN MCVolumes
MCVolumeOf(d) == MCVolumes[d]

(* A JFS volume where partitions usually start, with no table.             *)
MCLost(sector) == LostJfs(sector)
=============================================================================
