----------------------------- MODULE SampleVolumes -----------------------------
(***************************************************************************)
(* Small volumes for TLC, filesystems that were written whole.  Each comes *)
(* with what was put on it; that is spelled out by hand, from addresses,   *)
(* and not computed with the readers' operators.                           *)
(***************************************************************************)
EXTENDS Filesystems, TLC

File(size, parts) == [size |-> size, parts |-> parts]

(* Questions worth asking of a content: list every path, and read every    *)
(* file at its ends and at the ends of its parts.                          *)
Edges(f) == LET starts == StartsOf(f.parts)
            IN  {0, f.size - 1, f.size} \cup {starts[i] : i \in DOMAIN starts}
                \cup {starts[i] - 1 : i \in DOMAIN starts}

AsksOf(dirs, files) ==
  {[op |-> "list", path |-> p, pos |-> 0] :
     p \in dirs \cup DOMAIN files \cup {<<"zz">>, <<"Sub", "zz">>}}
  \cup UNION {{[op |-> "read", path |-> p, pos |-> k] : k \in Edges(files[p])} : p \in DOMAIN files}
  \cup {[op |-> "read", path |-> p, pos |-> 0] : p \in dirs \cup {<<"zz">>}}

Sample(kind, dirs, files, volume) ==
  [kind |-> kind, sound |-> TRUE, volume |-> volume,
   guest |-> [dirs |-> {<<>>} \cup dirs, files |-> files, also |-> <<>>],
   asks |-> AsksOf({<<>>} \cup dirs, files)]

Damaged(kind, asks, volume) ==
  [kind |-> kind, sound |-> FALSE, volume |-> volume, asks |-> asks,
   guest |-> [dirs |-> {}, files |-> <<>>, also |-> <<>>]]

Listed(path) == [op |-> "list", path |-> path, pos |-> 0]
ReadAt(path, pos) == [op |-> "read", path |-> path, pos |-> pos]

(* The readers whose names have no case are asked for a name as it is not  *)
(* spelled: the file is there under both paths, one of them listed.        *)
AlsoAs(sample, path, other, pos) ==
  [sample EXCEPT !.asks = @ \cup {ReadAt(other, pos)},
                 !.guest.also = other :> path]

-----------------------------------------------------------------------------
(* FAT12: a chain out of order, a long name in two pieces, one that does   *)
(* not belong to its entry, a directory of two clusters.                   *)
Lfn(seq, last, sum, piece) ==
  [kind |-> "lfn", seq |-> seq, last |-> last, sum |-> sum, odd |-> FALSE, piece |-> piece]
Short(name, sum, dir, first, size) ==
  [kind |-> "short", name |-> name, sum |-> sum, dir |-> dir, first |-> first, size |-> size]
Slot(kind) == [kind |-> kind]

Fat12Root ==
  << Slot("label"), Lfn(2, TRUE, 7, "name"), Lfn(1, FALSE, 7, "long "),
     Short("LONGNA~1", 7, FALSE, 8, 5), Lfn(1, TRUE, 9, "ghost"), Slot("deleted"),
     Short("a", 3, FALSE, 3, 1200), Lfn(1, TRUE, 9, "ghost"), Short("c", 4, FALSE, 0, 0),
     Short("Sub", 5, TRUE, 2, 0), Slot("end"), Short("stale", 6, FALSE, 9, 5) >>

FatBoot == [capacity |-> 12288, sector |-> 512, perCluster |-> 1, reserved |-> 1, fats |-> 2,
            fatSectors |-> 1, rootEntries |-> 16, total |-> 24, active |-> 0, rootCluster |-> 0]

Fat12Volume ==
  FatBoot @@
  [fat |-> (0 :> ((2 :> 6) @@ (6 :> 4095) @@ (3 :> 5) @@ (5 :> 4) @@ (4 :> 4088) @@ (7 :> 4095)
                  @@ (8 :> 4095))),
   rootArea |-> Fat12Root,
   slots |-> (2 :> << Short(".", 0, TRUE, 2, 0), Short("..", 0, TRUE, 0, 0), Lfn(2, TRUE, 8, "c") >>)
             @@ (6 :> << Lfn(1, FALSE, 8, "b"), Short("BC", 8, FALSE, 7, 10), Slot("end") >>)]

Fat12 ==
  AlsoAs(Sample("fat", {<<"Sub">>},
                (<<"a">> :> File(1200, << Part(2560, 512), Part(3584, 512), Part(3072, 512) >>))
                @@ (<<"c">> :> File(0, <<>>))
                @@ (<<"long name">> :> File(5, << Part(5120, 512) >>))
                @@ (<<"Sub", "bc">> :> File(10, << Part(4608, 512) >>)),
                Fat12Volume),
         <<"Sub", "bc">>, <<"SUB", "BC">>, 9)

(* FAT32: the second table is the active one, entries have high bits.      *)
High == 3 * 2^28
Fat32 ==
  Sample("fat", {},
         (<<"a">> :> File(600, << Part(631808, 512), Part(632320, 512) >>))
         @@ (<<"b">> :> File(1, << Part(632832, 512) >>)),
         [FatBoot EXCEPT !.reserved = 32, !.fatSectors = 600, !.rootEntries = 0, !.total = 71232,
                         !.capacity = 71232 * 512, !.active = 1, !.rootCluster = 2] @@
         [fat |-> (0 :> (2 :> 3)) @@
                  (1 :> ((2 :> High + 9) @@ (9 :> High + 2^28 - 1) @@ (4 :> High + 5)
                         @@ (5 :> 2^28 - 8) @@ (6 :> 2^28 - 1))),
          rootArea |-> <<>>,
          slots |-> (2 :> << Short("a", 1, FALSE, 4, 600) >>)
                    @@ (9 :> << Short("b", 2, FALSE, 6, 1), Slot("end") >>)])

(* exFAT: an entry set over two clusters, files with and without a chain.  *)
Stream(first, contiguous, length) ==
  [kind |-> "stream", first |-> first, contiguous |-> contiguous, length |-> length, valid |-> length]
Piece(text) == [kind |-> "name", piece |-> text]
FileSlot(dir, secondary) == [kind |-> "file", dir |-> dir, secondary |-> secondary]

ExFatVolume ==
  [signed |-> TRUE, sectorShift |-> 9, clusterShift |-> 1, rootCluster |-> 4, heap |-> 8,
   clusters |-> 6, fat |-> (4 :> 6) @@ (6 :> 2147483647) @@ (12 :> 14) @@ (14 :> 2147483647),
   slots |-> (4 :> << Slot("bitmap"), FileSlot(FALSE, 2), Stream(8, TRUE, 2500), Piece("a"),
                      FileSlot(FALSE, 3) >>)
             @@ (6 :> << Stream(12, FALSE, 2000), Piece("long "), Piece("name"),
                         FileSlot(TRUE, 2), Stream(16, TRUE, 1024), Piece("Sub"), Slot("end") >>)
             @@ (16 :> << FileSlot(FALSE, 2), Stream(17, TRUE, 3), Piece("b") >>)]

ExFat ==
  AlsoAs(Sample("exfat", {<<"Sub">>},
                (<<"a">> :> File(2500, << Part(10240, 3072) >>))
                @@ (<<"long name">> :> File(2000, << Part(14336, 1024), Part(16384, 1024) >>))
                @@ (<<"Sub", "b">> :> File(3, << Part(19456, 1024) >>)),
                ExFatVolume),
         <<"Sub", "b">>, <<"SUB", "B">>, 2)

-----------------------------------------------------------------------------
(* HPFS: a bad sector replaced, a hole, an anode, entries between branches.*)
Leaf(items) == [internal |-> FALSE, items |-> items]
Extent(logical, count, physical) == [logical |-> logical, count |-> count, physical |-> physical]
Fnode(size, directory, direct, tree) ==
  [size |-> size, directory |-> directory, direct |-> direct, tree |-> tree]
Record(name, fnode, dir, size, down) ==
  [name |-> name, fnode |-> fnode, dir |-> dir, size |-> size, down |-> down, bound |-> FALSE,
   fits |-> TRUE]
Bound(down) == [Record("", 0, FALSE, 0, down) EXCEPT !.bound = TRUE]
Dnode(records) == [free |-> 100, records |-> records]

HpfsVolume ==
  [available |-> 100, superOk |-> TRUE, rootFnode |-> 20, sectors |-> 100, spareOk |-> TRUE,
   hotfix |-> [sector |-> 30, total |-> 4, used |-> 2, from |-> <<51, 32>>, to |-> <<90, 80>>],
   fnodes |-> (20 :> Fnode(0, TRUE, 24, Leaf(<<>>)))
              @@ (40 :> Fnode(2460, FALSE, 0, Leaf(<< Extent(4, 1, 60), Extent(0, 2, 50) >>)))
              @@ (41 :> Fnode(300, FALSE, 0, [internal |-> TRUE, items |-> <<70>>]))
              @@ (42 :> Fnode(0, TRUE, 36, Leaf(<<>>)))
              @@ (43 :> Fnode(7, FALSE, 0, Leaf(<< Extent(0, 1, 62) >>))),
   anodes |-> (70 :> [self |-> 70, tree |-> Leaf(<< Extent(0, 1, 55) >>)]),
   dnodes |-> (24 :> Dnode(<< Record("b", 40, FALSE, 2460, 28), Bound(32) >>))
              @@ (28 :> Dnode(<< Record("a", 41, FALSE, 0, 0), Bound(0) >>))
              @@ (80 :> Dnode(<< Record("Sub", 42, FALSE, 0, 0), Bound(0) >>))
              @@ (36 :> Dnode(<< Record("c", 43, FALSE, 7, 0), Bound(0) >>))]

Hpfs ==
  AlsoAs(Sample("hpfs", {<<"Sub">>},
                (<<"a">> :> File(300, << Part(28160, 512) >>))
                @@ (<<"b">> :> File(2460, << Part(25600, 512), Part(46080, 512), Part(Zeros, 1024),
                                             Part(30720, 512) >>))
                @@ (<<"Sub", "c">> :> File(7, << Part(31744, 512) >>)),
                HpfsVolume),
         <<"Sub", "c">>, <<"SUB", "C">>, 6)

-----------------------------------------------------------------------------
(* JFS: the first copy of the inode table is stale, a page of the inode    *)
(* map lies in two extents, a leaf that only its sibling names, a name in  *)
(* two slots, a hole, a block not yet written, a tree of extents, a link.  *)
Xad(logical, count, physical, recorded) ==
  [logical |-> logical, count |-> count, physical |-> physical, recorded |-> recorded]
Xnode(flags, items) == [fits |-> TRUE, flags |-> flags, items |-> items]
NoTree == Xnode({"root", "leaf"}, <<>>)
Dslot(inode, units, piece, next) ==
  [inode |-> inode, units |-> units, piece |-> piece, next |-> next]
Dnodes(flags, order, slots, next) ==
  [fits |-> TRUE, flags |-> flags, order |-> order, slots |-> slots, next |-> next, maxslot |-> 16]
EmptyDir == Dnodes({"root", "leaf"}, <<>>, <<>>, 0)
Inode(number, kind, size, xtree, dtree) ==
  [number |-> number, links |-> 1, kind |-> kind, size |-> size, blocks |-> 4,
   xtree |-> xtree, dtree |-> dtree]

MapInode(items) == << Inode(16, "other", 0, Xnode({"root", "leaf"}, items), EmptyDir) >>
JfsInodes ==
  << Inode(2, "dir", 0, NoTree,
           Dnodes({"root", "internal"}, <<1>>, (1 :> [block |-> 400, count |-> 1]), 0)),
     Inode(5, "file", 1500, Xnode({"root", "leaf"}, << Xad(2, 1, 502, FALSE), Xad(0, 1, 500, TRUE) >>),
           EmptyDir),
     Inode(6, "file", 1024, Xnode({"root", "internal"}, << Xad(0, 1, 450, TRUE) >>), EmptyDir),
     [Inode(7, "link", 20, NoTree, EmptyDir) EXCEPT !.blocks = 0],
     Inode(8, "dir", 0, NoTree, Dnodes({"root", "leaf"}, <<1, 2>>,
           (1 :> Dslot(5, 1, "a", 0)) @@ (2 :> Dslot(9, 1, "A", 0)), 0)),
     Inode(9, "file", 3, Xnode({"root", "leaf"}, << Xad(0, 1, 520, TRUE) >>), EmptyDir) >>
JfsByte(inode) == 300 * 512 + inode.number * 512

JfsVolume ==
  [supers |-> << [signed |-> FALSE],
                 [signed |-> TRUE, version |-> 1, block |-> 512, units |-> 9, os2 |-> FALSE,
                  indexed |-> TRUE, secondary |-> 1] >>,
   ait |-> << MapInode(<< Xad(0, 22, 600, TRUE) >>),
              MapInode(<< Xad(12, 10, 200, TRUE), Xad(0, 12, 100, TRUE) >>) >>,
   iags |-> ([i \in 0..7 |-> IF i < 4 THEN 108 + i ELSE 196 + i] :> (0 :> [block |-> 300, count |-> 32]))
            @@ ([i \in 0..7 |-> 608 + i] :> (0 :> [block |-> 700, count |-> 32])),
   inodes |-> [a \in {JfsByte(JfsInodes[i]) : i \in DOMAIN JfsInodes} |->
                SelectSeq(JfsInodes, LAMBDA i : JfsByte(i) = a)]
              @@ (700 * 512 + 1024 :> << Inode(2, "dir", 0, NoTree, EmptyDir) >>),
   xpages |-> (450 :> Xnode({"leaf"}, << Xad(0, 2, 510, TRUE) >>)),
   dpages |-> (400 :> Dnodes({"leaf"}, <<1, 2>>, (1 :> Dslot(5, 1, "a", 0))
                             @@ (2 :> Dslot(6, 13, "long na", 3)) @@ (3 :> Dslot(0, 0, "me", 0)), 401))
              @@ (401 :> Dnodes({"leaf"}, <<1, 2>>, (1 :> Dslot(7, 1, "b", 0))
                                @@ (2 :> Dslot(8, 3, "Sub", 0)), 0))]

Jfs ==
  Sample("jfs", {<<"Sub">>},
         (<<"a">> :> File(1500, << Part(256000, 512), Part(Zeros, 1024) >>))
         @@ (<<"long name">> :> File(1024, << Part(261120, 1024) >>))
         @@ (<<"b">> :> File(20, << Part(157440, 20) >>))
         @@ (<<"Sub", "a">> :> File(1500, << Part(256000, 512), Part(Zeros, 1024) >>))
         @@ (<<"Sub", "A">> :> File(3, << Part(266240, 512) >>)),
         JfsVolume)

(* OS/2: names have no case.                                               *)
JfsOs2 ==
  LET os2 == [JfsVolume EXCEPT !.supers[2].os2 = TRUE, !.dpages[401].slots[2].piece = "sub",
                               !.inodes[JfsByte(JfsInodes[5])][1].dtree.order = <<1>>]
      sample == Sample("jfs", {<<"sub">>},
                  (<<"a">> :> File(1500, << Part(256000, 512), Part(Zeros, 1024) >>))
                  @@ (<<"long name">> :> File(1024, << Part(261120, 1024) >>))
                  @@ (<<"b">> :> File(20, << Part(157440, 20) >>))
                  @@ (<<"sub", "a">> :> File(1500, << Part(256000, 512), Part(Zeros, 1024) >>)), os2)
  IN  AlsoAs([sample EXCEPT !.asks = {a \in @ : a.path # <<"Sub", "zz">>}],
             <<"sub", "a">>, <<"SUB", "A">>, 3)

-----------------------------------------------------------------------------
(* Filesystems kept in trees, discs, images and hives.                     *)
(* Bytes that only exist inflated are named from here on.                  *)
Inflated == 1000000000

(* Btrfs: two superblocks, a chunk tree of which one leaf lies in a chunk  *)
(* that another one maps, a file over two leaves with a hole and a packed  *)
(* extent, an inline file, one only allocated, a subvolume.                *)
BtrfsItem(object, type) == [object |-> object, type |-> type]
Chunk(logical, size, physical) ==
  BtrfsItem(256, "chunk") @@ [offset |-> logical, size |-> size, physical |-> physical, stripes |-> 1]
BtrfsInode(object, dir, size) == BtrfsItem(object, "inode") @@ [dir |-> dir, size |-> size]
BtrfsName(dir, name, child, isDir, subvolume) ==
  BtrfsItem(dir, "index") @@ [name |-> name, child |-> child, dir |-> isDir, subvolume |-> subvolume]
BtrfsExtent(object, kind, offset, count, address, packing, size, skip) ==
  BtrfsItem(object, "extent") @@
  [kind |-> kind, offset |-> offset, count |-> count, address |-> address, packing |-> packing,
   size |-> size, skip |-> skip]
TreeRoot(tree, block) == BtrfsItem(tree, "root") @@ [block |-> block, rootDir |-> 256]
BtrfsLeaf(logical, items) == [logical |-> logical, level |-> 0, items |-> items, pointers |-> <<>>]
Above(logical, pointers) == [logical |-> logical, level |-> 1, items |-> <<>>, pointers |-> pointers]
To(object, block) == [object |-> object, block |-> block]

BtrfsVolume ==
  [capacity |-> 90000000,
   supers |-> << [at |-> 65536, signed |-> TRUE, generation |-> 5, nodeSize |-> 4096, leafSize |-> 4096,
                  chunkRoot |-> 9, root |-> 9, rootDir |-> 6, bootstrap |-> <<>>],
                 [at |-> 67108864, signed |-> TRUE, generation |-> 7, nodeSize |-> 4096,
                  leafSize |-> 4096, chunkRoot |-> 1000000, root |-> 2004096, rootDir |-> 6,
                  bootstrap |-> << Chunk(1000000, 65536, 1000000) >>],
                 [at |-> 274877906, signed |-> TRUE, generation |-> 9] >>,
   nodes |->
     (1000000 :> Above(1000000, << To(256, 1004096), To(256, 2000000) >>))
     @@ (1004096 :> BtrfsLeaf(1004096, << Chunk(2000000, 100000, 3000000) >>))
     @@ (3000000 :> BtrfsLeaf(2000000, << Chunk(5000000, 1000000, 200000) >>))
     @@ (3004096 :> BtrfsLeaf(2004096, << TreeRoot(5, 2008192),
                                          BtrfsItem(6, "dir") @@ [child |-> 5], TreeRoot(260, 2020480) >>))
     @@ (3008192 :> Above(2008192, << To(256, 2012288), To(257, 2016384) >>))
     @@ (3012288 :> BtrfsLeaf(2012288,
          << BtrfsInode(256, TRUE, 0), BtrfsName(256, "a", 257, FALSE, FALSE),
             BtrfsName(256, "Sub", 258, TRUE, FALSE), BtrfsName(256, "vol", 260, TRUE, TRUE),
             BtrfsInode(257, FALSE, 13000),
             BtrfsExtent(257, "regular", 0, 4096, 5000000, "none", 8192, 4096) >>))
     @@ (3016384 :> BtrfsLeaf(2016384,
          << BtrfsExtent(257, "regular", 8192, 8192, 5100000, "zlib", 3000, 0),
             BtrfsInode(258, TRUE, 0), BtrfsName(258, "b", 259, FALSE, FALSE),
             BtrfsName(258, "A", 261, FALSE, FALSE), BtrfsInode(259, FALSE, 20),
             BtrfsExtent(259, "inline", 0, 20, 3016500, "none", 20, 0), BtrfsInode(261, FALSE, 5000),
             BtrfsExtent(261, "prealloc", 0, 8192, 5200000, "none", 8192, 0) >>))
     @@ (3020480 :> BtrfsLeaf(2020480,
          << BtrfsInode(256, TRUE, 0), BtrfsName(256, "a", 257, FALSE, FALSE),
             BtrfsInode(257, FALSE, 5), BtrfsExtent(257, "inline", 0, 5, 3020600, "none", 5, 0) >>)),
   units |-> (<<300000, 3000>> :> [base |-> Inflated, len |-> 8192])]

Btrfs ==
  Sample("btrfs", {<<"Sub">>, <<"vol">>},
         (<<"a">> :> File(13000, << Part(204096, 4096), Part(Zeros, 4096), Part(Inflated, 4808) >>))
         @@ (<<"Sub", "b">> :> File(20, << Part(3016500, 20) >>))
         @@ (<<"Sub", "A">> :> File(5000, << Part(Zeros, 5000) >>))
         @@ (<<"vol", "a">> :> File(5, << Part(3020600, 5) >>)),
         BtrfsVolume)

-----------------------------------------------------------------------------
(* XFS: groups of ten blocks numbered by sixteens; a directory over two    *)
(* groups, one in its inode, a file whose extents are a tree, a link.      *)
XfsNode(kind, format, length) ==
  [kind |-> kind, format |-> format, length |-> length, extents |-> <<>>, count |-> 0, short |-> <<>>,
   tree |-> [level |-> 0, pointers |-> <<>>], inline |-> 0, fork |-> 100]
Named(name, inode) == [name |-> name, inode |-> inode, fits |-> TRUE, unused |-> FALSE]

XfsVolume ==
  [signed |-> TRUE, block |-> 512, inode |-> 256, agBlocks |-> 10, agLog |-> 4, agCount |-> 2,
   blockLog |-> 9, inodesLog |-> 1, inodeLog |-> 8, rootInode |-> 4,
   inodes |->
     (1024 :> << [XfsNode("dir", 2, 1024) EXCEPT !.count = 3,
                    !.extents = << Extent(0, 1, 3), Extent(1, 1, 17), Extent(2^26, 1, 4) >>] >>)
     @@ (1280 :> << [XfsNode("file", 2, 1300) EXCEPT !.count = 2,
                       !.extents = << Extent(0, 1, 6), Extent(2, 1, 20), Extent(1, 1, 9) >>] >>)
     @@ (6400 :> << [XfsNode("dir", 1, 30) EXCEPT
                       !.short = << Named("..", 4), Named("a", 38), Named("A", 39) >>] >>)
     @@ (6656 :> << [XfsNode("file", 3, 1000) EXCEPT !.tree = [level |-> 2, pointers |-> <<8, 21>>]] >>)
     @@ (6912 :> << [XfsNode("link", 1, 12) EXCEPT !.inline = 12] >>),
   bmaps |-> (4096 :> [level |-> 1, pointers |-> <<9>>, extents |-> <<>>])
             @@ (4608 :> [level |-> 0, pointers |-> <<>>, extents |-> << Extent(1, 1, 7) >>])
             @@ (7680 :> [level |-> 0, pointers |-> <<>>, extents |-> << Extent(0, 1, 22) >>]),
   dirs |-> (1536 :> [kind |-> "data", records |-> << Named(".", 4), Named("..", 4), Named("a", 5) >>])
            @@ (5632 :> [kind |-> "data", records |->
                          << [Named("x", 0) EXCEPT !.unused = TRUE], Named("Sub", 37),
                             [Named("y", 0) EXCEPT !.fits = FALSE] >>])
            @@ (2048 :> [kind |-> "data", records |-> << Named("z", 5) >>])]

Xfs ==
  Sample("xfs", {<<"Sub">>},
         (<<"a">> :> File(1300, << Part(3072, 512), Part(Zeros, 512), Part(7168, 276) >>))
         @@ (<<"Sub", "a">> :> File(1000, << Part(8192, 512), Part(3584, 488) >>))
         @@ (<<"Sub", "A">> :> File(12, << Part(7012, 12) >>)),
         XfsVolume)

-----------------------------------------------------------------------------
(* NTFS: a master file table in two runs, an index in two runs that go     *)
(* back, data in two records with a gap, sparse data, resident data.       *)
Attr(type, name, id) ==
  [type |-> type, name |-> name, id |-> id, resident |-> TRUE, lowest |-> 0, size |-> 0,
   packed |-> FALSE, runs |-> <<>>, entries |-> <<>>, refs |-> <<>>, at |-> 0, block |-> 1024]
RunOf(delta, length) == [sparse |-> FALSE, delta |-> delta, length |-> length]
SparseRun(length) == [sparse |-> TRUE, delta |-> 0, length |-> length]
Outside(type, name, id, lowest, size, runs) ==
  [Attr(type, name, id) EXCEPT !.resident = FALSE, !.lowest = lowest, !.size = size, !.runs = runs]
Indexed(name, ref, dir, size) ==
  [name |-> name, ref |-> ref, dir |-> dir, size |-> size, dos |-> FALSE, meta |-> FALSE]
FileRecord(directory, attrs) == [directory |-> directory, attrs |-> attrs]

NtfsVolume ==
  [signed |-> TRUE, sector |-> 512, perCluster |-> 1, rawRecord |-> -10, mft |-> 10, total |-> 200,
   capacity |-> 102400,
   records |->
     (5120 :> FileRecord(FALSE, << Outside("data", "", 1, 0, 10240, << RunOf(10, 4), RunOf(20, 16) >>) >>))
     @@ (18432 :> FileRecord(TRUE,
          << [Attr("root", "$I30", 2) EXCEPT !.entries =
                << Indexed("a", 6, FALSE, 2500), [Indexed("A~1", 6, FALSE, 2500) EXCEPT !.dos = TRUE],
                   [Indexed("$MFT", 0, FALSE, 9) EXCEPT !.meta = TRUE] >>],
             Outside("allocation", "$I30", 3, 0, 2048, << RunOf(60, 2), RunOf(-10, 2) >>) >>))
     @@ (19456 :> FileRecord(FALSE,
          << [Attr("list", "", 4) EXCEPT !.refs = <<6, 9>>],
             Outside("data", "", 5, 0, 2500, << RunOf(70, 2) >>) >>))
     @@ (20480 :> FileRecord(TRUE, << [Attr("root", "$I30", 2) EXCEPT !.entries =
                                          << Indexed("c", 4, FALSE, 1200) >>] >>))
     @@ (21504 :> FileRecord(FALSE, << [Attr("data", "", 1) EXCEPT !.size = 30, !.at = 21704] >>))
     @@ (22528 :> FileRecord(FALSE, << Outside("data", "", 5, 4, 0, << RunOf(80, 1) >>) >>))
     @@ (17408 :> FileRecord(FALSE, << Outside("data", "", 1, 0, 1200, << SparseRun(2), RunOf(90, 1) >>) >>)),
   blocks |-> (30720 :> << Indexed("Sub", 7, TRUE, 0) >>)
              @@ (25600 :> << Indexed("b", 8, FALSE, 30), Indexed("a", 6, FALSE, 2500) >>)]

Ntfs ==
  AlsoAs(Sample("ntfs", {<<"Sub">>},
                (<<"a">> :> File(2500, << Part(35840, 1024), Part(Zeros, 1024), Part(40960, 512) >>))
                @@ (<<"b">> :> File(30, << Part(21704, 30) >>))
                @@ (<<"Sub", "c">> :> File(1200, << Part(Zeros, 1024), Part(46080, 512) >>)),
                NtfsVolume),
         <<"Sub", "c">>, <<"SUB", "C">>, 1199)

-----------------------------------------------------------------------------
(* ext: extents over two nodes with gaps, a block map with two levels of   *)
(* indirection, two groups, a link in its inode.                           *)
ExtInodeOf(kind, size) ==
  [kind |-> kind, size |-> size, extents |-> FALSE, blocks |-> 2,
   tree |-> [depth |-> 0, entries |-> <<>>], map |-> [i \in 1..15 |-> 0]]
Tree(depth, entries) == [depth |-> depth, entries |-> entries]
ExtName(name, inode, type) == [short |-> FALSE, name |-> name, inode |-> inode, type |-> type]

ExtVolume ==
  [signed |-> TRUE, blockLog |-> 0, inode |-> 128, perGroup |-> 8, blocksPerGroup |-> 64,
   groups |-> (0 :> 5) @@ (1 :> 70),
   inodes |->
     (5248 :> << [ExtInodeOf("dir", 2048) EXCEPT !.extents = TRUE,
                    !.tree = Tree(0, << Extent(0, 1, 20), Extent(1, 1, 22) >>)] >>)
     @@ (5376 :> << [ExtInodeOf("file", 5500) EXCEPT !.extents = TRUE,
                       !.tree = Tree(1, << [logical |-> 0, child |-> 30], [logical |-> 4, child |-> 31] >>)] >>)
     @@ (71680 :> << [ExtInodeOf("dir", 1024) EXCEPT !.map = [@ EXCEPT ![1] = 24]] >>)
     @@ (71808 :> << [ExtInodeOf("file", 269 * 1024) EXCEPT
                        !.map = [@ EXCEPT ![1] = 50, ![13] = 60, ![14] = 61]] >>)
     @@ (71936 :> << [ExtInodeOf("link", 25) EXCEPT !.blocks = 0] >>),
   nodes |-> (30 :> Tree(0, << Extent(0, 1, 40), Extent(2, 1, 42) >>))
             @@ (31 :> Tree(0, << Extent(5, 1, 44) >>)),
   words |-> (<<60, 0>> :> 51) @@ (<<61, 0>> :> 62) @@ (<<62, 0>> :> 53),
   dirs |-> (20480 :> << ExtName(".", 2, 2), ExtName("..", 2, 2), ExtName("a", 3, 1), ExtName("x", 0, 0),
                         ExtName("Sub", 9, 0) >>)
            @@ (22528 :> << ExtName("b", 10, 1) >>)
            @@ (24576 :> << ExtName("link", 11, 7) >>)]

Ext ==
  Sample("ext", {<<"Sub">>},
         (<<"a">> :> File(5500, << Part(40960, 1024), Part(Zeros, 1024), Part(43008, 1024),
                                   Part(Zeros, 2048), Part(45056, 1024) >>))
         @@ (<<"b">> :> File(269 * 1024, << Part(51200, 1024), Part(Zeros, 11264), Part(52224, 1024),
                                            Part(Zeros, 261120), Part(54272, 1024) >>))
         @@ (<<"Sub", "link">> :> File(25, << Part(71976, 25) >>)),
         ExtVolume)
=============================================================================
