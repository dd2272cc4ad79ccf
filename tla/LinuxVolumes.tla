------------------------------ MODULE LinuxVolumes -----------------------------
(***************************************************************************)
(* The readers of the filesystems Linux makes: ext2/3/4, XFS and Btrfs     *)
(* (fs/ExtReader.cpp, fs/XfsReader.cpp, fs/BtrfsReader.cpp).               *)
(***************************************************************************)
EXTENDS Filesystems

-----------------------------------------------------------------------------
(***************************************************************************)
(* The ext2/3/4 reader (fs/ExtReader.cpp): inodes by group, the extent     *)
(* tree or the block map with its three levels of indirection, and         *)
(* directory blocks.                                                       *)
(*                                                                         *)
(* `groups` gives the inode table of each group, `inodes` what lies at a   *)
(* byte, `nodes` the extent node in a block, `words` the entries of an     *)
(* indirect block, `dirs` the records of a directory block.                *)
(***************************************************************************)

ExtBlock(v) == 1024 * 2^v.blockLog
ExtInodeSize(v) == Larger(v.inode, 128)
ExtAccepts(v) == v.signed /\ v.perGroup # 0 /\ v.blocksPerGroup # 0

(* inodeTableBlock() and readInode().                                      *)
ExtInodeAt(v, number) ==
  At(v.groups, (number - 1) \div v.perGroup, 0) * ExtBlock(v)
  + ((number - 1) % v.perGroup) * ExtInodeSize(v)

ExtInode(v, number) == IF number = 0 THEN <<>> ELSE At(v.inodes, ExtInodeAt(v, number), <<>>)

-----------------------------------------------------------------------------
(* Blocks of a file: [hole, at, len] from a logical block on.              *)

Hole(len) == [hole |-> TRUE, at |-> 0, len |-> len]
Run(at, len) == [hole |-> FALSE, at |-> at, len |-> len]

(* The entry to follow: the last that does not start after the block, or   *)
(* the first.                                                              *)
ExtChosen(entries, logical) ==
  LET after == {i \in 1..Len(entries) : entries[i].logical > logical}
      i == IF entries[1].logical >= logical THEN 1
           ELSE IF after = {} THEN Len(entries) ELSE (CHOOSE i \in after : \A j \in after : i =< j) - 1
  IN  entries[i]

(* findExtent().  The depth is what each node says; nothing bounds it.     *)
ExtFind(v, root, logical) ==
  LET nodes == (-1 :> root) @@ v.nodes
      find[at \in DOMAIN nodes] ==
        LET node == nodes[at]
            e == ExtChosen(node.entries, logical)
        IN  IF node.entries = <<>> THEN <<>>
            ELSE IF node.depth = 0 THEN <<e>>
            ELSE IF e.child \in DOMAIN v.nodes THEN find[e.child] ELSE <<>>
  IN  find[-1]

ExtExtentRun(v, inode, logical, total) ==
  LET hit == ExtFind(v, inode.tree, logical)
      e == hit[1]
      in == logical - e.logical
  IN  IF hit = <<>> THEN Hole(total - logical)
      ELSE IF e.logical > logical THEN Hole(Smaller(e.logical, total) - logical)
      ELSE IF in >= e.count THEN Hole(1)
      ELSE Run(e.physical + in, Smaller(e.count - in, total - logical))

(* indirectLookup(): 0 where no block is allocated.                        *)
ExtWord(v, block, i) == IF block = 0 THEN 0 ELSE At(v.words, <<block, i>>, 0)

ExtIndirect(v, inode, logical) ==
  LET per == ExtBlock(v) \div 4
      one == logical - 12
      two == one - per
      three == two - per * per
  IN  IF logical < 12 THEN inode.map[logical + 1]
      ELSE IF one < per THEN ExtWord(v, inode.map[13], one)
      ELSE IF two < per * per THEN ExtWord(v, ExtWord(v, inode.map[14], two \div per), two % per)
      ELSE ExtWord(v, ExtWord(v, ExtWord(v, inode.map[15], three \div (per * per)),
                              (three \div per) % per), three % per)

(* resolveRun().                                                           *)
ExtRun(v, inode, logical, total) ==
  IF inode.extents THEN ExtExtentRun(v, inode, logical, total)
  ELSE LET at == ExtIndirect(v, inode, logical) IN IF at = 0 THEN Hole(1) ELSE Run(at, 1)

(* buildContent(): a part per run.                                         *)
ExtParts(v, inode) ==
  LET total == (inode.size + ExtBlock(v) - 1) \div ExtBlock(v)
      from[l \in 0..total] ==
        IF l = total THEN <<>>
        ELSE LET run == ExtRun(v, inode, l, total)
                 len == Larger(run.len, 1)
             IN  <<Part(IF run.hole THEN Zeros ELSE run.at * ExtBlock(v), len * ExtBlock(v))>>
                 \o from[Smaller(l + len, total)]
  IN  from[0]

(* A block map gives every block a part of its own.                        *)
ExtReads(v, node, pos) ==
  LET inode == ExtInode(v, node.first)[1]
      mapped == ExtIndirect(v, inode, pos \div ExtBlock(v))
  IN  IF ExtInode(v, node.first) = <<>> THEN Nothing
      ELSE IF inode.kind = "link" /\ inode.blocks = 0
      THEN IF pos \in 0..Smaller(60, inode.size) - 1 THEN ExtInodeAt(v, node.first) + 40 + pos
           ELSE Nothing
      ELSE IF inode.extents THEN HostAt(ExtParts(v, inode), inode.size, pos)
      ELSE IF pos \notin 0..inode.size - 1 THEN Nothing
      ELSE IF mapped = 0 THEN Zeros ELSE mapped * ExtBlock(v) + (pos % ExtBlock(v))

-----------------------------------------------------------------------------
(* Directories.                                                            *)

(* readDirectory(): records block after block, to one that is too short;   *)
(* a hole is one.                                                          *)
ExtBlocks(parts, size) ==
  FlattenSeq([i \in 1..Len(parts) |->
    [k \in 1..parts[i].len \div size |->
      IF parts[i].at = Zeros THEN Zeros ELSE parts[i].at + (k - 1) * size]])

ExtRecordsIn(v, blocks) ==
  FlattenSeq([i \in 1..Len(blocks) |->
    At(v.dirs, blocks[i], <<[short |-> TRUE, inode |-> 0, name |-> "", type |-> 0]>>)])

ExtUntilShort(records) ==
  LET ends == {i \in 1..Len(records) : records[i].short}
  IN  IF ends = {} THEN records
      ELSE SubSeq(records, 1, (CHOOSE i \in ends : \A j \in ends : i =< j) - 1)

ExtRecords(v, inode) == ExtUntilShort(ExtRecordsIn(v, ExtBlocks(ExtParts(v, inode), ExtBlock(v))))

ExtUsed(records) == SelectSeq(records, LAMBDA r : r.inode # 0 /\ r.name \notin {".", ".."})
ExtShown(used) ==
  [i \in 1..Len(used) |-> [name |-> used[i].name, first |-> used[i].inode, type |-> used[i].type]]

ExtEntries(v, number) ==
  IF ExtInode(v, number) = <<>> THEN <<>>
  ELSE ExtShown(ExtUsed(ExtRecords(v, ExtInode(v, number)[1])))

ExtRoot(v) == [name |-> "", first |-> 2]

(* resolvePath(): names match whatever their case.                         *)
ExtFindName(v, entries, name) ==
  SelectSeq(FirstWhere(entries, LAMBDA e : Fold(e.name) = Fold(name)),
            LAMBDA e : ExtInode(v, e.first) # <<>>)

ExtIsDirectory(v, number) == ExtInode(v, number) # <<>> /\ ExtInode(v, number)[1].kind = "dir"

(* list(): the type is in the entry, or else in the inode.                 *)
ExtListing(v, entries) ==
  [i \in 1..Len(entries) |->
    LET e == entries[i]
        dir == e.type = 2 \/ (e.type = 0 /\ ExtIsDirectory(v, e.first))
    IN  [name |-> e.name, dir |-> dir,
         size |-> IF dir \/ ExtInode(v, e.first) = <<>> THEN 0 ELSE ExtInode(v, e.first)[1].size]]

-----------------------------------------------------------------------------
(***************************************************************************)
(* The XFS reader (fs/XfsReader.cpp): block and inode numbers that name an *)
(* allocation group and a place in it, inodes with their data in the       *)
(* inode, in a list of extents or in a tree of them, and directory blocks. *)
(*                                                                         *)
(* `inodes`, `bmaps` and `dirs` say what lies at a byte: an inode, a node  *)
(* of an extent tree, a directory block.                                   *)
(***************************************************************************)

XfsAccepts(v) ==
  /\ v.signed /\ v.block >= 512 /\ v.inode >= 128 /\ v.agBlocks # 0 /\ v.agCount # 0
  /\ v.blockLog # 0 /\ v.inodeLog # 0

(* fsBlockOffset().                                                        *)
XfsBlockAt(v, b) == ((b \div 2^v.agLog) * v.agBlocks + (b % 2^v.agLog)) * v.block

(* inodeOffset().                                                          *)
XfsInodeAt(v, number) ==
  LET perBlock == 2^v.inodesLog
      group == number \div (perBlock * 2^v.agLog)
  IN  group * v.agBlocks * v.block + ((number \div perBlock) % 2^v.agLog) * v.block
      + (number % perBlock) * v.inode

(* readInode(): none unless the signature is there.                        *)
XfsInode(v, number) == At(v.inodes, XfsInodeAt(v, number), <<>>)

-----------------------------------------------------------------------------
(* Extents: a list in the inode, or a tree whose depth the root says.      *)

XfsTreeStart(root) ==
  Walk(IF root.level = 0 THEN <<>>
       ELSE [i \in 1..Len(root.pointers) |-> [block |-> root.pointers[i], depth |-> root.level - 1]])

XfsFileStart(v, number) ==
  LET inode == XfsInode(v, number)[1]
  IN  IF XfsInode(v, number) = <<>> THEN Walk(<<>>)
      ELSE IF inode.format = 2
      THEN Gather(Walk(<<>>), SubSeq(inode.extents, 1, Smaller(inode.count, Len(inode.extents))))
      ELSE IF inode.format = 3 THEN XfsTreeStart(inode.tree) ELSE Walk(<<>>)

(* Mutant of XfsTreeTurn: the level a block claims is believed.            *)
XfsTreeUnbounded(v, w) ==
  LET here == Head(w.todo)
      at == XfsBlockAt(v, here.block)
      node == v.bmaps[at]
      below == [i \in 1..Len(node.pointers) |-> [block |-> node.pointers[i], depth |-> here.depth]]
  IN  IF at \notin DOMAIN v.bmaps THEN Skipped(w)
      ELSE IF node.level = 0 THEN Gather(Skipped(w), node.extents)
      ELSE [w EXCEPT !.todo = below \o Tail(@)]

(* readBtreeBlock() for one block: nothing is remembered, but every level  *)
(* has one less to go.                                                     *)
XfsTreeTurn(v, w) ==
  LET here == Head(w.todo)
      at == XfsBlockAt(v, here.block)
      node == v.bmaps[at]
      below == [i \in 1..Len(node.pointers) |-> [block |-> node.pointers[i], depth |-> here.depth - 1]]
  IN  IF here.depth \notin 0..16 \/ at \notin DOMAIN v.bmaps THEN Skipped(w)
      ELSE IF node.level = 0 THEN Gather(Skipped(w), node.extents)
      ELSE [w EXCEPT !.todo = below \o Tail(@)]

(* btreeRootExtents() sorts what a tree gave.                              *)
XfsExtents(v, number, w) ==
  IF XfsInode(v, number)[1].format = 3
  THEN SortSeq(w.out, LAMBDA a, b : a.logical < b.logical) ELSE w.out

-----------------------------------------------------------------------------
(* Directories.                                                            *)

(* readBlockDirectory(): records up to the first that cannot be one.       *)
XfsBlockEntries(block) ==
  LET bad == {i \in 1..Len(block.records) : ~block.records[i].fits}
      sound == IF bad = {} THEN block.records
               ELSE SubSeq(block.records, 1, (CHOOSE i \in bad : \A j \in bad : i =< j) - 1)
  IN  IF block.kind \notin {"block", "data"} THEN <<>>
      ELSE SelectSeq(sound, LAMBDA r : ~r.unused /\ r.name \notin {".", ".."})

(* readDirectory(): in the inode, or every block before the leaf index.    *)
XfsEntries(v, number, w) ==
  LET inode == XfsInode(v, number)[1]
      extents == SelectSeq(XfsExtents(v, number, w), LAMBDA e : e.logical < 2^(35 - v.blockLog))
      blocks == FlattenSeq([i \in 1..Len(extents) |->
                             [k \in 1..extents[i].count |-> extents[i].physical + k - 1]])
      entries == IF inode.format = 1
                 THEN SelectSeq(inode.short, LAMBDA r : r.name \notin {".", ".."})
                 ELSE FlattenSeq([i \in 1..Len(blocks) |->
                        XfsBlockEntries(At(v.dirs, XfsBlockAt(v, blocks[i]),
                                           [kind |-> "other", records |-> <<>>]))])
  IN  IF XfsInode(v, number) = <<>> \/ inode.kind # "dir" THEN <<>>
      ELSE [i \in 1..Len(entries) |-> [name |-> entries[i].name, first |-> entries[i].inode]]

XfsRoot(v) == [name |-> "", first |-> v.rootInode]
XfsFind(entries, name) == FirstWhere(entries, LAMBDA e : e.name = name)

(* list(): an entry without an inode is not shown.                         *)
XfsListing(v, entries) ==
  LET shown == SelectSeq(entries, LAMBDA e : XfsInode(v, e.first) # <<>>)
      item(e) == LET inode == XfsInode(v, e.first)[1]
                 IN  [name |-> e.name, dir |-> inode.kind = "dir",
                      size |-> IF inode.kind = "dir" THEN 0 ELSE inode.length]
  IN  [i \in 1..Len(shown) |-> item(shown[i])]

(* inodeContent(): in the inode, or mapped with zeros in the gaps.         *)
XfsReads(v, node, w, pos) ==
  LET inode == XfsInode(v, node.first)[1]
      block == pos \div v.block
      hit == FirstWhere(XfsExtents(v, node.first, w),
                        LAMBDA e : block \in e.logical..e.logical + e.count - 1)
  IN  IF pos < 0 \/ pos >= inode.length THEN Nothing
      ELSE IF inode.format = 1
      THEN IF pos < inode.inline THEN XfsInodeAt(v, node.first) + inode.fork + pos ELSE Nothing
      ELSE IF hit = <<>> THEN Zeros
      ELSE XfsBlockAt(v, hit[1].physical + (block - hit[1].logical)) + (pos % v.block)

-----------------------------------------------------------------------------
(***************************************************************************)
(* The Btrfs reader (fs/BtrfsReader.cpp): every address in the volume is   *)
(* logical and goes through the chunk map, and the chunk map is itself a   *)
(* tree at logical addresses, bootstrapped from the superblock.            *)
(*                                                                         *)
(* `nodes` maps a physical address to a tree node: [logical, level, items, *)
(* pointers], an item with its object, type and offset, a pointer with its *)
(* object and block.  `units` maps the address and size of compressed      *)
(* bytes to what they inflate to: [base, len].                             *)
(***************************************************************************)

(* parse(): the copies are looked at up to the end of the volume; the      *)
(* first of the highest generation is used.                                *)
BtrfsSuper(v) ==
  LET beyond == {i \in 1..Len(v.supers) : v.supers[i].at + 4096 > v.capacity}
      near == {i \in 1..Len(v.supers) : \A j \in beyond : i < j}
      valid == {i \in near : v.supers[i].signed}
  IN  IF valid = {} THEN <<>>
      ELSE <<v.supers[CHOOSE i \in valid :
               \A j \in valid : \/ v.supers[j].generation < v.supers[i].generation
                                \/ v.supers[j].generation = v.supers[i].generation /\ i =< j]>>

BtrfsAccepts(v) ==
  /\ v.capacity >= 69632 /\ BtrfsSuper(v) # <<>>
  /\ LET s == BtrfsSuper(v)[1]
     IN  s.nodeSize # 0 /\ s.leafSize # 0 /\ s.chunkRoot # 0 /\ s.root # 0

-----------------------------------------------------------------------------
(* Chunks.                                                                 *)

(* mapToPhysical(): the first chunk that covers the address.               *)
BtrfsMap(chunks, logical) ==
  LET hit == FirstWhere(chunks, LAMBDA c : logical \in c.logical..c.logical + c.size - 1)
  IN  IF hit = <<>> THEN Nothing ELSE hit[1].physical + (logical - hit[1].logical)

(* readTree(): the node at an address, when one is there.                  *)
BtrfsNode(v, chunks, logical) ==
  LET at == BtrfsMap(chunks, logical)
  IN  IF at \in DOMAIN v.nodes THEN <<v.nodes[at]>> ELSE <<>>

BtrfsIsChunk(item) == item.type = "chunk" /\ item.stripes >= 1
BtrfsMapped(items) ==
  [i \in 1..Len(items) |-> [logical |-> items[i].offset, size |-> items[i].size,
                            physical |-> items[i].physical]]

(* parseChunkArray() ends at what is no chunk, a leaf's loop passes it.    *)
BtrfsChunkArray(items) ==
  LET before == {n \in 0..Len(items) : \A i \in 1..n : BtrfsIsChunk(items[i])}
  IN  BtrfsMapped(SubSeq(items, 1, CHOOSE n \in before : \A m \in before : m =< n))
BtrfsChunksOf(items) == BtrfsMapped(SelectSeq(items, BtrfsIsChunk))

BtrfsSorted(chunks) == SortSeq(chunks, LAMBDA a, b : a.logical < b.logical)

BtrfsChunkStart(v) ==
  Gather(Walk(<<BtrfsSuper(v)[1].chunkRoot>>), BtrfsChunkArray(BtrfsSuper(v)[1].bootstrap))

(* collectChunks() for one node, known by the address it says it has.  The *)
(* chunks found so far map the nodes that are read next.                   *)
BtrfsChunkTurn(v, w) ==
  LET found == BtrfsNode(v, w.out, Head(w.todo))
      node == found[1]
      below == [i \in 1..Len(node.pointers) |-> node.pointers[i].block]
  IN  IF found = <<>> THEN Failed(w)
      ELSE IF node.logical \in w.seen THEN Skipped(w)
      ELSE IF node.level = 0
      THEN [Visited(w, node.logical, <<>>) EXCEPT !.out = BtrfsSorted(@ \o BtrfsChunksOf(node.items))]
      ELSE Visited(w, node.logical, below)

-----------------------------------------------------------------------------
(* Trees.  A mounted volume carries its chunks; `trees` of it are sound.   *)

(* findItems(): the items of an object and type, from the last pointer     *)
(* before the object on.  The walk remembers nothing and has no bound.     *)
BtrfsFollowed(p, object) ==
  LET from == {i \in 1..Len(p) : \A j \in 2..i : p[j].object < object}
      first == CHOOSE i \in from : \A j \in from : j =< i
      last == {i \in first..Len(p) : \A j \in first..i : p[j].object =< object}
  IN  IF p = <<>> \/ p[1].object > object THEN <<>> ELSE SubSeq(p, first, first + Cardinality(last) - 1)

BtrfsItems(v, node, object, type) ==
  LET itemsIn(x) == SelectSeq(x.items, LAMBDA i : i.object = object /\ i.type = type)
      items[at \in DOMAIN v.nodes] ==
        LET below == BtrfsFollowed(v.nodes[at].pointers, object)
        IN  IF v.nodes[at].level = 0 THEN itemsIn(v.nodes[at])
            ELSE FlattenSeq([k \in 1..Len(below) |-> items[BtrfsMap(v.chunks, below[k].block)]])
      top == BtrfsFollowed(node.pointers, object)
  IN  IF node.level = 0 THEN itemsIn(node)
      ELSE FlattenSeq([k \in 1..Len(top) |-> items[BtrfsMap(v.chunks, top[k].block)]])

BtrfsRootTree(v) == BtrfsNode(v, v.chunks, BtrfsSuper(v)[1].root)[1]
BtrfsRootItem(v, tree) == BtrfsItems(v, BtrfsRootTree(v), tree, "root")

(* fsTree().                                                               *)
BtrfsTree(v, tree) == BtrfsNode(v, v.chunks, BtrfsRootItem(v, tree)[1].block)[1]

(* A volume is refused whose root tree is nowhere or names no default.     *)
BtrfsDefault(v) == BtrfsItems(v, BtrfsRootTree(v), BtrfsSuper(v)[1].rootDir, "dir")
BtrfsUsable(v) ==
  BtrfsNode(v, v.chunks, BtrfsSuper(v)[1].root) # <<>> /\ BtrfsDefault(v) # <<>>

(* rootEntry(): the default subvolume.                                     *)
BtrfsRoot(v) ==
  LET default == BtrfsDefault(v)[1].child
  IN  [name |-> "", tree |-> default, object |-> BtrfsRootItem(v, default)[1].rootDir,
       dir |-> TRUE, size |-> 0]

(* An entry of a directory: a subvolume starts a tree of its own.          *)
BtrfsEntry(v, item, tree, inodes) ==
  [name |-> item.name,
   tree |-> tree,
   object |-> IF item.subvolume THEN BtrfsRootItem(v, item.child)[1].rootDir ELSE item.child,
   dir |-> item.dir \/ item.subvolume \/ (inodes # <<>> /\ inodes[1].dir),
   size |-> IF inodes = <<>> THEN 0 ELSE inodes[1].size]

BtrfsEntryIn(v, item, tree) ==
  BtrfsEntry(v, item, tree, BtrfsItems(v, BtrfsTree(v, tree), IF item.subvolume THEN 256 ELSE item.child,
                                       "inode"))

(* readDirectory(): directories first, then by name.                       *)
BtrfsEntries(v, dir) ==
  LET items == BtrfsItems(v, BtrfsTree(v, dir.tree), dir.object, "index")
      tree(item) == IF item.subvolume THEN item.child ELSE dir.tree
  IN  SortSeq([i \in 1..Len(items) |-> BtrfsEntryIn(v, items[i], tree(items[i]))],
              LAMBDA a, b : \/ a.dir /\ ~b.dir
                            \/ a.dir = b.dir /\ NameRank[a.name] < NameRank[b.name])

BtrfsFind(entries, name) == FirstWhere(entries, LAMBDA e : e.name = name)

-----------------------------------------------------------------------------
(* Files.                                                                  *)

(* readExtents(): prealloc extents are left out, and so read as zeros.     *)
BtrfsExtents(v, node) ==
  SelectSeq(BtrfsItems(v, BtrfsTree(v, node.tree), node.object, "extent"),
            LAMBDA e : e.kind \in {"inline", "regular"})

(* A byte of compressed data, when it inflates that far.                   *)
BtrfsUnpacked(v, at, size, k) ==
  IF <<at, size>> \in DOMAIN v.units /\ k < v.units[<<at, size>>].len
  THEN v.units[<<at, size>>].base + k ELSE Nothing

(* A byte of the file from the extent that holds it.  An inline extent is  *)
(* as long as its bytes in the item.                                       *)
BtrfsByte(v, e, k) ==
  LET at == BtrfsMap(v.chunks, e.address)
      packed == e.packing # "none"
  IN  IF e.kind = "inline"
      THEN IF packed THEN BtrfsUnpacked(v, e.address, e.size, k) ELSE e.address + k
      ELSE IF e.address = 0 THEN Zeros
      ELSE IF at = Nothing THEN Nothing
      ELSE IF packed THEN BtrfsUnpacked(v, at + e.skip, e.size, k)
      ELSE at + e.skip + k

(* contentStore() and the store it makes: none, when an extent is packed   *)
(* in a way that is not known.                                             *)
BtrfsKnown(extents) == \A i \in DOMAIN extents : extents[i].packing \in {"none", "zlib", "lzo"}
BtrfsIn(v, extents, pos) ==
  LET hit == FirstWhere(extents, LAMBDA e : pos \in e.offset..e.offset + e.count - 1)
  IN  IF ~BtrfsKnown(extents) THEN Nothing
      ELSE IF hit = <<>> THEN Zeros ELSE BtrfsByte(v, hit[1], pos - hit[1].offset)
BtrfsReads(v, node, pos) ==
  IF pos < 0 \/ pos >= node.size THEN Nothing ELSE BtrfsIn(v, BtrfsExtents(v, node), pos)
=============================================================================
