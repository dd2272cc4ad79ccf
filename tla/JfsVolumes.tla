------------------------------ MODULE JfsVolumes ------------------------------
(***************************************************************************)
(* The JFS reader (fs/JfsReader.cpp): two copies of the aggregate inode    *)
(* table of which the better one is kept, inodes found through the inode   *)
(* map, extent trees, and directories that are read twice over, as a tree  *)
(* of routers and as a chain of sibling leaves.                            *)
(*                                                                         *)
(* `super` is the usable superblock, primary or secondary; `ait` the two   *)
(* copies of the inode-map inode; `iags`, `inodes`, `xpages` and `dpages`  *)
(* what lies at a block or a byte.  An inode is [number, links, kind,      *)
(* size, blocks, xtree, dtree]; a node has its `flags`, whether its header *)
(* `fits`, and its items.  An inode-map page is found by its blocks.       *)
(***************************************************************************)
EXTENDS Filesystems

JfsPage == 4096
JfsInode == 512

(* parse() takes the secondary superblock only when the primary is none.   *)
JfsSuperFits(s) == s.signed /\ s.version \in {1, 2} /\ s.block \in {512, 1024, 2048, 4096} /\ s.units # 0
JfsSuper(v) == IF JfsSuperFits(v.supers[1]) THEN v.supers[1] ELSE v.supers[2]
JfsBlock(v) == JfsSuper(v).block

(* parseXtreeNode(): the whole tree, parents before children.              *)
JfsNodeFits(node, root) ==
  node.fits /\ node.flags \cap {"leaf", "internal"} # {} /\ (root => "root" \in node.flags)

JfsTreeStart(node) == Walk(<<[block |-> 0, node |-> node, depth |-> 0]>>)

JfsTreeTurn(v, w) ==
  LET here == Head(w.todo)
      root == here.block = 0
      node == IF root THEN here.node ELSE v.xpages[here.block]
      items == SelectSeq(node.items, LAMBDA x : x.physical # 0 /\ x.count # 0)
      below == [i \in 1..Len(items) |-> [block |-> items[i].physical, depth |-> here.depth + 1]]
  IN  IF here.block \in w.seen THEN Skipped(w)
      ELSE IF ~root /\ here.block \notin DOMAIN v.xpages THEN Visited(w, here.block, <<>>)
      ELSE IF here.depth > 8 \/ ~JfsNodeFits(node, root) THEN Visited(w, here.block, <<>>)
      ELSE IF "leaf" \in node.flags THEN Gather(Visited(w, here.block, <<>>), items)
      ELSE Visited(w, here.block, below)

JfsWholeTree(v, w) == WholeWalk(w, LAMBDA x : JfsTreeTurn(v, x))

(* inodeExtents().                                                         *)
JfsInOrder(extents) == SortSeq(extents, LAMBDA a, b : a.logical < b.logical)
JfsExtents(v, inode) == JfsInOrder(JfsWholeTree(v, JfsTreeStart(inode.xtree)).out)

JfsCovers(e, block) == block \in e.logical..e.logical + e.count - 1

(* mapLogicalBlock().                                                      *)
JfsMap(extents, block) ==
  LET hit == FirstWhere(extents, LAMBDA e : JfsCovers(e, block) /\ e.recorded)
  IN  IF hit = <<>> THEN Nothing ELSE hit[1].physical + (block - hit[1].logical)

-----------------------------------------------------------------------------
(* Inodes.                                                                 *)

(* readAggregateInode().                                                   *)
JfsMapInode(v, copy) ==
  SelectSeq(v.ait[copy], LAMBDA i : i.number = 16 /\ i.links # 0)

(* readIag(): every block of the page must be mapped.                      *)
JfsIag(v, map, n) ==
  LET per == JfsPage \div JfsBlock(v)
      blocks == [i \in 0..per - 1 |-> JfsMap(map, (n + 1) * per + i)]
  IN  IF \E i \in 0..per - 1 : blocks[i] = Nothing THEN <<>> ELSE At(v.iags, blocks, <<>>)

(* readFilesetInode(): the inode when it is one, as a sequence of one.     *)
JfsInodeAt(v, map, number) ==
  LET iag == JfsIag(v, map, number \div 4096)
      extent == At(iag, (number % 4096) \div 32, [block |-> 0, count |-> 0])
      need == (32 * JfsInode + JfsBlock(v) - 1) \div JfsBlock(v)
      at == extent.block * JfsBlock(v) + (number % 32) * JfsInode
  IN  IF extent.block = 0 \/ extent.count < need THEN <<>>
      ELSE SelectSeq(At(v.inodes, at, <<>>), LAMBDA i : i.number = number /\ i.links # 0)

JfsIsDirectory(v, inode) == inode.kind = "dir" \/ (JfsSuper(v).os2 /\ inode.kind = "os2dir")
JfsIsFile(inode) == inode.kind \in {"file", "link"}

-----------------------------------------------------------------------------
(* Directories.                                                            *)

(* decodeLeafEntry(): a name goes on in other slots, none of them twice.   *)
JfsName(v, node, slot) ==
  LET head == node.slots[slot]
      room == IF JfsSuper(v).indexed THEN 11 ELSE 13
      more == (Larger(0, head.units - room) + 14) \div 15
      piece[i \in 0..more] ==
        IF i = 0 THEN [name |-> head.piece, next |-> head.next, seen |-> {slot}, ok |-> TRUE]
        ELSE LET p == piece[i - 1]
             IN  IF ~p.ok \/ p.next \notin DOMAIN node.slots \/ p.next \in p.seen
                 THEN [p EXCEPT !.ok = FALSE]
                 ELSE [p EXCEPT !.name = @ \o node.slots[p.next].piece,
                                !.next = node.slots[p.next].next, !.seen = @ \cup {p.next}]
  IN  IF head.inode = 0 \/ head.units \notin 1..255 \/ ~piece[more].ok THEN "" ELSE piece[more].name

(* parseDtreeLeaf().                                                       *)
JfsLeafEntries(v, node, root) ==
  LET slots == SelectSeq(node.order, LAMBDA s : s \in DOMAIN node.slots)
      named == SelectSeq(slots, LAMBDA s : JfsName(v, node, s) \notin {"", ".", ".."})
  IN  IF ~node.fits \/ "leaf" \notin node.flags \/ (root /\ "root" \notin node.flags) THEN <<>>
      ELSE [i \in 1..Len(named) |-> [name |-> JfsName(v, node, named[i]),
                                     first |-> node.slots[named[i]].inode]]

(* readDtreePage(): the header's slot count sizes the page, or else the    *)
(* length in the pointer to it.                                            *)
JfsPageAt(v, block, hint) ==
  LET node == v.dpages[block]
      bytes == IF node.maxslot \in {16, 32, 64, 128} THEN node.maxslot * 32
               ELSE IF hint * JfsBlock(v) =< JfsPage THEN hint * JfsBlock(v) ELSE 0
  IN  IF block = 0 \/ block \notin DOMAIN v.dpages THEN <<>>
      ELSE IF bytes \in 512..JfsPage THEN <<node>> ELSE <<>>

JfsChildren(node, depth) ==
  LET slots == SelectSeq(node.order, LAMBDA s : s \in DOMAIN node.slots
                                                /\ node.slots[s].block # 0 /\ node.slots[s].count # 0)
  IN  [i \in 1..Len(slots) |-> [what |-> "page", block |-> node.slots[slots[i]].block,
                                hint |-> node.slots[slots[i]].count, depth |-> depth]]

(* collectDtreeNode() for one node.                                        *)
JfsRouter(v, w, node, root, depth) ==
  IF depth > 16 \/ (root /\ "root" \notin node.flags) THEN Skipped(w)
  ELSE IF "leaf" \in node.flags THEN Gather(Skipped(w), JfsLeafEntries(v, node, root))
  ELSE IF "internal" \notin node.flags \/ ~node.fits \/ node.order = <<>> THEN Skipped(w)
  ELSE [w EXCEPT !.todo = JfsChildren(node, depth + 1) \o Tail(@)]

(* descendToLeftmostLeaf() for one node; a sibling chain starts there.     *)
JfsDescend(v, w, here) ==
  LET node == here.node
      root == here.depth = 0
      slot == Head(node.order)
      child == node.slots[slot]
      page == JfsPageAt(v, child.block, child.count)
  IN  IF root /\ "root" \notin node.flags THEN Skipped(w)
      ELSE IF "leaf" \in node.flags
      THEN [w EXCEPT !.todo = <<[what |-> "sibling", node |-> node, trail |-> {}]>> \o Tail(@)]
      ELSE IF "internal" \notin node.flags \/ ~node.fits \/ node.order = <<>> \/ here.depth = 8
      THEN Skipped(w)
      ELSE IF slot \notin DOMAIN node.slots \/ child.block = 0 \/ child.count = 0
              \/ child.block \in here.trail \/ page = <<>>
      THEN Skipped(w)
      ELSE [w EXCEPT !.todo = <<[what |-> "descend", node |-> page[1], depth |-> here.depth + 1,
                                 trail |-> here.trail \cup {child.block}]>> \o Tail(@)]

(* The chain of siblings, a leaf at a time.                                *)
JfsSibling(v, w, here) ==
  LET page == JfsPageAt(v, here.node.next, 0)
      on == here.node.next # 0 /\ here.node.next \notin here.trail /\ page # <<>>
      known == here.trail \cup {here.node.next}
  IN  Gather([w EXCEPT !.todo =
                (IF on THEN <<[what |-> "sibling", node |-> page[1], trail |-> known]>> ELSE <<>>)
                \o Tail(@)],
             JfsLeafEntries(v, here.node, FALSE))

JfsDirStart(inode) ==
  Walk(<<[what |-> "root", node |-> inode.dtree, depth |-> 0],
         IF "leaf" \in inode.dtree.flags
         THEN [what |-> "root", node |-> inode.dtree, depth |-> 0]
         ELSE [what |-> "descend", node |-> inode.dtree, depth |-> 0, trail |-> {}]>>)

JfsDirTurn(v, w) ==
  LET here == Head(w.todo)
      page == JfsPageAt(v, here.block, here.hint)
      known == [w EXCEPT !.seen = @ \cup {here.block}]
      root == here.what = "root"
  IN  CASE here.what \in {"root", "page"} ->
             IF ~root /\ here.block \in w.seen THEN Skipped(w)
             ELSE IF ~root /\ page = <<>> THEN Skipped(known)
             ELSE JfsRouter(v, IF root THEN w ELSE known, IF root THEN here.node ELSE page[1],
                            root, here.depth)
        [] here.what = "descend" -> JfsDescend(v, w, here)
        [] here.what = "sibling" -> JfsSibling(v, w, here)

(* readDirectory() ends with each entry once.                              *)
JfsEntries(w) ==
  FoldLeft(LAMBDA seen, e : IF \E i \in 1..Len(seen) : seen[i] = e THEN seen ELSE Append(seen, e),
           <<>>, w.out)

JfsWholeDir(v, w) == JfsEntries(WholeWalk(w, LAMBDA x : JfsDirTurn(v, x)))

-----------------------------------------------------------------------------
(* scoreFilesetTree(): what an inode adds.                                 *)
JfsWorth(v, inode, entries) ==
  IF JfsIsDirectory(v, inode)
  THEN 16 + Smaller(Len(entries), 512) + (IF entries = <<>> THEN 0 ELSE 4)
  ELSE IF JfsIsFile(inode) THEN 12 + (IF inode.size # 0 THEN 1 ELSE 0) ELSE 6

JfsScored(v, w, here, inode, entries) ==
  LET fresh == SelectSeq(entries, LAMBDA e : here.depth < 4 /\ e.first \notin w.seen \cup {here.inode})
      below == [i \in 1..Len(fresh) |-> [inode |-> fresh[i].first, depth |-> here.depth + 1]]
  IN  [Visited(w, here.inode, below) EXCEPT !.score = @ + JfsWorth(v, inode, entries)]
JfsInodeScored(v, w, here, found) ==
  IF found = <<>> THEN [Visited(w, here.inode, <<>>) EXCEPT !.score = @ - 4]
  ELSE JfsScored(v, w, here, found[1],
                 IF JfsIsDirectory(v, found[1]) THEN JfsWholeDir(v, JfsDirStart(found[1])) ELSE <<>>)

(* A turn of its loop: an inode is visited once, none past 4096 of them.   *)
JfsScoreTurn(v, map, w) ==
  LET here == Head(w.todo)
  IN  IF Cardinality(w.seen) >= 4096 THEN Stopped(w)
      ELSE IF here.inode \in w.seen THEN Skipped(w)
      ELSE JfsInodeScored(v, w, here, JfsInodeAt(v, map, here.inode))

JfsScore(v, map) ==
  WholeWalk([todo |-> <<[inode |-> 2, depth |-> 0]>>, seen |-> {}, score |-> 0],
            LAMBDA w : JfsScoreTurn(v, map, w)).score

(* The copies that lead to a root directory.                               *)
JfsIsRoot(v, found) == found # <<>> /\ JfsIsDirectory(v, found[1])
JfsLeadsToRoot(v, map) == map # <<>> /\ JfsIsRoot(v, JfsInodeAt(v, map, 2))
JfsCandidates(v) ==
  {c \in {1, 2} :
     /\ c = 2 => JfsSuper(v).secondary # 0
     /\ JfsMapInode(v, c) # <<>>
     /\ JfsLeadsToRoot(v, JfsExtents(v, JfsMapInode(v, c)[1]))}

(* parse(): the first of the copies with the best tree.                    *)
JfsChosen(v) ==
  LET map(c) == JfsExtents(v, JfsMapInode(v, c)[1])
      best(worth) == CHOOSE c \in DOMAIN worth :
                       \A d \in DOMAIN worth : worth[d] < worth[c] \/ (worth[d] = worth[c] /\ c =< d)
      chosen(worth) == IF worth = <<>> THEN <<>> ELSE map(best(worth))
  IN  chosen([c \in JfsCandidates(v) |-> JfsScore(v, map(c))])

(* No copy of it usable, the volume is none.                               *)
JfsAccepts(v) == JfsSuperFits(v.supers[1]) \/ JfsSuperFits(v.supers[2])

-----------------------------------------------------------------------------
(* A mounted volume carries the chosen inode map.                          *)
JfsRoot(v) == [name |-> "", first |-> 2]
JfsNode(v, node) == JfsInodeAt(v, v.map, node.first)

(* resolvePath(): a name that leads to no inode ends the search.           *)
JfsFind(v, entries, name) ==
  LET hit == FirstWhere(entries, LAMBDA e : IF JfsSuper(v).os2 THEN Fold(e.name) = Fold(name)
                                            ELSE e.name = name)
  IN  IF hit = <<>> \/ JfsNode(v, hit[1]) = <<>> THEN <<>> ELSE hit

(* list(): directories first, then by name.                                *)
JfsListing(v, entries) ==
  LET usable(inode) == JfsIsDirectory(v, inode) \/ JfsIsFile(inode)
      item(name, dir, inode) == [name |-> name, dir |-> dir, size |-> IF dir THEN 0 ELSE inode.size]
      items(e) == LET found == SelectSeq(JfsNode(v, e), LAMBDA inode : usable(inode))
                  IN  [i \in 1..Len(found) |-> item(e.name, JfsIsDirectory(v, found[i]), found[i])]
  IN  SortSeq(FlattenSeq([i \in 1..Len(entries) |-> items(entries[i])]),
              LAMBDA a, b : \/ a.dir /\ ~b.dir
                            \/ a.dir = b.dir /\ NameRank[a.name] < NameRank[b.name])

(* inodeContent(): a short link is in its inode; the rest is mapped, and   *)
(* what is not, or not yet written, reads as zeros.                        *)
JfsReads(v, node, w, pos) ==
  LET inode == JfsNode(v, node)[1]
      at == CHOOSE a \in DOMAIN v.inodes : v.inodes[a] = <<inode>>
      block == pos \div JfsBlock(v)
      hit == FirstWhere(JfsInOrder(w.out), LAMBDA e : JfsCovers(e, block))
  IN  IF pos < 0 \/ pos >= inode.size THEN Nothing
      ELSE IF inode.kind = "link" /\ inode.size =< 256 /\ inode.blocks = 0 THEN at + 256 + pos
      ELSE IF hit = <<>> \/ ~hit[1].recorded THEN Zeros
      ELSE (hit[1].physical + (block - hit[1].logical)) * JfsBlock(v) + (pos % JfsBlock(v))
=============================================================================
