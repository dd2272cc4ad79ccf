---------------------------- MODULE HfsPlusVolumes ----------------------------
(***************************************************************************)
(* The HFS+ reader (fs/HfsPlusReader.cpp): the catalog file, whose leaves  *)
(* are all read at mount along their forward links, and forks of at most   *)
(* eight extents.                                                          *)
(*                                                                         *)
(* `nodes` maps a byte of the volume to the catalog node there: its        *)
(* forward link, its kind and its records, a record saying whether its     *)
(* lengths fit the node.  HfsGuard is the bound of the loop over leaves,   *)
(* 100000 in the source.                                                   *)
(***************************************************************************)
EXTENDS Filesystems

CONSTANTS HfsGuard

HfsCovered(v, fork) ==
  FoldLeft(LAMBDA sum, e : sum + e.count * v.block, 0, fork.extents)

(* forkStore(): a fork that needs the extents overflow file is none.       *)
HfsForkWhole(v, fork) == fork.size =< HfsCovered(v, fork)

(* ExtentStore::read(): the extents up to the first empty one.             *)
HfsForkAt(v, fork, pos) ==
  LET empty == {i \in 1..Len(fork.extents) : fork.extents[i].count = 0}
      used == IF empty = {} THEN fork.extents
              ELSE SubSeq(fork.extents, 1, (CHOOSE i \in empty : \A j \in empty : i =< j) - 1)
  IN  HostAt([i \in 1..Len(used) |-> Part(used[i].start * v.block, used[i].count * v.block)],
             fork.size, pos)

(* readNode(): a node wholly in the catalog file.                          *)
HfsNode(v, number) ==
  IF (number + 1) * v.node > v.catalog.size THEN <<>>
  ELSE At(v.nodes, HfsForkAt(v, v.catalog, number * v.node), <<>>)

HfsAccepts(v) ==
  /\ v.capacity >= 1536 /\ v.signed
  /\ v.block \in {512, 1024, 2048, 4096} /\ v.total # 0
  /\ v.total * v.block =< v.capacity + v.block
  /\ v.catalog.size # 0 /\ v.catalog.extents # <<>> /\ v.catalog.extents[1].count # 0
  /\ HfsForkWhole(v, v.catalog)
  /\ v.headerOk /\ v.node >= 512 /\ v.firstLeaf # 0 /\ v.depth # 0

(* parse(): the leaves, in order; a turn for each.                         *)
HfsLeafStart(v) == [Walk(<<v.firstLeaf>>) EXCEPT !.seen = 0]

HfsLeafEntries(node) ==
  LET shown == SelectSeq(node.records,
                 LAMBDA r : r.fits /\ r.name # "" /\ r.kind \in {"folder", "file"})
  IN  [i \in 1..Len(shown) |->
        [parent |-> shown[i].parent, name |-> shown[i].name, dir |-> shown[i].kind = "folder",
         id |-> shown[i].id, fork |-> shown[i].fork,
         size |-> IF shown[i].kind = "folder" THEN 0 ELSE shown[i].fork.size]]

(* A node that cannot be read ends the chain; one that is no leaf is       *)
(* passed over.                                                            *)
HfsLeafTurn(v, w) ==
  LET found == HfsNode(v, Head(w.todo))
      node == found[1]
  IN  IF Head(w.todo) = 0 \/ w.seen >= HfsGuard \/ found = <<>> THEN Stopped(w)
      ELSE [w EXCEPT !.todo = <<node.forward>>, !.seen = @ + 1,
                     !.out = IF node.kind = -1 THEN @ \o HfsLeafEntries(node) ELSE @]

(* A mounted volume carries its children.                                  *)
HfsRoot(v) == [name |-> "", dir |-> TRUE, id |-> 2, size |-> 0]
HfsEntries(v, node) == SelectSeq(v.children, LAMBDA e : e.parent = node.id)
HfsFind(entries, name) == FirstWhere(entries, LAMBDA e : e.name = name)

HfsReads(v, node, pos) ==
  IF node.dir \/ ~HfsForkWhole(v, node.fork) THEN Nothing ELSE HfsForkAt(v, node.fork, pos)
=============================================================================
