----------------------------- MODULE HpfsVolumes ------------------------------
(***************************************************************************)
(* The HPFS reader (fs/HpfsReader.cpp): the hotfix map that stands in for  *)
(* bad sectors, fnodes, the allocation tree of a file (anodes) and the     *)
(* directory tree (dnodes), whose entries hang between its branches.       *)
(*                                                                         *)
(* `fnodes`, `anodes` and `dnodes` say what a sector holds.  A tree node   *)
(* is [internal, items]; an item of a leaf is an extent, of an internal    *)
(* node the sector below.  A record of a dnode says whether its lengths    *)
(* fit the node; `down` is 0 where there is no branch.                     *)
(***************************************************************************)
EXTENDS Filesystems

HpfsSector == 512

(* loadHotfixMap(): pairs of a bad sector and its replacement, those of    *)
(* which both lie in the volume; a later pair of a sector replaces an      *)
(* earlier one.                                                            *)
HpfsHotfixes(v) ==
  LET m == v.hotfix
      usable == /\ v.spareOk /\ m.sector # 0 /\ m.total # 0 /\ m.used =< m.total
                /\ m.total =< 256 /\ m.sector < v.sectors /\ m.sector + 4 =< v.sectors
      pair(i) == m.from[i] \in 1..v.sectors - 1 /\ m.to[i] \in 1..v.sectors - 1
      good == {i \in 1..m.used : pair(i)}
  IN  IF ~usable THEN [s \in {} |-> 0]
      ELSE [s \in {m.from[i] : i \in good} |->
             m.to[CHOOSE i \in good : m.from[i] = s /\ \A j \in good : m.from[j] = s => j =< i]]

(* remapSector() and readSectors(): sectors are read through the map.      *)
HpfsRemap(v, s) == At(HpfsHotfixes(v), s, s)
HpfsHolds(v, table, s, n) == s < v.sectors /\ n =< v.sectors - s /\ HpfsRemap(v, s) \in DOMAIN table

HpfsFnodeValid(v, s) == s # 0 /\ HpfsHolds(v, v.fnodes, s, 1)
HpfsFnode(v, s) == v.fnodes[HpfsRemap(v, s)]

-----------------------------------------------------------------------------
(* The allocation tree: parseBplusNode() for one node.                     *)

HpfsFits(node, leafRoom, innerRoom) ==
  Len(node.items) =< IF node.internal THEN innerRoom ELSE leafRoom

HpfsExtents(v, items) ==
  SelectSeq(items, LAMBDA e : /\ e.count # 0 /\ e.physical \in 1..v.sectors - 1
                              /\ e.count =< v.sectors - e.physical)

HpfsFileStart(v, f) == Walk(<<[sector |-> 0, fnode |-> f, depth |-> 0]>>)

HpfsFileTurn(v, w) ==
  LET here == Head(w.todo)
      root == here.sector = 0
      sound == /\ here.depth =< 32
               /\ root \/ /\ here.sector \in 1..v.sectors - 1 /\ here.sector \notin w.seen
                          /\ HpfsHolds(v, v.anodes, here.sector, 1)
                          /\ v.anodes[HpfsRemap(v, here.sector)].self = here.sector
      node == IF root THEN HpfsFnode(v, here.fnode).tree
              ELSE v.anodes[HpfsRemap(v, here.sector)].tree
      below == [i \in 1..Len(node.items) |->
                 [sector |-> node.items[i], fnode |-> 0, depth |-> here.depth + 1]]
      known == IF root THEN w ELSE [w EXCEPT !.seen = @ \cup {here.sector}]
  IN  IF ~sound \/ ~(IF root THEN HpfsFits(node, 8, 12) ELSE HpfsFits(node, 40, 60))
      THEN Skipped(known)
      ELSE IF node.internal
           THEN [known EXCEPT !.todo = SelectSeq(below, LAMBDA b : b.sector # 0) \o Tail(@)]
           ELSE Gather(Skipped(known), HpfsExtents(v, node.items))

(* fnodeExtents(): in logical order, an overlapping one is dropped and one *)
(* that continues its predecessor is joined to it.                         *)
HpfsJoin(clean, e) ==
  LET back == Last(clean)
      end == back.logical + back.count
  IN  IF clean = <<>> THEN <<e>>
      ELSE IF e.logical < end THEN clean
      ELSE IF e.logical = end /\ e.physical = back.physical + back.count
      THEN [clean EXCEPT ![Len(clean)].count = @ + e.count]
      ELSE Append(clean, e)

HpfsOrdered(extents) ==
  FoldLeft(HpfsJoin, <<>>,
           SortSeq(extents, LAMBDA a, b : \/ a.logical < b.logical
                                          \/ a.logical = b.logical /\ a.physical < b.physical))

(* Mutant of HpfsReads: a sector is read where it is, bad or not.          *)
HpfsReadsUnfixed(v, node, w, pos) ==
  LET size == IF node.size # 0 THEN node.size ELSE HpfsFnode(v, node.first).size
      extents == HpfsOrdered(w.out)
      s == pos \div HpfsSector
      found == FirstWhere(extents, LAMBDA e : s \in e.logical..e.logical + e.count - 1)
  IN  IF pos < 0 \/ pos >= size \/ extents = <<>> THEN Nothing
      ELSE IF found = <<>> THEN Zeros
      ELSE (found[1].physical + (s - found[1].logical)) * HpfsSector + (pos % HpfsSector)

(* fileContent() and the extent store it makes: gaps read as zeros, bad    *)
(* sectors through the map.                                                *)
HpfsReads(v, node, w, pos) ==
  LET size == IF node.size # 0 THEN node.size ELSE HpfsFnode(v, node.first).size
      extents == HpfsOrdered(w.out)
      s == pos \div HpfsSector
      found == FirstWhere(extents, LAMBDA e : s \in e.logical..e.logical + e.count - 1)
  IN  IF pos < 0 \/ pos >= size \/ extents = <<>> THEN Nothing
      ELSE IF found = <<>> THEN Zeros
      ELSE HpfsRemap(v, found[1].physical + (s - found[1].logical)) * HpfsSector + (pos % HpfsSector)

-----------------------------------------------------------------------------
(* The directory tree.                                                     *)

(* directoryRootDnode(): the first allocation entry is taken as the root   *)
(* dnode when one is there; otherwise the first extent that may be.        *)
HpfsRootDnode(v, s) ==
  LET f == HpfsFnode(v, s)
      direct == /\ f.direct >= 18 /\ f.direct + 4 =< v.sectors
                /\ HpfsHolds(v, v.dnodes, f.direct, 4)
      flat == IF ~f.tree.internal /\ HpfsFits(f.tree, 8, 12)
              THEN HpfsOrdered(HpfsExtents(v, f.tree.items)) ELSE <<>>
      maybe == FirstWhere(flat, LAMBDA e : e.physical >= 18 /\ e.physical + 4 =< v.sectors)
  IN  IF direct THEN f.direct ELSE IF maybe = <<>> THEN 0 ELSE maybe[1].physical

HpfsDirStart(v, node) ==
  LET s == node.first
      root == IF HpfsFnodeValid(v, s) /\ (node.dir \/ HpfsFnode(v, s).directory)
              THEN HpfsRootDnode(v, s) ELSE 0
  IN  Walk(IF root = 0 THEN <<>> ELSE <<[dnode |-> root, depth |-> 0]>>)

(* The records up to the first that does not fit.                          *)
HpfsRecords(records) ==
  LET bad == {i \in 1..Len(records) : ~records[i].fits}
  IN  IF bad = {} THEN records
      ELSE SubSeq(records, 1, (CHOOSE i \in bad : \A j \in bad : i =< j) - 1)

(* A branch comes before the record it hangs from.                         *)
HpfsUnfold(records, depth) ==
  FlattenSeq([i \in 1..Len(records) |->
    (IF records[i].down = 0 THEN <<>> ELSE <<[dnode |-> records[i].down, depth |-> depth]>>)
    \o (IF records[i].bound THEN <<>> ELSE <<[dnode |-> 0, record |-> records[i]]>>)])

(* An entry learns from its fnode what its record does not say.            *)
HpfsEntry(v, r) ==
  LET known == HpfsFnodeValid(v, r.fnode)
      f == HpfsFnode(v, r.fnode)
  IN  [name |-> r.name, first |-> r.fnode,
       dir |-> r.dir \/ (known /\ f.directory),
       size |-> IF r.size = 0 /\ known THEN f.size ELSE r.size]

(* walkDnode() for one dnode or one record of it.                          *)
HpfsDirTurn(v, w) ==
  LET here == Head(w.todo)
      near == here.depth =< 64 /\ here.dnode \in 1..v.sectors - 1 /\ here.dnode \notin w.seen
      sound == HpfsHolds(v, v.dnodes, here.dnode, 4) /\ v.dnodes[HpfsRemap(v, here.dnode)].free \in 20..2048
      node == v.dnodes[HpfsRemap(v, here.dnode)]
      e == HpfsEntry(v, here.record)
      again == \E i \in 1..Len(w.out) : w.out[i].first = e.first /\ w.out[i].name = e.name
  IN  IF here.dnode = 0
      THEN IF e.name = "" \/ e.first \notin 1..v.sectors - 1 \/ again THEN Skipped(w)
           ELSE Gather(Skipped(w), <<e>>)
      ELSE IF ~near THEN Skipped(w)
      ELSE Visited(w, here.dnode,
                   IF sound THEN HpfsUnfold(HpfsRecords(node.records), here.depth + 1) ELSE <<>>)

HpfsRoot(v) == [name |-> "", dir |-> TRUE, first |-> v.rootFnode, size |-> 0]
HpfsFind(entries, name) == FirstWhere(entries, LAMBDA e : Fold(e.name) = Fold(name))

(* parse().                                                                *)
HpfsAccepts(v) ==
  /\ v.available >= 18 /\ v.superOk
  /\ v.rootFnode \in 20..v.available - 1 /\ v.sectors \in 20..v.available
  /\ HpfsFnodeValid(v, v.rootFnode) /\ HpfsRootDnode(v, v.rootFnode) # 0
=============================================================================
