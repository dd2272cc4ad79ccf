----------------------------- MODULE ImageVolumes -----------------------------
(***************************************************************************)
(* The SquashFS and WIM readers (fs/SquashFsReader.cpp, fs/WimReader.cpp): *)
(* images of which the metadata and the data are compressed in pieces.     *)
(*                                                                         *)
(* `units` maps the place and length of compressed bytes to what they      *)
(* inflate to: [base, len], bytes named from `base` on.                    *)
(***************************************************************************)
EXTENDS Filesystems

(* A byte of a piece that is stored raw or packed.                         *)
Unpacked(v, at, len, raw, k) ==
  IF raw THEN IF k < len THEN at + k ELSE Nothing
  ELSE IF <<at, len>> \in DOMAIN v.units /\ k < v.units[<<at, len>>].len
       THEN v.units[<<at, len>>].base + k ELSE Nothing

-----------------------------------------------------------------------------
(* SquashFS.  `meta` maps a byte to the metadata block there: [next, len]. *)
(* `inodes`, `headers` and `records` say what starts at a block and an     *)
(* offset in it.                                                           *)

(* readMetaBytes(): the reference after so many bytes, none when a block   *)
(* is missing on the way.  The end of a block is not yet the next one.     *)
SquashAfter(v, table, ref, count) ==
  LET after[r \in [block : Int, offset : Nat], left \in Nat] ==
        LET at == table + r.block
            block == v.meta[at]
            n == Smaller(left, block.len - r.offset)
        IN  IF at \notin DOMAIN v.meta \/ r.offset >= block.len THEN <<>>
            ELSE IF n = left THEN <<[r EXCEPT !.offset = @ + n]>>
            ELSE after[[block |-> block.next - table, offset |-> 0], left - n]
  IN  after[ref, count]

(* What a reference names: past the end of a block, nothing is there.      *)
SquashAt(v, table, ref, count, what) ==
  IF SquashAfter(v, table, ref, count) = <<>> THEN <<>>
  ELSE At(what, <<table + ref.block, ref.offset>>, <<>>)

SquashSize(type) == IF type = 8 THEN 40 ELSE 32

(* readInode(): directories, plain and extended, plain files and links.    *)
SquashInode(v, ref) ==
  LET inode == SquashAt(v, v.inodeTable, ref, 16, v.inodes)
  IN  IF inode = <<>> \/ inode[1].type \notin {1, 2, 3, 8} THEN <<>>
      ELSE SquashAt(v, v.inodeTable, ref, SquashSize(inode[1].type), v.inodes)

SquashIsDirectory(inode) == inode.type \in {1, 8}

SquashAccepts(v) ==
  /\ v.signed /\ v.major = 4 /\ v.compression = 1 /\ v.noXattrs /\ v.block \in 1..2^20
  /\ SquashInode(v, v.root) # <<>> /\ SquashIsDirectory(SquashInode(v, v.root)[1])

(* readDirectory(): runs of records, each under a header that says how     *)
(* many follow and in which block their inodes are.                        *)
SquashTurn(v, size, w) ==
  LET here == Head(w.todo)
      header == SquashAt(v, v.dirTable, here.pos, 12, v.headers)[1]
      record == SquashAt(v, v.dirTable, here.pos, 8, v.records)[1]
      afterHead == SquashAfter(v, v.dirTable, here.pos, 12)
      afterName == SquashAfter(v, v.dirTable, here.pos, 8 + record.len)
      entry == [name |-> record.name, ref |-> [block |-> here.start, offset |-> record.offset]]
      on(next) == [w EXCEPT !.todo = <<next>>]
  IN  IF here.left = 0
      THEN IF \/ here.used + 12 >= size
              \/ SquashAt(v, v.dirTable, here.pos, 12, v.headers) = <<>>
              \/ header.count \notin 0..4096
           THEN Stopped(w)
           ELSE on([pos |-> afterHead[1], used |-> here.used + 12,
                    left |-> header.count + 1, start |-> header.start])
      ELSE IF here.used >= size THEN on([here EXCEPT !.left = 0])
      ELSE IF SquashAt(v, v.dirTable, here.pos, 8, v.records) = <<>> \/ afterName = <<>> THEN Stopped(w)
      ELSE Gather(on([here EXCEPT !.pos = afterName[1], !.used = @ + 8 + record.len, !.left = @ - 1]),
                  IF record.name \in {".", ".."} THEN <<>> ELSE <<entry>>)

SquashEntries(v, ref) ==
  LET inode == SquashInode(v, ref)
      first == [pos |-> [block |-> inode[1].start, offset |-> inode[1].offset], used |-> 0,
                left |-> 0, start |-> 0]
  IN  IF inode = <<>> \/ ~SquashIsDirectory(inode[1]) \/ inode[1].size = 0 THEN <<>>
      ELSE WholeWalk(Walk(<<first>>), LAMBDA w : SquashTurn(v, inode[1].size, w)).out

SquashRoot(v) == [name |-> "", ref |-> v.root]
SquashFind(entries, name) == FirstWhere(entries, LAMBDA e : e.name = name)

(* list(): an entry whose inode is of a kind not known is not shown.       *)
SquashListing(v, entries) ==
  LET shown == SelectSeq(entries, LAMBDA e : SquashInode(v, e.ref) # <<>>)
      item(e) == LET inode == SquashInode(v, e.ref)[1]
                 IN  [name |-> e.name, dir |-> SquashIsDirectory(inode),
                      size |-> IF SquashIsDirectory(inode) THEN 0 ELSE inode.size]
  IN  [i \in 1..Len(shown) |-> item(shown[i])]

(* readFragment(): the block that ends of files share.                     *)
SquashFragmentByte(v, key, k) ==
  LET f == v.fragments[key]
      tableBlocks == (v.fragmentCount * 16 + 8191) \div 8192
  IN  IF key \notin DOMAIN v.fragments \/ key \div 512 >= tableBlocks THEN Nothing
      ELSE Unpacked(v, f.at, f.len, f.raw, k)

(* SquashFileStore::read(): whole blocks one after the other, the end in a *)
(* fragment.  A link has no content.                                       *)
SquashReads(v, node, pos) ==
  LET inode == SquashInode(v, node.ref)[1]
      whole == Len(inode.blocks) * v.block
      b == (pos \div v.block) + 1
      starts == StartsOf(inode.blocks)
  IN  IF inode.type # 2 \/ pos \notin 0..inode.size - 1 THEN Nothing
      ELSE IF pos >= whole
      THEN SquashFragmentByte(v, inode.fragment, inode.fragmentOffset + pos - whole)
      ELSE Unpacked(v, inode.start + starts[b], inode.blocks[b].len, inode.blocks[b].raw, pos % v.block)

-----------------------------------------------------------------------------
(* WIM.  A resource is [at, packed, size, compressed, meta]; `chunks` maps *)
(* where a resource starts to the lengths of its chunks.  `lookup` is the  *)
(* table of resources with their hashes, `dirs` the directories by their   *)
(* offset in the metadata.                                                 *)

WimResources(v) == SelectSeq(v.lookup, LAMBDA r : ~r.meta)
WimResource(v, hash) ==
  LET hits == SelectSeq(WimResources(v), LAMBDA r : r.hash = hash)
  IN  IF hits = <<>> THEN <<>> ELSE <<Last(hits)>>

(* The first metadata resource is the image that is shown.                 *)
WimMeta(v) == SelectSeq(v.lookup, LAMBDA r : r.meta)
WimAccepts(v) == v.signed /\ WimMeta(v) # <<>> /\ WimMeta(v)[1].hash \in DOMAIN v.images
WimImage(v) == v.images[WimMeta(v)[1].hash]

(* directoryAt(): offset 0 is the root, which starts at the unnamed entry  *)
(* or where that entry points; a directory that ends does so at a zero.    *)
WimEntries(v, offset) ==
  LET image == WimImage(v)
      at == IF offset # 0 THEN offset
            ELSE IF image.rootSub # 0 THEN image.rootSub ELSE image.rootAt
      named == SelectSeq(At(image.dirs, at, <<>>), LAMBDA e : e.name # "")
      size(e) == IF e.dir \/ e.hash = "" \/ WimResource(v, e.hash) = <<>> THEN 0
                 ELSE WimResource(v, e.hash)[1].size
  IN  [i \in 1..Len(named) |-> [name |-> named[i].name, dir |-> named[i].dir, sub |-> named[i].sub,
                                hash |-> named[i].hash, size |-> size(named[i])]]

WimRoot(v) == [name |-> "", dir |-> TRUE, sub |-> 0, hash |-> "", from |-> 0]

(* entryForPath(): letters match without case.  Below an entry without     *)
(* children the search goes on where it was.                               *)
WimBelow(node) == IF node.sub # 0 THEN node.sub ELSE node.from
WimFind(v, node, name) ==
  LET hit == FirstWhere(WimEntries(v, WimBelow(node)), LAMBDA e : Fold(e.name) = Fold(name))
  IN  IF hit = <<>> THEN <<>> ELSE <<hit[1] @@ [from |-> WimBelow(node)]>>

(* list(): the children of a directory by its offset.                      *)
WimListing(v, node) ==
  LET entries == WimEntries(v, node.sub)
  IN  IF ~node.dir THEN <<>>
      ELSE [i \in 1..Len(entries) |-> [name |-> entries[i].name, dir |-> entries[i].dir,
                                       size |-> entries[i].size]]

(* WimChunkStore::read(): the chunk table comes before the chunks; a chunk *)
(* as long as what it holds is stored raw.                                 *)
WimReads(v, node, pos) ==
  LET r == WimResource(v, node.hash)[1]
      lengths == At(v.chunks, r.at, <<>>)
      starts == StartsOf([i \in 1..Len(lengths) |-> [len |-> lengths[i]]])
      c == (pos \div v.chunk) + 1
  IN  IF node.hash = "" \/ WimResource(v, node.hash) = <<>> \/ pos \notin 0..r.size - 1 THEN Nothing
      ELSE IF ~r.compressed THEN r.at + pos
      ELSE Unpacked(v, r.at + 4 * (Len(lengths) - 1) + starts[c], lengths[c],
                    lengths[c] = Smaller(v.chunk, r.size - (c - 1) * v.chunk), pos % v.chunk)
=============================================================================
