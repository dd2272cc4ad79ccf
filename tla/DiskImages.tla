------------------------------ MODULE DiskImages ------------------------------
(***************************************************************************)
(* The virtual disk images the opener mounts and where their readers look  *)
(* for a byte of the guest disk: QCOW, VHD, VHDX, VMDK, VDI, Parallels and *)
(* DMG.  An image is a record with the fields of its format; its file      *)
(* announces `capacity' bytes and holds the first `held' of them (fewer    *)
(* when the image lies in a store that is cut short).                      *)
(*                                                                         *)
(* A place is what one turn of a read loop decides: where the next n bytes *)
(* come from.  Header fields are kept when a check or an offset depends on *)
(* them; signatures, checksums, lengths of headers and limits on the size  *)
(* of a table are the flag `sound' of what they guard.                     *)
(***************************************************************************)
EXTENDS Integers, Sequences, FiniteSets, Functions

CONSTANTS
  Sector, Word,         \* bytes of a sector, and of an L1 or L2 entry of QCOW
  Clusters,             \* cluster sizes QCOW may have, and those it may
  WideClusters,         \*   have with extended L2 entries
  Subclusters,          \* subclusters of an extended L2 entry
  BitmapBits,           \* sectors one byte of a VHD bitmap stands for
  ChunkSectors,         \* logical sectors of a VHDX chunk
  MiB                   \* the unit of a VHDX payload offset

ASSUME DiskImagesAssumption ==
  /\ {Sector, Word, Subclusters, BitmapBits, ChunkSectors, MiB} \subseteq Nat \ {0}
  /\ Clusters \subseteq Nat \ {0} /\ WideClusters \subseteq Clusters
  /\ \A c \in WideClusters : c % Subclusters = 0

Least(a, b) == IF a < b THEN a ELSE b
CeilDiv(a, b) == (a + b - 1) \div b
RangeInside(a, n, total) == a =< total /\ n =< total - a

(* The bytes of a file, told apart by the file and their address; 0 is a   *)
(* zero byte, and what a reader of a file that is cut short makes of it.   *)
HostByte(base, held, a) == IF a \in 0..held - 1 THEN base + a + 1 ELSE 0

NoBytes == [x \in {} |-> 0]

(* A byte of an inflated unit, and zeros past its end.                     *)
UnitByte(bytes, o) == IF o \in DOMAIN bytes THEN bytes[o] ELSE 0

(* A byte of a window; -1 outside what the file holds, where reads end.    *)
WindowByte(f, a) == IF a \in 0..f.held - 1 THEN HostByte(f.base, f.held, a) ELSE -1

Place == [from |-> "nowhere", base |-> 0, held |-> 0, at |-> 0, key |-> 0, n |-> 0]

Zeros(n) == [Place EXCEPT !.from = "zeros", !.n = n]
Host(d, a, n) ==
  [Place EXCEPT !.from = "file", !.base = d.base, !.held = d.held, !.at = a, !.n = n]
Unit(k, in, n) == [Place EXCEPT !.from = "unit", !.key = k, !.at = in, !.n = n]
Nowhere == Place

(* Mutant of Window: outside the file it answers nothing and lets the loop *)
(* go on.                                                                  *)
WindowWaits(d, a, n) ==
  Host(d, a, IF a \in 0..d.held - 1 THEN Least(n, d.held - a) ELSE 0)

(* A window answers what the file holds of it, and nothing past that or    *)
(* before its first byte.                                                  *)
Window(d, a, n) ==
  IF a \in 0..d.held - 1 THEN Host(d, a, Least(n, d.held - a)) ELSE Nowhere

-----------------------------------------------------------------------------
(* QCOW: a guest cluster is found through an L1 table of L2 tables.        *)

L2Entries(d) ==
  IF d.version = 1 THEN d.l2Entries
  ELSE d.cluster \div (IF d.extended THEN 2 * Word ELSE Word)
L2Bytes(d) == IF d.version = 1 THEN L2Entries(d) * Word ELSE d.cluster

(* Version 1 has no L1 size in its header: it is what the disk needs.      *)
L1Size(d) ==
  IF d.version = 1 THEN CeilDiv(d.size, d.cluster * d.l2Entries) ELSE d.l1Size

(* readHeader: a version it knows and no feature it does not support       *)
(* (encryption, a backing or data file, another compression, corruption).  *)
QcowHeaderOK(d) == d.sound /\ d.version \in 1..3 /\ d.unsupported = {}

(* validateCommonHeader: the L1 table lies in the file and covers the disk.*)
QcowGeometryOK(d) ==
  LET needed == CeilDiv(CeilDiv(d.size, d.cluster), L2Entries(d))
  IN  /\ d.size > 0
      /\ d.cluster \in (IF d.extended THEN WideClusters ELSE Clusters)
      /\ L1Size(d) > 0 /\ d.l1At # 0
      /\ d.version # 1 => d.l1At % d.cluster = 0
      /\ RangeInside(d.l1At, L1Size(d) * Word, d.capacity)
      /\ L2Entries(d) > 0 /\ needed =< L1Size(d)

(* loadL1: every L2 table there is starts a cluster and lies in the file.  *)
QcowTablesOK(d) ==
  \A i \in 0..L1Size(d) - 1 : d.l1[i] # 0 =>
    d.l1[i] % d.cluster = 0 /\ RangeInside(d.l1[i], L2Bytes(d), d.capacity)

QcowAccepts(d) == QcowHeaderOK(d) /\ QcowGeometryOK(d) /\ QcowTablesOK(d)

(* The offset of the L2 table that maps a guest byte; 0 when there is none.*)
L2At(d, p) ==
  LET i == (p \div d.cluster) \div L2Entries(d)
  IN  IF i >= L1Size(d) THEN 0 ELSE d.l1[i]

(* Mutant of QcowPlace: a chunk ends with its cluster, however little is   *)
(* left to read.                                                           *)
QcowPlaceWholeCluster(d, p, n, table) ==
  LET in == p % d.cluster
      e == table[(p \div d.cluster) % L2Entries(d)]
  IN  IF e.packed THEN Unit(e.host, in, d.cluster - in) ELSE Host(d, e.host + in, d.cluster - in)

(* One turn of QcowStore::read, with the L2 table lookup found.            *)
QcowPlace(d, p, n, table) ==
  LET in == p % d.cluster
      chunk == Least(n, d.cluster - in)
      e == table[(p \div d.cluster) % L2Entries(d)]
      width == d.cluster \div Subclusters
      inside == Least(chunk, width - (in % width))
      AtHost(size) ==
        IF e.host # 0 /\ RangeInside(e.host + in, size, d.capacity)
          THEN Host(d, e.host + in, size) ELSE Zeros(size)
  IN  CASE e.packed -> Unit(e.host, in, chunk)
        [] ~e.packed /\ d.extended ->
             IF e.map[in \div width] = "allocated" THEN AtHost(inside) ELSE Zeros(inside)
        [] ~e.packed /\ ~d.extended ->
             IF d.version >= 3 /\ e.zero THEN Zeros(chunk) ELSE AtHost(chunk)

-----------------------------------------------------------------------------
(* VHD: the footer at the end of the file or, when it is damaged, its copy *)
(* at the start; a dynamic disk has a bitmap of sectors before each block. *)

NoFooter == [sound |-> FALSE, size |-> 0, type |-> 0]

VhdFooter(d) ==
  IF d.capacity < Sector THEN NoFooter
  ELSE IF d.last.sound /\ d.last.size > 0 THEN d.last
  ELSE IF d.first.sound /\ d.first.size > 0 THEN d.first ELSE NoFooter

VhdFixed(d) == VhdFooter(d).type = 2
VhdSize(d) ==
  IF VhdFixed(d) THEN Least(VhdFooter(d).size, d.capacity - Sector) ELSE VhdFooter(d).size

(* readHeaderAndBat.                                                       *)
VhdTableOK(d) ==
  d.sound /\ d.entries > 0 /\ d.block > 0 /\ d.tableAt + 4 * d.entries =< d.capacity

(* A differencing disk (type 4) is read like a dynamic one.                *)
VhdAccepts(d) ==
  /\ VhdFooter(d).sound
  /\ \/ VhdFixed(d) /\ VhdSize(d) > 0
     \/ VhdFooter(d).type \in {3, 4} /\ VhdTableOK(d)

VhdBitmapBytes(d) ==
  CeilDiv(CeilDiv(d.block, Sector * BitmapBits), Sector) * Sector

(* A block whose bitmap lies past the end of the file has no sectors.      *)
VhdBitmapInside(d, b) == RangeInside(d.bat[b] * Sector, VhdBitmapBytes(d), d.capacity)
VhdBitmap(d, b) == IF VhdBitmapInside(d, b) THEN d.bitmaps[b] ELSE {}

VhdPlace(d, p, n, marked) ==
  LET sector == (p % d.block) \div Sector
      in == (p % d.block) % Sector
      chunk == Least(n, Sector - in)
  IN  IF sector \in marked
        THEN Host(d, d.bat[p \div d.block] * Sector + VhdBitmapBytes(d) + sector * Sector + in, chunk)
        ELSE Zeros(chunk)

VhdMaps(d, b) == b < d.entries /\ d.bat[b] # -1

-----------------------------------------------------------------------------
(* VHDX: the sound header of the greatest sequence number, the first sound *)
(* region table, and a table of blocks where every chunk of data blocks is *)
(* followed by an entry for its bitmap block.                              *)

VhdxActive(d) ==
  IF d.second.sound /\ (~d.first.sound \/ d.second.sequence > d.first.sequence)
    THEN d.second ELSE d.first

VhdxRegion(d) == IF d.region1.sound THEN d.region1 ELSE d.region2

VhdxBlocks(d) == CeilDiv(d.size, d.block)
VhdxRatio(d) == (ChunkSectors * d.sector) \div d.block

(* Mutant of VhdxEntries: the entries of the bitmap blocks are not counted.*)
VhdxEntriesOfData(d) == VhdxBlocks(d)

VhdxEntries(d) == VhdxBlocks(d) + (VhdxBlocks(d) - 1) \div VhdxRatio(d)

VhdxLayoutOK(d) ==
  /\ d.sound /\ (d.first.sound \/ d.second.sound) /\ ~VhdxActive(d).log
  /\ VhdxRegion(d).sound

VhdxMetadataOK(d) == ~d.differencing /\ d.size > 0 /\ d.block > 0 /\ d.sector > 0

VhdxTableOK(d) == VhdxRatio(d) > 0 /\ VhdxEntries(d) =< VhdxRegion(d).batEntries

VhdxAccepts(d) == VhdxLayoutOK(d) /\ VhdxMetadataOK(d) /\ VhdxTableOK(d)

(* readBat: where the entry of a data block is in the table of the file.   *)
VhdxIndex(d, b) ==
  LET ratio == VhdxRatio(d) IN (b \div ratio) * (ratio + 1) + (b % ratio)

VhdxPlace(d, p, n) ==
  LET b == p \div d.block
      chunk == Least(n, d.block - (p % d.block))
      e == VhdxRegion(d).bat[VhdxIndex(d, b)]
  IN  IF b < VhdxBlocks(d) /\ e.state = "full"
        THEN Host(d, e.at * MiB + (p % d.block), chunk) ELSE Zeros(chunk)

-----------------------------------------------------------------------------
(* VDI and Parallels: one table of blocks.                                 *)

VdiBlocksAt(d) == IF d.major = 0 THEN d.headerBytes ELSE d.blocksAt
VdiDataAt(d) == IF d.major = 0 THEN VdiBlocksAt(d) + 4 * d.entries ELSE d.dataAt
VdiExtra(d) == IF d.major = 0 THEN 0 ELSE d.extra

VdiAccepts(d) ==
  /\ d.sound /\ d.major \in {0, 1} /\ d.type \in {1, 2}
  /\ d.size > 0 /\ d.block > 0 /\ VdiExtra(d) >= 0 /\ d.entries > 0
  /\ VdiBlocksAt(d) # 0 /\ VdiDataAt(d) # 0
  /\ VdiBlocksAt(d) + 4 * d.entries =< d.capacity

(* A block of the table is a number of physical blocks, or free or zero.   *)
VdiPlace(d, p, n) ==
  LET b == p \div d.block
      in == p % d.block
      chunk == Least(n, d.block - in)
  IN  IF b < d.entries /\ d.table[b] \notin {-1, -2}
        THEN Host(d, VdiDataAt(d) + d.table[b] * (d.block + VdiExtra(d)) + VdiExtra(d) + in, chunk)
        ELSE Zeros(chunk)

ParallelsAccepts(d) ==
  /\ d.sound /\ d.tracks > 0 /\ d.entries > 0 /\ d.size > 0
  /\ d.tableAt + 4 * d.entries =< d.capacity

(* The extended variant counts clusters where the classic one has sectors. *)
ParallelsPlace(d, p, n) ==
  LET cluster == d.tracks * Sector
      b == p \div cluster
      chunk == Least(n, cluster - (p % cluster))
  IN  IF b < d.entries /\ d.bat[b] # 0
        THEN Host(d, d.bat[b] * (IF d.ext THEN cluster ELSE Sector) + (p % cluster), chunk)
        ELSE Zeros(chunk)

-----------------------------------------------------------------------------
(* VMDK: a sparse extent has a directory of grain tables, which are read   *)
(* from the file at each turn; a streamOptimized extent is a stream of     *)
(* markers; a descriptor lists extents.                                    *)

GrainTables(d) == CeilDiv(d.sectors, d.grain * d.perTable)

SparseAccepts(d) ==
  /\ d.sound /\ d.grain > 0 /\ d.perTable > 0 /\ d.sectors > 0 /\ d.directoryAt > 0
  /\ RangeInside(d.directoryAt * Sector, GrainTables(d) * 4, d.capacity)

(* The sector of the grain a guest byte lies in; 0 when it has none.       *)
SparseGrain(d, p) ==
  LET sector == p \div Sector
      gt == sector \div (d.grain * d.perTable)
      g == (sector - gt * d.grain * d.perTable) \div d.grain
      table == d.directory[gt]
  IN  IF gt >= GrainTables(d) \/ table = 0 \/ table * Sector + 4 * g + 4 > d.held
        THEN 0 ELSE d.tables[table][g]

SparsePlace(d, p, n) ==
  LET bytes == d.grain * Sector
      chunk == Least(n, bytes - (p % bytes))
      start == SparseGrain(d, p)
  IN  IF start = 0 THEN Zeros(chunk) ELSE Host(d, start * Sector + (p % bytes), chunk)

(* buildIndex: a marker with a size is followed by a compressed grain; the *)
(* last of two for one grain counts; metadata markers are skipped.         *)
StreamIndex(d) ==
  LET ends == {i \in DOMAIN d.markers : d.markers[i].what = "end"}
      length == IF ends = {} THEN Len(d.markers)
                ELSE CHOOSE i \in ends : \A j \in ends : i =< j
      grains == {i \in 1..length : d.markers[i].what = "grain"}
      GrainOf(i) == d.markers[i].sector \div d.grain
  IN  [g \in {GrainOf(i) : i \in grains} |->
        CHOOSE i \in grains : GrainOf(i) = g /\ \A j \in grains : GrainOf(j) = g => j =< i]

(* The grain of an index: of no bytes when it is missing or damaged.       *)
StreamBytes(d, k) ==
  LET index == StreamIndex(d)
  IN  IF k \in DOMAIN index THEN d.packs[index[k]] ELSE NoBytes

(* The walk ends well only at an end marker, with no unknown one before.   *)
StreamAccepts(d) ==
  /\ d.sound /\ d.grain > 0 /\ d.sectors > 0 /\ d.overhead > 0
  /\ \E i \in DOMAIN d.markers :
       /\ d.markers[i].what = "end"
       /\ \A j \in 1..i - 1 : d.markers[j].what \in {"grain", "metadata"}

StreamPlace(d, p, n) ==
  LET bytes == d.grain * Sector
  IN  Unit(p \div bytes, p % bytes, Least(n, bytes - (p % bytes)))

(* openVmdkExtent: a header of compressed grains makes a stream of them.   *)
KdmvAccepts(f) == IF f.kind = "stream" THEN StreamAccepts(f) ELSE SparseAccepts(f)

KdmvPlace(f, p, n) == IF f.kind = "stream" THEN StreamPlace(f, p, n) ELSE SparsePlace(f, p, n)

(* openVmdkDisk over a descriptor: every extent is zeros, a KDMV extent or *)
(* a window of a flat file that lies inside it; one that fails to open     *)
(* fails the disk, and lines of no sectors are passed over.                *)
Extents(d) == {i \in DOMAIN d.lines : d.lines[i].sectors > 0}

ExtentAccepts(e) ==
  CASE e.type = "ZERO"              -> TRUE
    [] e.type = "SPARSE"            -> e.found /\ KdmvAccepts(e.image)
    [] e.type \in {"FLAT", "VMFS"}  ->
         /\ e.found /\ e.offset >= 0 /\ e.offset =< e.image.capacity \div Sector
         /\ e.sectors * Sector =< e.image.capacity - e.offset * Sector
    [] OTHER                        -> FALSE

DescriptorAccepts(d) ==
  d.sound /\ Extents(d) # {} /\ \A i \in Extents(d) : ExtentAccepts(d.lines[i])

ExtentSize(e) ==
  IF e.sectors =< 0 THEN 0
  ELSE (IF e.type = "SPARSE" THEN e.image.sectors ELSE e.sectors) * Sector

(* Where the extent of a line ends in the concatenation of all.            *)
ExtentEnd(d, i) ==
  LET end[k \in 0..Len(d.lines)] == IF k = 0 THEN 0 ELSE end[k - 1] + ExtentSize(d.lines[k])
  IN  end[i]

DescriptorSize(d) == ExtentEnd(d, Len(d.lines))

(* The line of the extent a guest byte lies in.                            *)
ExtentAt(d, p) ==
  CHOOSE i \in Extents(d) : ExtentEnd(d, i - 1) =< p /\ p < ExtentEnd(d, i)

ExtentPlace(d, p, n) ==
  LET k == ExtentAt(d, p)
      e == d.lines[k]
      in == p - ExtentEnd(d, k - 1)
      rest == Least(n, ExtentSize(e) - in)
  IN  CASE e.type = "ZERO"   -> Zeros(rest)
        [] e.type = "SPARSE" -> KdmvPlace(e.image, in, rest)
        [] OTHER             -> Window(e.image, e.offset * Sector + in, rest)

-----------------------------------------------------------------------------
(* DMG: the first run that covers a sector; raw runs answer what the file  *)
(* holds of them, and a byte no run covers is zero.                        *)

DmgSkips == {"none", "comment", "terminator"}

DmgRun(d, p) ==
  LET s == p \div Sector
      covers == {i \in DOMAIN d.runs : /\ d.runs[i].type \notin DmgSkips
                                       /\ d.runs[i].start =< s
                                       /\ s < d.runs[i].start + d.runs[i].sectors}
  IN  IF covers = {} THEN 0 ELSE CHOOSE i \in covers : \A j \in covers : i =< j

DmgPlace(d, p, n) ==
  LET k == DmgRun(d, p)
      r == d.runs[k]
      in == p - r.start * Sector
      rest == Least(n, r.sectors * Sector - in)
  IN  CASE k = 0                       -> Zeros(1)
        [] k # 0 /\ r.type = "zeros"   -> Zeros(rest)
        [] k # 0 /\ r.type = "raw"     ->
             Window(d, r.at + in, rest)
        [] k # 0 /\ r.type = "zlib"    -> Unit(k, in, rest)
        [] OTHER                       -> Nowhere

-----------------------------------------------------------------------------
Kinds == {"qcow", "vhd", "vhdx", "vdi", "parallels", "sparse", "stream", "descriptor", "dmg"}

Accepts(d) ==
  CASE d.kind = "qcow"       -> QcowAccepts(d)
    [] d.kind = "vhd"        -> VhdAccepts(d)
    [] d.kind = "vhdx"       -> VhdxAccepts(d)
    [] d.kind = "vdi"        -> VdiAccepts(d)
    [] d.kind = "parallels"  -> ParallelsAccepts(d)
    [] d.kind = "sparse"     -> SparseAccepts(d)
    [] d.kind = "stream"     -> StreamAccepts(d)
    [] d.kind = "descriptor" -> DescriptorAccepts(d)
    [] d.kind = "dmg"        -> d.sectors >= 0

(* The size of the guest disk, as the store announces it.                  *)
GuestSize(d) ==
  CASE d.kind = "vhd"                         -> VhdSize(d)
    [] d.kind = "parallels"                   -> d.size * Sector
    [] d.kind \in {"sparse", "stream", "dmg"} -> d.sectors * Sector
    [] d.kind = "descriptor"                  -> DescriptorSize(d)
    [] OTHER                                  -> d.size
-----------------------------------------------------------------------------
(* What the fields of an image are, before and after it was accepted: the  *)
(* numbers of its header, the entries of its tables, the bytes of what it  *)
(* inflates to.                                                            *)
Bytes(f) == \A x \in DOMAIN f : f[x] \in Nat

FileTyped(d) == d.capacity \in Nat /\ d.held \in 0..d.capacity /\ d.base \in Nat

QcowTyped(d) ==
  /\ {d.version, d.cluster, d.l2Entries, d.size, d.l1Size} \subseteq Nat
  /\ QcowAccepts(d) => \A i \in 0..L1Size(d) - 1 :
       /\ d.l1[i] \in Nat
       /\ d.l1[i] # 0 => \A j \in 0..L2Entries(d) - 1 :
            LET e == d.tables[d.l1[i]][j]
            IN  e.host \in Nat /\ (e.packed => Bytes(d.packs[e.host]))

VhdTyped(d) ==
  /\ {d.first.size, d.last.size, d.entries, d.block} \subseteq Int
  /\ VhdAccepts(d) => \A b \in 0..d.entries - 1 : d.bat[b] \in Nat \cup {-1}

VhdxTyped(d) ==
  /\ {d.size, d.block, d.sector, VhdxRegion(d).batEntries} \subseteq Nat
  /\ \A i \in 0..VhdxRegion(d).batEntries - 1 : VhdxRegion(d).bat[i].at \in Nat

VdiTyped(d) ==
  /\ {d.size, d.block, d.entries, d.extra} \subseteq Int
  /\ {d.headerBytes, d.blocksAt, d.dataAt} \subseteq Nat
  /\ VdiAccepts(d) => \A b \in 0..d.entries - 1 : d.table[b] \in Nat \cup {-1, -2}

ParallelsTyped(d) ==
  /\ {d.size, d.tracks, d.entries} \subseteq Nat
  /\ ParallelsAccepts(d) => \A b \in 0..d.entries - 1 : d.bat[b] \in Nat

SparseTyped(d) ==
  /\ FileTyped(d) /\ {d.grain, d.perTable, d.sectors, d.directoryAt} \subseteq Int
  /\ SparseAccepts(d) => \A i \in 0..GrainTables(d) - 1, g \in 0..d.perTable - 1 :
       LET table == d.directory[i]
       IN  /\ table \in Nat
           /\ table # 0 /\ table * Sector + 4 * g + 4 =< d.held => d.tables[table][g] \in Nat

StreamTyped(d) ==
  /\ {d.grain, d.sectors} \subseteq Int /\ d.markers \in Seq(Range(d.markers))
  /\ \A i \in DOMAIN d.markers : d.markers[i].sector \in Nat /\ Bytes(d.packs[i])

KdmvTyped(f) == IF f.kind = "stream" THEN StreamTyped(f) ELSE SparseTyped(f)

DescriptorTyped(d) ==
  /\ d.lines \in Seq(Range(d.lines))
  /\ \A i \in DOMAIN d.lines :
       LET e == d.lines[i]
       IN  /\ {e.sectors, e.offset} \subseteq Int
           /\ IF e.type = "SPARSE" THEN KdmvTyped(e.image) ELSE FileTyped(e.image)

DmgTyped(d) ==
  /\ d.sectors \in Int /\ d.runs \in Seq(Range(d.runs))
  /\ \A i \in DOMAIN d.runs :
       {d.runs[i].start, d.runs[i].sectors, d.runs[i].at} \subseteq Int /\ Bytes(d.packs[i])

Typed(d) ==
  /\ d.kind \in Kinds /\ FileTyped(d)
  /\ CASE d.kind = "qcow"       -> QcowTyped(d)
       [] d.kind = "vhd"        -> VhdTyped(d)
       [] d.kind = "vhdx"       -> VhdxTyped(d)
       [] d.kind = "vdi"        -> VdiTyped(d)
       [] d.kind = "parallels"  -> ParallelsTyped(d)
       [] d.kind = "sparse"     -> SparseTyped(d)
       [] d.kind = "stream"     -> StreamTyped(d)
       [] d.kind = "descriptor" -> DescriptorTyped(d)
       [] d.kind = "dmg"        -> DmgTyped(d)

-----------------------------------------------------------------------------
(* What it means that an image was written from its guest disk, said part  *)
(* by part as a writer lays it out, without the divisions a reader finds a *)
(* part by: QCOW's clusters, blocks, grains and runs.  It asks three       *)
(* things of an image that no reader checks: that a cluster lies wholly    *)
(* within the file or past its end (QCOW), that a block is whole sectors   *)
(* (VHD), and that no run begins inside a later one (DMG).  Where one of   *)
(* them fails, the bytes of a reader depend on where its reads begin.      *)

(* A byte of the cluster an entry of an L2 table describes.                *)
QcowByte(d, e, o) ==
  LET stored == IF e.host = 0 THEN 0 ELSE HostByte(d.base, d.held, e.host + o)
  IN  CASE e.packed -> UnitByte(d.packs[e.host], o)
        [] ~e.packed /\ d.extended ->
             IF e.map[o \div (d.cluster \div Subclusters)] = "allocated" THEN stored ELSE 0
        [] ~e.packed /\ ~d.extended -> IF d.version >= 3 /\ e.zero THEN 0 ELSE stored

QcowWritten(d) ==
  \A i \in 0..L1Size(d) - 1, j \in 0..L2Entries(d) - 1 :
    LET e == d.tables[d.l1[i]][j]
        start == (i * L2Entries(d) + j) * d.cluster
    IN  /\ d.l1[i] # 0 => e.packed \/ e.host >= d.capacity \/ e.host + d.cluster =< d.capacity
        /\ \A o \in 0..d.cluster - 1 : start + o < d.size =>
             d.guest[start + o] = IF d.l1[i] = 0 THEN 0 ELSE QcowByte(d, e, o)

(* A block of whole sectors, each of them stored or not.                   *)
VhdWritten(d) ==
  IF VhdFixed(d) THEN \A p \in 0..VhdSize(d) - 1 : d.guest[p] = WindowByte(d, p)
  ELSE /\ d.block % Sector = 0
       /\ \A b \in 0..d.entries - 1, s \in 0..(d.block \div Sector) - 1, o \in 0..Sector - 1 :
            LET p == b * d.block + s * Sector + o
            IN  p < VhdSize(d) =>
                  d.guest[p] = IF d.bat[b] # -1 /\ s \in VhdBitmap(d, b)
                                 THEN HostByte(d.base, d.held, (d.bat[b] + s) * Sector
                                                                 + VhdBitmapBytes(d) + o)
                                 ELSE 0
       /\ \A p \in d.entries * d.block..VhdSize(d) - 1 : d.guest[p] = 0

(* Block k of chunk c, whose entries follow those of c chunks and bitmaps. *)
VhdxWritten(d) ==
  \A c \in 0..VhdxBlocks(d) - 1, k \in 0..VhdxRatio(d) - 1, o \in 0..d.block - 1 :
    LET p == (c * VhdxRatio(d) + k) * d.block + o
        i == c * (VhdxRatio(d) + 1) + k
    IN  p < d.size /\ i < VhdxRegion(d).batEntries =>
          d.guest[p] = IF VhdxRegion(d).bat[i].state = "full"
                         THEN HostByte(d.base, d.held, VhdxRegion(d).bat[i].at * MiB + o) ELSE 0

VdiWritten(d) ==
  /\ \A b \in 0..d.entries - 1, o \in 0..d.block - 1 :
       b * d.block + o < d.size =>
         d.guest[b * d.block + o] =
           IF d.table[b] \in {-1, -2} THEN 0
           ELSE HostByte(d.base, d.held, VdiDataAt(d) + d.table[b] * (d.block + VdiExtra(d))
                                           + VdiExtra(d) + o)
  /\ \A p \in d.entries * d.block..d.size - 1 : d.guest[p] = 0

ParallelsWritten(d) ==
  LET cluster == d.tracks * Sector
  IN  /\ \A b \in 0..d.entries - 1, o \in 0..cluster - 1 :
           b * cluster + o < d.size * Sector =>
             d.guest[b * cluster + o] =
               IF d.bat[b] = 0 THEN 0
               ELSE HostByte(d.base, d.held, d.bat[b] * (IF d.ext THEN cluster ELSE Sector) + o)
      /\ \A p \in d.entries * cluster..d.size * Sector - 1 : d.guest[p] = 0

(* The content of a sparse extent, which may be a part of a guest disk.    *)
SparseWritten(d, guest) ==
  \A i \in 0..GrainTables(d) - 1, g \in 0..d.perTable - 1, o \in 0..d.grain * Sector - 1 :
    LET p == (i * d.perTable + g) * (d.grain * Sector) + o
        table == d.directory[i]
    IN  p < d.sectors * Sector =>
          guest[p] = IF table = 0 \/ table * Sector + 4 * g + 4 > d.held
                          \/ d.tables[table][g] = 0
                       THEN 0 ELSE HostByte(d.base, d.held, d.tables[table][g] * Sector + o)

StreamWritten(d, guest) ==
  \A k \in 0..CeilDiv(d.sectors, d.grain) - 1, o \in 0..d.grain * Sector - 1 :
    k * (d.grain * Sector) + o < d.sectors * Sector =>
      guest[k * (d.grain * Sector) + o] = UnitByte(StreamBytes(d, k), o)

KdmvWritten(f, guest) ==
  IF f.kind = "stream" THEN StreamWritten(f, guest) ELSE SparseWritten(f, guest)

ExtentWritten(e, part) ==
  CASE e.type = "ZERO"   -> \A x \in DOMAIN part : part[x] = 0
    [] e.type = "SPARSE" -> KdmvWritten(e.image, part)
    [] OTHER             -> \A x \in DOMAIN part :
                              part[x] = WindowByte(e.image, e.offset * Sector + x)

DescriptorWritten(d) ==
  \A i \in Extents(d) :
    ExtentWritten(d.lines[i], [x \in 0..ExtentSize(d.lines[i]) - 1 |->
                                 d.guest[ExtentEnd(d, i - 1) + x]])

DmgWritten(d) ==
  /\ \A i, j \in DOMAIN d.runs : i < j /\ {d.runs[i].type, d.runs[j].type} \cap DmgSkips = {} =>
       d.runs[i].start =< d.runs[j].start
         \/ d.runs[j].start + d.runs[j].sectors =< d.runs[i].start
  /\ \A p \in 0..d.sectors * Sector - 1 :
       LET k == DmgRun(d, p)
           r == d.runs[k]
           in == p - r.start * Sector
       IN  d.guest[p] =
             CASE k = 0                     -> 0
               [] k # 0 /\ r.type = "zeros" -> 0
               [] k # 0 /\ r.type = "raw"   -> WindowByte(d, r.at + in)
               [] k # 0 /\ r.type = "zlib" /\ d.packs[k] # NoBytes -> UnitByte(d.packs[k], in)
               [] OTHER                     -> -1

Written(d) ==
  CASE d.kind = "qcow"       -> QcowWritten(d)
    [] d.kind = "vhd"        -> VhdWritten(d)
    [] d.kind = "vhdx"       -> VhdxWritten(d)
    [] d.kind = "vdi"        -> VdiWritten(d)
    [] d.kind = "parallels"  -> ParallelsWritten(d)
    [] d.kind = "sparse"     -> SparseWritten(d, d.guest)
    [] d.kind = "stream"     -> StreamWritten(d, d.guest)
    [] d.kind = "descriptor" -> DescriptorWritten(d)
    [] d.kind = "dmg"        -> DmgWritten(d)
=============================================================================
