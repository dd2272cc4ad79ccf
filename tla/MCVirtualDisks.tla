---------------------------- MODULE MCVirtualDisks ----------------------------
(***************************************************************************)
(* Small images for TLC.  Each is written from a list that says what every *)
(* part of the guest disk is and where it is stored; its tables and the    *)
(* guest content a reader should see are both derived from that list, the  *)
(* content without the code's index arithmetic.                            *)
(***************************************************************************)
EXTENDS VirtualDisks, TLC

(* A part of the guest disk: a hole, zeros, bytes stored at an address,    *)
(* bytes packed there, and the damaged ones.                               *)
Hole == [what |-> "hole", at |-> 0]
Zero(a) == [what |-> "zero", at |-> a]
At(a) == [what |-> "at", at |-> a]
Half(a) == [what |-> "half", at |-> a]
Pack(k) == [what |-> "pack", at |-> k]
Bad(k) == [what |-> "bad", at |-> k]

PackBytes(k, n) == [o \in 0..n - 1 |-> 100 * k + o]

(* The guest disk the parts of `width' bytes spell.                        *)
Spelled(parts, width, size, base, held) ==
  [p \in 0..size - 1 |->
    LET c == parts[(p \div width) + 1]
        o == p % width
    IN  CASE c.what = "at"   -> HostByte(base, held, c.at + o)
          [] c.what = "half" -> IF 2 * o < width THEN HostByte(base, held, c.at + o) ELSE 0
          [] c.what = "pack" -> 100 * c.at + o
          [] OTHER           -> 0]

File(n, h) == [capacity |-> n, held |-> h, base |-> 0, sound |-> TRUE]

-----------------------------------------------------------------------------
Descriptor(c) ==
  [host |-> c.at, packed |-> c.what \in {"pack", "bad"}, zero |-> c.what = "zero",
   map |-> [k \in 0..1 |-> IF c.what = "at" \/ (c.what = "half" /\ k = 0)
                             THEN "allocated" ELSE "unset"]]

(* Tables of `per' entries at addresses `l1'; parts past the last are holes.*)
Qcow(version, extended, cluster, per, l1, parts, size, n, h) ==
  LET Part(i) == IF i =< Len(parts) THEN parts[i] ELSE Hole
      keys == {parts[i].at : i \in {j \in DOMAIN parts : parts[j].what \in {"pack", "bad"}}}
      decoded == {parts[i].at : i \in {j \in DOMAIN parts : parts[j].what = "pack"}}
  IN  File(n, h) @@
      [kind |-> "qcow", version |-> version, extended |-> extended, cluster |-> cluster,
       l2Entries |-> per, size |-> size, unsupported |-> {}, l1At |-> cluster, l1Size |-> Len(l1),
       l1 |-> [i \in 0..Len(l1) - 1 |-> l1[i + 1]],
       tables |-> [a \in {l1[i] : i \in DOMAIN l1} \ {0} |->
                    LET t == CHOOSE i \in DOMAIN l1 : l1[i] = a
                    IN  [k \in 0..per - 1 |-> Descriptor(Part((t - 1) * per + k + 1))]],
       packs |-> [k \in keys |-> IF k \in decoded THEN PackBytes(k, cluster) ELSE NoBytes],
       guest |-> Spelled([i \in 1..20 |-> Part(i)], cluster, size, 0, h)]

(* Three tables for two slots, the last cluster partial and one of them    *)
(* past the end of the data held; a table missing; subclusters.            *)
Qcow2 == Qcow(2, FALSE, 2, 2, <<6, 8, 10>>, <<At(12), Pack(3), Pack(4), At(14), Bad(5), At(17)>>,
              11, 40, 18)
Qcow3 == Qcow(3, FALSE, 2, 2, <<6, 0, 8>>, <<Zero(12), At(14), Hole, Hole, At(44), Pack(3)>>,
              12, 40, 40)
Qcow3Wide == Qcow(3, TRUE, 4, 2, <<8, 12>>, <<Half(16), At(20), Pack(3), Hole>>, 15, 40, 40)
Qcow1 == Qcow(1, FALSE, 2, 2, <<6, 8>>, <<At(13), Pack(3), At(17)>>, 7, 40, 40)
QcowImages ==
  << Qcow2, Qcow3, Qcow3Wide, Qcow1,
    [Qcow2 EXCEPT !.size = 13], [Qcow2 EXCEPT !.unsupported = {"backing"}],
    [Qcow2 EXCEPT !.l1[1] = 9], [Qcow2 EXCEPT !.l1Size = 0], [Qcow2 EXCEPT !.version = 4],
    [Qcow3Wide EXCEPT !.cluster = 2] >>

-----------------------------------------------------------------------------
(* Dynamic VHD: blocks of two sectors, each sector stored or a hole; the   *)
(* bitmap of a block is as wide as a sector.                               *)
Footer(ok, type, size) == [sound |-> ok, type |-> type, size |-> size]

VhdDynamic(blocks, size, n, h) ==
  LET Where(b) == blocks[b + 1]
      Stored(b, s) == IF Where(b).what[s + 1] THEN At(Where(b).at * Sector + 2 + 2 * s) ELSE Hole
  IN  File(n, h) @@
      [kind |-> "vhd", first |-> Footer(TRUE, 3, size), last |-> Footer(TRUE, 3, size),
       entries |-> Len(blocks), block |-> 4, tableAt |-> 4, size |-> size,
       bat |-> [b \in 0..Len(blocks) - 1 |-> Where(b).at],
       bitmaps |-> [b \in 0..Len(blocks) - 1 |-> {s \in 0..1 : Where(b).what[s + 1]}],
       guest |-> Spelled([i \in 1..10 |-> IF i =< 2 * Len(blocks)
                                            THEN Stored((i - 1) \div 2, (i - 1) % 2) ELSE Hole],
                         2, size, 0, h)]

VhdBlock(a, s0, s1) == [at |-> a, what |-> <<s0, s1>>]
Vhd == VhdDynamic(<<VhdBlock(9, TRUE, FALSE), VhdBlock(-1, FALSE, FALSE),
                    VhdBlock(12, TRUE, TRUE)>>, 13, 34, 28)
VhdFlat == [Vhd EXCEPT !.first = Footer(TRUE, 2, 9), !.last = Footer(FALSE, 0, 0),
                       !.guest = [p \in 0..8 |-> HostByte(0, 28, p)]]
VhdImages ==
  << Vhd, [Vhd EXCEPT !.last = Footer(FALSE, 9, 9)], VhdFlat,
    [VhdFlat EXCEPT !.first = Footer(FALSE, 2, 9)], [Vhd EXCEPT !.entries = 8],
    [Vhd EXCEPT !.last.type = 5],
    \* a block whose bitmap lies past the end of the file
    [Vhd EXCEPT !.bat[2] = 17, !.bitmaps[2] = {}, !.guest = [@ EXCEPT ![8] = 0, ![9] = 0,
                ![10] = 0, ![11] = 0]] >>

(* VHDX: chunks of two data blocks, so the third block follows a bitmap    *)
(* entry; the bitmap entries hold what a wrong index would read.           *)
VhdxHeader(ok, n, log) == [sound |-> ok, sequence |-> n, log |-> log]
VhdxEntry(a) == [state |-> IF a = 0 THEN "absent" ELSE "full", at |-> a]
VhdxTable(ok, parts) == [sound |-> ok, batEntries |-> Len(parts),
                         bat |-> [i \in 0..Len(parts) - 1 |-> VhdxEntry(parts[i + 1])]]

VhdxBlock(c) == IF c = 0 THEN Hole ELSE At(c * MiB)
Vhdx ==
  File(40, 40) @@
  [kind |-> "vhdx", first |-> VhdxHeader(TRUE, 1, TRUE), second |-> VhdxHeader(TRUE, 2, FALSE),
   region1 |-> VhdxTable(TRUE, <<2, 0, 9, 4, 1, 9, 3>>), region2 |-> VhdxTable(TRUE, <<1>>),
   differencing |-> FALSE, size |-> 19, block |-> 4, sector |-> 2,
   guest |-> Spelled(<<At(8), Hole, At(16), At(4), At(12)>>, 4, 19, 0, 40)]
VhdxImages ==
  << Vhdx, [Vhdx EXCEPT !.second.sequence = 1], [Vhdx EXCEPT !.second.sound = FALSE],
    [Vhdx EXCEPT !.first = VhdxHeader(FALSE, 5, TRUE)], [Vhdx EXCEPT !.region1.sound = FALSE],
    [Vhdx EXCEPT !.region1 = VhdxTable(TRUE, <<2, 0, 9, 4, 1>>)],
    [Vhdx EXCEPT !.region1 = VhdxTable(TRUE, <<2, 0, 9, 4, 1, 9>>)],
    [Vhdx EXCEPT !.region1.sound = FALSE, !.region2 = Vhdx.region1],
    [Vhdx EXCEPT !.differencing = TRUE] >>

(* VDI: physical blocks in another order than the guest's, with an extra   *)
(* byte before each, or in the older layout that has none.                 *)
Vdi ==
  File(60, 41) @@
  [kind |-> "vdi", major |-> 1, type |-> 1, size |-> 14, block |-> 3, extra |-> 1, entries |-> 5,
   headerBytes |-> 4, blocksAt |-> 6, dataAt |-> 26,
   table |-> [b \in 0..4 |-> <<2, -1, 0, -2, 3>>[b + 1]],
   guest |-> Spelled(<<At(35), Hole, At(27), Zero(0), At(39)>>, 3, 14, 0, 41)]
VdiOld == [Vdi EXCEPT !.major = 0,
                      !.guest = Spelled(<<At(30), Hole, At(24), Zero(0), At(33)>>, 3, 14, 0, 41)]
VdiImages == << Vdi, VdiOld, [Vdi EXCEPT !.type = 4], [Vdi EXCEPT !.entries = 30] >>

Parallels ==
  File(60, 60) @@
  [kind |-> "parallels", tracks |-> 2, entries |-> 3, size |-> 7, tableAt |-> 4, ext |-> FALSE,
   bat |-> [b \in 0..2 |-> <<9, 0, 8>>[b + 1]],
   guest |-> Spelled(<<At(18), Hole, At(16), Hole>>, 4, 14, 0, 60)]
ParallelsImages ==
  << Parallels, [Parallels EXCEPT !.entries = 20],
    [Parallels EXCEPT !.ext = TRUE, !.guest = Spelled(<<At(36), Hole, At(32), Hole>>, 4, 14, 0, 60)] >>

-----------------------------------------------------------------------------
(* VMDK: grains of two sectors and grain tables of two grains.             *)
Sparse ==
  File(48, 43) @@
  [kind |-> "sparse", grain |-> 2, perTable |-> 2, sectors |-> 11, directoryAt |-> 1,
   directory |-> [i \in 0..2 |-> <<7, 0, 11>>[i + 1]],
   tables |-> (7 :> [g \in 0..1 |-> <<0, 15>>[g + 1]]) @@ (11 :> [g \in 0..1 |-> <<20, 18>>[g + 1]]),
   guest |-> Spelled(<<Hole, At(30), Hole, Hole, At(40), At(36)>>, 4, 22, 0, 43)]

Marker(w, s) == [what |-> w, sector |-> s]
Stream ==
  File(40, 40) @@
  [kind |-> "stream", grain |-> 2, sectors |-> 7, overhead |-> 1,
   markers |-> <<Marker("grain", 2), Marker("grain", 0), Marker("metadata", 0), Marker("grain", 6),
                 Marker("grain", 2), Marker("end", 0), Marker("grain", 4)>>,
   packs |-> [k \in 1..7 |-> CASE k \in {1, 5} -> PackBytes(k, 4) [] k = 2 -> PackBytes(2, 3)
                               [] OTHER -> NoBytes],
   guest |-> [p \in 0..13 |-> CASE p \in 0..2 -> 200 + p [] p \in 4..7 -> 500 + p - 4
                               [] OTHER -> 0]]

Extent(type, sectors, offset, image) ==
  [type |-> type, sectors |-> sectors, offset |-> offset, found |-> TRUE, image |-> image]
Flat == [capacity |-> 12, held |-> 12, base |-> 300]
Small == [Sparse EXCEPT !.base = 600, !.sectors = 4]
Other == [Stream EXCEPT !.sectors = 4, !.packs[2] = NoBytes, !.packs[5] = PackBytes(6, 4)]
Streams == <<Extent("SPARSE", 9, 0, [Stream EXCEPT !.sectors = 3]), Extent("FLAT", 1, 2, Flat),
             Extent("SPARSE", 1, 0, Other)>>
Descriptors ==
  LET ok == <<Extent("FLAT", 2, 1, Flat), Extent("SPARSE", 9, 0, Small), Extent("FLAT", 0, 9, Flat),
              Extent("ZERO", 1, 0, Flat), Extent("VMFS", 1, 0, Flat)>>
      Of(lines) == File(9, 9) @@
        [kind |-> "descriptor", lines |-> lines,
         guest |-> [p \in 0..15 |-> CASE p \in 0..3   -> 303 + p
                                     [] p \in 8..11  -> 631 + p - 8
                                     [] p \in 14..15 -> 301 + p - 14
                                     [] OTHER        -> 0]]
  IN  << Of(ok), Of(<<>>), Of(Append(ok, Extent("FLAT", 6, 1, Flat))),
        Of(Append(ok, Extent("VMFSRDM", 1, 0, Flat))),
        Of(Append(ok, [Extent("FLAT", 1, 0, Flat) EXCEPT !.found = FALSE])),
        Of(Append(ok, Extent("SPARSE", 1, 0, [Stream EXCEPT !.overhead = 0]))),
        [Of(Streams) EXCEPT !.guest = [p \in 0..15 |->
           <<200, 201, 202, 0, 500, 501, 305, 306, 0, 0, 0, 0, 600, 601, 602, 603>>[p + 1]]] >>
VmdkImages == << Sparse, [Sparse EXCEPT !.sectors = 60],
                [Sparse EXCEPT !.capacity = 13, !.held = 13], Stream,
                [Stream EXCEPT !.markers = SubSeq(@, 1, 5)],
                [Stream EXCEPT !.markers[3] = Marker("unknown", 0)] >> \o Descriptors

(* DMG: a raw run cut short by the file, one from before its first byte,   *)
(* an inflated one, one that does not inflate, a gap, a comment that       *)
(* covers data, and an unknown type.                                       *)
DmgRunOf(type, start, sectors, at) ==
  [type |-> type, start |-> start, sectors |-> sectors, at |-> at]
Dmg(runs, guest) ==
  File(30, 23) @@
  [kind |-> "dmg", sectors |-> 7, runs |-> runs,
   packs |-> [k \in 1..6 |-> IF k = 3 THEN PackBytes(3, 4) ELSE NoBytes],
   guest |-> [p \in 0..13 |-> guest[p + 1]]]
DmgImages ==
  << Dmg(<<DmgRunOf("comment", 0, 9, 0), DmgRunOf("raw", 0, 1, 12), DmgRunOf("zlib", 2, 2, 5),
          DmgRunOf("zeros", 3, 2, 0), DmgRunOf("raw", 5, 2, 20)>>,
        <<13, 14, 0, 0, 300, 301, 302, 303, 0, 0, 21, 22, 23, -1>>),
    Dmg(<<DmgRunOf("zlib", 1, 2, 5), DmgRunOf("bzip2", 4, 1, 5), DmgRunOf("raw", 5, 1, 5),
          DmgRunOf("raw", 6, 1, -1)>>,
        <<0, 0, -1, -1, -1, -1, 0, 0, -1, -1, 6, 7, -1, 1>>) >>

MCImages == 
  QcowImages \o VhdImages \o VhdxImages \o VdiImages \o ParallelsImages
    \o VmdkImages \o DmgImages

(* Every image that is mounted was written from its guest disk.            *)
ASSUME ImagesAreWritten == \A i \in DOMAIN MCImages : Accepts(MCImages[i]) => Written(MCImages[i])

MCPositions == {-1, 0, 3, 4, 9}
MCCounts == {0, 2, 9}
=============================================================================
