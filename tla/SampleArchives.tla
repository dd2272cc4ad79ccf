---------------------------- MODULE SampleArchives ----------------------------
(***************************************************************************)
(* Small archives for TLC, each with what was put into it.  The constants  *)
(* of the decoders are scaled down with them.                              *)
(***************************************************************************)
EXTENDS Containers

MCDeflate ==
  [literals |-> 4, longest |-> 4, longestCode |-> 3, order |-> <<5, 6, 7, 0, 2, 1, 3, 4>>,
   least |-> <<5, 1, 4>>, most |-> <<7, 5>>, repeats |-> <<2, 2, 5>>, lengthBase |-> <<2, 3>>,
   distanceBase |-> <<1, 2, 3, 5>>, window |-> 6,
   fixed |-> [literal |-> <<3, 3, 3, 3, 3, 3, 3, 3>>, distance |-> <<3, 3, 3, 3, 3>>]]
MCSzdd == [byte |-> 8, flags |-> 4, nibble |-> 4, ring |-> 16, tail |-> 4, least |-> 2, blank |-> 0]
MCShrink == [literals |-> 2, table |-> 8, narrow |-> 2, wide |-> 3, grow |-> 1, clear |-> 2]
MCPack == [table |-> 7, literals |-> 2]
MCPack2 ==
  [marker |-> 99, stored |-> 98, byte |-> 16, escape |-> 9, plain |-> 4, long |-> 8, longBase |-> 7,
   least |-> 3, extra |-> <<1, 1, 1, 1, 0, 2, 2, 2, 3>>, class |-> 16..24, tables |-> 2,
   modes |-> << [base |-> 1, unit |-> 2], [base |-> 2, unit |-> 4], [base |-> 3, unit |-> 8] >>,
   zeros |-> 5, history |-> <<7, 7, 7>>, limit |-> 12, most |-> 40]
MCLzx ==
  [literals |-> 4, longest |-> 3, lengthSymbols |-> 3, primary |-> 2, least |-> 2, pretree |-> 8,
   zeroRuns |-> <<2, 4>>, sameRun |-> 2, slots |-> <<0, 1, 2, 3, 4, 6, 8>>,
   extra |-> <<0, 0, 0, 0, 1, 3, 3>>, aligned |-> 8, alignedLongest |-> 3, frame |-> 8, e8 |-> 3,
   tail |-> 5, wimSize |-> 20]
MCXpress == [literals |-> 4, nibble |-> 2, byte |-> 4, longest |-> 4, least |-> 2, symbols |-> 10]

MCLimits == [zip |-> 100, directory |-> 4, depth |-> 4, segment |-> 40, sdi |-> 64, data |-> 4, headed |-> 5,
             raw |-> 7, sub |-> 9, sync |-> 2, subheader |-> 1]

Member(path, bytes) == [path |-> path, bytes |-> bytes, damaged |-> FALSE]
Broken(member) == [member EXCEPT !.damaged = TRUE]
At0(at, n) == [i \in 1..n |-> at + i - 1]

(* What the detectors see of a file of a kind, and the doors it comes in   *)
(* by; that an OLE document without its name is an installer is lost.      *)
StartOf == [zip |-> "PK", tar |-> "tar", cab |-> "MSCF", szdd |-> "SZDD", pack |-> "PACK", ole |-> "OLE",
            wim |-> "MSWIM", ne |-> "NE", le |-> "LE", lx |-> "LX", pe |-> "MZ", xbe |-> "XBEH", xex |-> "XEX",
            mtf |-> "TAPE", sdi |-> "$SDI0001", wad |-> "WAD", romdir |-> "RESET", pup |-> "SCEUF", xuiz |-> "XUIZ",
            ea |-> "FEALIST", fsf |-> "FSF", ffu |-> "SignedImage", mdf |-> "MEDIA DESCRIPTOR", cue |-> "cue",
            eappx |-> "EXBH", other |-> "none"]
OpenedBy == [zip |-> "ZIP", tar |-> "TAR", cab |-> "CAB", szdd |-> "SZDD", pack |-> "OS2_PACK", ole |-> "MSI",
             wim |-> "WIM", ne |-> "NE", le |-> "LE", lx |-> "LX", pe |-> "PE", xbe |-> "XBE", xex |-> "XEX",
             mtf |-> "MTF", sdi |-> "SDI", wad |-> "WAD", romdir |-> "PS2_ROMDIR", pup |-> "PS3_PUP", xuiz |-> "XUIZ",
             ea |-> "OS2_EA", fsf |-> "SIEMENS_FSF", ffu |-> "FFU", mdf |-> "MDF_MDS", cue |-> "CUE_BIN",
             eappx |-> "EAPPX", other |-> "none"]
SeenAs(kind) == [D!Content EXCEPT !.marks = {<<0, StartOf[kind]>>}, !.suffix = IF kind = "ole" THEN "msi" ELSE ""]
Sound(kind, data, members, asks) ==
  [kind |-> kind, data |-> data, members |-> members, sound |-> TRUE, asks |-> asks,
   seen |-> SeenAs(kind), module |-> OpenedBy[kind], marked |-> TRUE,
   doors |-> {"path", "store", "bytes"} \cup (IF kind = "ole" THEN {} ELSE {"named"})]
Damaged(sample, data) == [sample EXCEPT !.data = data, !.sound = FALSE, !.asks = {}, !.doors = {"path"}]

-----------------------------------------------------------------------------
(* ZIP: the members one behind the other, then their central headers.      *)
Packs(name, method, stream, bytes, packed, size) ==
  [name |-> name, method |-> method, stream |-> stream, bytes |-> bytes, packed |-> packed, size |-> size]
ZipOf(packs, expected) ==
  LET n == Len(packs)
      local[i \in 1..n + 1] == IF i = 1 THEN 3 ELSE local[i - 1] + 31 + packs[i - 1].packed
      central(i) == local[n + 1] + 50 * (i - 1)
      p(i) == packs[i]
  IN  [size |-> central(n + 1) + 24, expected |-> expected,
       streams |-> [a \in {local[i] + 31 : i \in 1..n} |->
                      packs[CHOOSE i \in 1..n : local[i] + 31 = a].stream],
       at |-> [a \in {local[i] : i \in 1..n} |-> [kind |-> "local", name |-> 1, extra |-> 0]]
              @@ [a \in {central(i) : i \in 1..n} |->
                    LET i == CHOOSE i \in 1..n : central(i) = a
                    IN  [kind |-> "central", variable |-> 4, name |-> p(i).name, flags |-> 0,
                         directory |-> p(i).name[Len(p(i).name)] = "", method |-> p(i).method,
                         packed |-> p(i).packed, size |-> p(i).size, local |-> local[i]]]
              @@ (central(n + 1) :> [kind |-> "end", comment |-> 2, entries |-> n, onDisk |-> n,
                                     length |-> 50 * n, from |-> central(1), disk |-> 0,
                                     centralDisk |-> 0])]

(* A fixed block with a match; a stored block and one with its own trees;  *)
(* a code for a code that is not made yet, a partial clear that keeps a    *)
(* prefix, and codes given out again.                                      *)
FixedStream == <<1, 1, 0, 1, 2, 5, 1, 2, 0, 3, 4>>
FixedBytes == <<0, 1, 2, 0, 1, 2, 3>>
OwnStream == <<0, 0, 2, -2, 3, 3, 1, 2, 0, 0, 2, 2, 0, 0, 2, 2, 2, 2, 5, 0, 0, 2, 1, 0, 1, 2, 4>>
OwnBytes == <<3, 3, 0, 1, 2>>
ShrinkStream == <<0, 1, 3, 5, 2, 2, 0, 3, 5, 2, 1, 6>>
ShrinkBytes == <<0, 1, 0, 1, 0, 1, 0, 0, 0, 1, 0, 0, 0, 1, 0>>

ZipPacks ==
  << Packs(<<".", "stored">>, 0, <<>>, At0(34, 5), 5, 5),
     Packs(<<"dir", "">>, 0, <<>>, <<>>, 0, 0),
     Packs(<<"dir", "fixed">>, 8, FixedStream, FixedBytes, 11, 7),
     Packs(<<"", "..", "own">>, 8, OwnStream, OwnBytes, 27, 5),
     Packs(<<"dir", "", "own">>, 8, OwnStream, OwnBytes, 27, 5),
     Packs(<<"shrunk">>, 1, ShrinkStream, ShrinkBytes, 12, 15) >>
ZipData == ZipOf(ZipPacks, "unknown")
ZipMembers ==
  << Member(<<"stored">>, At0(34, 5)), Member(<<"dir", "fixed">>, FixedBytes),
     Member(<<"dir", "own">>, OwnBytes), Member(<<"shrunk">>, ShrinkBytes) >>
ZipAsks == {<<1, 3, 4>>, <<2, 0, 2>>, <<2, 1, 4>>, <<2, 3, 9>>, <<3, 2, 2>>, <<3, 0, 5>>, <<4, 7, 3>>, <<4, 15, 1>>}
ZipFile == Sound("zip", ZipData, ZipMembers, ZipAsks)

(* The streams cut or broken behind their first values: a match from       *)
(* before the start, a literal without a code, a code beyond the table.    *)
ZipBroken ==
  LET broken == [ZipPacks EXCEPT ![3].stream = [FixedStream EXCEPT ![9] = 1],
                                 ![5].packed = 25, ![6].stream = [ShrinkStream EXCEPT ![7] = 9]]
  IN  Sound("zip", ZipOf(broken, "unknown"),
            [i \in DOMAIN ZipMembers |-> IF i = 1 THEN ZipMembers[i] ELSE Broken(ZipMembers[i])], ZipAsks)

(* Packages by their members, and files named for another one.             *)
PackageOf(names, expected) ==
  ZipOf([i \in DOMAIN names |-> Packs(names[i], 0, <<>>, <<>>, 0, 0)], expected)
Named(names) == [i \in DOMAIN names |-> Member(names[i], <<>>)]
AppxNames == << <<"AppxManifest.xml">>, <<"[Content_Types].xml">> >>
Package2(names, expected) ==
  [Sound("zip", PackageOf(names, expected), Named(names), {<<1, 0, 1>>})
     EXCEPT !.seen.suffix = IF expected = "unknown" THEN "" ELSE expected]
Packages ==
  << Package2(AppxNames, "msix"), Package2(AppxNames, "unknown"),
     Package2(<< <<"AppManifest.xaml">> >>, "xap"),
     Package2(<< <<"AppxMetadata", "AppxBundleManifest.xml">> >>, "appxbundle"),
     Damaged(Package2(AppxNames, "xap"), PackageOf(AppxNames, "xap")) >>

(* Headers that do not fit each other.                                     *)
ZipCentral == 3 + 6 * 31 + 82     \* the first central header
ZipEndAt == ZipCentral + 300
ZipEnds ==
  [locator \in {0, ZipEndAt - 20 - 56} |->
     [ZipData EXCEPT !.at = (ZipEndAt - 20 :> [kind |-> "locator", end |-> locator])
                            @@ (ZipEndAt - 76 :> [kind |-> "end64", entries |-> 6, onDisk |-> 6, length |-> 300,
                                                  from |-> ZipCentral, disk |-> 0, centralDisk |-> 0])
                            @@ [@ EXCEPT ![ZipEndAt].entries = Full16]]]
ZipDamage ==
  << [ZipData EXCEPT !.size = @ + 1], [ZipData EXCEPT !.at[ZipEndAt].disk = 1],
     [ZipData EXCEPT !.at[ZipEndAt].length = 900], [ZipData EXCEPT !.at[ZipEndAt].entries = 7, !.at[ZipEndAt].onDisk = 7],
     ZipEnds[0], [ZipData EXCEPT !.at[ZipEndAt].from = Full32],
     [ZipData EXCEPT !.at[ZipCentral + 150].flags = 1], [ZipData EXCEPT !.at[ZipCentral + 100].local = 4],
     [ZipData EXCEPT !.at[ZipCentral].packed = 4], [ZipData EXCEPT !.at[ZipCentral + 250].packed = 900],
     [ZipData EXCEPT !.at[ZipCentral + 200].method = 9], [ZipData EXCEPT !.at[ZipCentral + 200].size = 900],
     [ZipEnds[ZipEndAt - 76] EXCEPT !.at[ZipEndAt - 76].entries = 1000001, !.at[ZipEndAt - 76].onDisk = 1000001] >>
Zip64 == [ZipFile EXCEPT !.data = ZipEnds[ZipEndAt - 76]]

-----------------------------------------------------------------------------
(* TAR: a file, a directory, a hard link to the file under another spelling*)
(* of its name, a file below a prefix, and a link to none.                 *)
TarHeaderOf(name, prefix, type, size, link) ==
  [kind |-> "tar", name |-> name, prefix |-> prefix, type |-> type, size |-> size, link |-> link]
TarHeaders ==
  << TarHeaderOf(<<".", "a">>, <<>>, "file", 3, <<>>), TarHeaderOf(<<"d", "">>, <<>>, "dir", 0, <<>>),
     TarHeaderOf(<<"d", "l">>, <<>>, "link", 0, <<"", "a">>),
     TarHeaderOf(<<"b">>, <<".", "d">>, "file", 600, <<>>),
     TarHeaderOf(<<"x">>, <<>>, "link", 0, <<"none">>), TarHeaderOf(<<"a">>, <<>>, "file", 2, <<>>),
     TarHeaderOf(<<"m">>, <<>>, "link", 0, <<"a">>) >>
TarData(headers) ==
  LET n == Len(headers)
      place[i \in 1..n + 1] == IF i = 1 THEN 0 ELSE place[i - 1] + 512 + RoundUp(headers[i - 1].size, 512)
  IN  [size |-> place[n + 1] + 1024,
       at |-> [a \in {place[i] : i \in 1..n} |-> headers[CHOOSE i \in 1..n : place[i] = a]]
              @@ (place[n + 1] :> [kind |-> "zero"])]
TarMembers ==
  << Member(<<"a">>, At0(512, 3)), Member(<<"d", "l">>, At0(512, 3)), Member(<<"d", "b">>, At0(2560, 600)),
     Member(<<"a">>, At0(4608, 2)), Member(<<"m">>, At0(4608, 2)) >>
Tar == Sound("tar", TarData(TarHeaders), TarMembers, {<<1, 1, 9>>, <<2, 0, 2>>, <<3, 598, 3>>, <<5, 1, 3>>})
TarDamage ==
  << [Tar.data EXCEPT !.at[1536] = [kind |-> "noise"]], [Tar.data EXCEPT !.size = 2560 + 599],
     [Tar.data EXCEPT !.at[4096].size = 5000], [Tar.data EXCEPT !.size = 1500],
     [Tar.data EXCEPT !.at[0].name = <<>>] >>

-----------------------------------------------------------------------------
(* CAB: a stored folder, an MSZIP one whose second block looks back into   *)
(* the first, and an LZX one of all kinds of blocks, cut into two.         *)
SecondStream == <<1, 1, 5, 0, 3, 1, 4>>      \* a length of 2, 6 back
LzxPretree == <<3, 3, 3, 3, 3, 3, 3, 3>>
LzxTrees ==
  LzxPretree \o <<2, 2, 1, 0>> \o LzxPretree \o <<4, 0, 1, 5, 3, 1, 5, 3>> \o LzxPretree \o <<6, 1, 2>>
LzxAgain ==
  LzxPretree \o <<0, 0, 0, 0>> \o LzxPretree \o [i \in 1..15 |-> 0] \o <<1, 0, 0>> \o LzxPretree \o <<0, 0, 0>>
LzxStream ==
  <<1, 20>> \o <<1, 8>> \o LzxTrees \o <<0, 1, 14, 0, 2, 0, 1>>
  \o <<2, 4>> \o LzxPretree \o LzxAgain \o <<2, 19, 0, 2, 0>>
  \o <<3, 3, 1, 1, 1, 0, 0, 0, 0>> \o <<3, 10, 1, 1, 1, 3, 1, 0, 1, 0, 1, 1, 1, 1, 1>>
LzxBytes == <<0, 1, 1, 1, 1, 2, 0, 1, 2, 1, 1, 0, 0, 0, 0, 3, 2, 0, 0, 0, 1, 1, 1, 1, 1>>

CabBlock(data, plain, stream) ==
  [kind |-> "block", data |-> data, plain |-> plain, signed |-> TRUE, stream |-> stream, at |-> 0]
CabData ==
  [size |-> 600, cabinet |-> 600, reserve |-> 2,
   folders |-> << [at |-> 100, blocks |-> 2, type |-> 0], [at |-> 200, blocks |-> 2, type |-> 1],
                  [at |-> 300, blocks |-> 2, type |-> 3, valid |-> TRUE, window |-> 8] >>,
   files |-> [at |-> 50, list |->
     << [named |-> TRUE, name |-> <<"d", "plain">>, folder |-> 1, offset |-> 1, size |-> 5],
        [named |-> TRUE, name |-> <<"", "zip">>, folder |-> 2, offset |-> 2, size |-> 7],
        [named |-> TRUE, name |-> <<"lzx">>, folder |-> 3, offset |-> 0, size |-> 25] >>],
   at |-> (100 :> CabBlock(4, 4, <<>>)) @@ (114 :> CabBlock(3, 3, <<>>))
          @@ (200 :> CabBlock(13, 7, FixedStream)) @@ (223 :> CabBlock(9, 2, SecondStream))
          @@ (300 :> CabBlock(90, 20, SubSeq(LzxStream, 1, 90)))
          @@ (400 :> CabBlock(50, 5, SubSeq(LzxStream, 91, Len(LzxStream))))]
CabMembers ==
  << Member(<<"d", "plain">>, <<111, 112, 113, 124, 125>>), Member(<<"zip">>, <<2, 0, 1, 2, 3, 1, 2>>),
     Member(<<"lzx">>, LzxBytes) >>
Cab == Sound("cab", CabData, CabMembers, {<<1, 0, 9>>, <<2, 3, 3>>, <<3, 14, 9>>})
CabDamage ==
  << [CabData EXCEPT !.files.list[2].folder = 4], [CabData EXCEPT !.files.list[3].named = FALSE],
     [CabData EXCEPT !.cabinet = 601], [CabData EXCEPT !.at[114].plain = 4],
     [CabData EXCEPT !.at[223].plain = 3], [CabData EXCEPT !.at[200].signed = FALSE],
     [CabData EXCEPT !.size = 445, !.cabinet = 1], [CabData EXCEPT !.files.list[3].size = 26],
     [CabData EXCEPT !.folders[2].type = 2], [CabData EXCEPT !.folders[3].valid = FALSE],
     [CabData EXCEPT !.at[400].plain = 6], [CabData EXCEPT !.folders[1].blocks = 3] >>

-----------------------------------------------------------------------------
(* SZDD: literals, a reference that runs into what it writes, one into the *)
(* blank ring that the end of the file cuts.                               *)
SzddData == [mode |-> "A", name |-> <<"f~">>, stream |-> <<7, 5, 6, 7, 4, 6, 0, 0, 5>>, plain |-> 9]
Szdd1 == Sound("szdd", SzddData, << Member(<<"f~">>, <<5, 6, 7, 5, 6, 7, 5, 0, 0>>) >>, {<<1, 4, 9>>})
SzddDamage == << [SzddData EXCEPT !.mode = "B"], [SzddData EXCEPT !.plain = 12] >>

-----------------------------------------------------------------------------
(* PACK: strings made of themselves and strings given up and made anew;    *)
(* PACK2: frames with all kinds of symbols, and a stored one.              *)
PackStream == <<1, 2, 3, 5, 1, 2, 6, 5, 0>>
PackBytes == <<0, 1, 0, 1, 0, 1, 0, 0, 1, 1, 1, 0, 1, 0>>
Pack2Frequencies == <<1, 16, 16, 16, 16, 16, 16>>
Pack2Stream ==
  <<99, 19, 1, 1, 1, 1>> \o Pack2Frequencies
  \o <<4, 0, 0, 1, 2, 3, 11, 0, 1, 5, 16, 2, 20, 21, 0, 0, 0>>
  \o <<99, 18, 1, 1, 0, 0>> \o Pack2Frequencies \o <<7, 0, 0, 1, 2, 25, 27, 7, 0, 1, 16, 2, 29>>
  \o <<99, 8, 1, 1, 2, 3>> \o Pack2Frequencies \o <<6, 0, 1, 24, 16, 0, 0>>
  \o <<99, 98, 4, 2, 0, 0, 15>>
Pack2Bytes ==
  <<1, 2, 3, 5, 2, 3, 5, 9, 3, 5, 9, 3, 1, 2, 1, 2, 1, 2, 2, 1, 2, 2, 1, 2, 1, 2, 1, 2, 1, 2, 1, 15>>

PackHeader(format, at, next, ea, size, name, stream) ==
  [kind |-> "member", format |-> format, at |-> at, from |-> at + 10, next |-> next, ea |-> ea, size |-> size,
   name |-> name, stream |-> stream]
PackData(one, two) ==
  [size |-> 200,
   at |-> (0 :> PackHeader("FFFE", 0, one, 19, 14, <<"a">>, PackStream))
          @@ (40 :> PackHeader("FFFD", 40, two, 3, 32, <<"d", "b">>, Pack2Stream))
          @@ (160 :> PackHeader("1400", 160, 0, 0, 0, <<"c">>, PackStream))]
PackMembers ==
  << Member(<<"a">>, PackBytes), Member(<<"d", "b">>, Pack2Bytes), Member(<<"c">>, PackBytes) >>
Pack1 == Sound("pack", PackData(40, 160), PackMembers, {<<1, 5, 6>>, <<2, 10, 30>>, <<3, 0, 1>>})
PackChains == [p \in {0, 40, 41, 160, 201} \X {0, 40, 160} |-> PackData(p[1], p[2])]
PackDamage ==
  << [Pack1.data EXCEPT !.at[0].size = 13], [Pack1.data EXCEPT !.at[40].size = 0],
     [Pack1.data EXCEPT !.at[160].name = <<"..", "c">>], [Pack1.data EXCEPT !.at[0].ea = 14],
     [Pack1.data EXCEPT !.at[40].stream[1] = 1], [Pack1.data EXCEPT !.at[160].from = 201],
     [Pack1.data EXCEPT !.at[0].stream[3] = 6], [Pack1.data EXCEPT !.at[40].size = 33] >>

-----------------------------------------------------------------------------
(* OLE: a stream over sectors out of order, one of mini sectors, a storage *)
(* with an empty stream.                                                   *)
OleNode(type, name, left, right, child, start, size) ==
  [type |-> type, name |-> name, left |-> left, right |-> right, child |-> child, start |-> start, size |-> size]
OleData ==
  [sector |-> 8, mini |-> 4, cutoff |-> 8, fatSectors |-> 1, fatIds |-> <<0>>, directoryStart |-> 1,
   miniStart |-> 2, miniSectors |-> 1,
   fat |-> (0 :> -3) @@ (1 :> -2) @@ (2 :> -2) @@ (3 :> 4) @@ (4 :> -2) @@ (5 :> 7) @@ (6 :> -2) @@ (7 :> 6),
   miniFat |-> (0 :> 2) @@ (1 :> -2) @@ (2 :> -2),
   directory |-> (0 :> OleNode("root", "R", -1, -1, 1, 3, 12)) @@ (1 :> OleNode("stream", "big", 2, 3, -1, 5, 20))
                 @@ (2 :> OleNode("stream", "a", -1, -1, -1, 0, 6)) @@ (3 :> OleNode("storage", "s", -1, -1, 4, 0, 0))
                 @@ (4 :> OleNode("stream", "none", -1, -1, -1, -2, 0))]
OleMembers ==
  << Member(<<"a">>, <<32, 33, 34, 35, 40, 41>>), Member(<<"big">>, At0(48, 8) \o At0(64, 8) \o At0(56, 4)),
     Member(<<"s", "none">>, <<>>) >>
Ole == Sound("ole", OleData, OleMembers, {<<1, 3, 9>>, <<2, 6, 12>>, <<3, 0, 1>>})
OleTrees == [p \in {-1, 0, 1, 2, 3, 4, 5} \X {-1, 1, 3, 4} |->
               [OleData EXCEPT !.directory[2].right = p[1], !.directory[4].left = p[2]]]
OleChains == [p \in {-2, 5, 6, 7, 9} \X {0, 2, -2, 3} |-> [OleData EXCEPT !.fat[6] = p[1], !.miniFat[2] = p[2]]]
OleDamage ==
  << [OleData EXCEPT !.fatIds = <<0, 0>>, !.fatSectors = 2], [OleData EXCEPT !.fat[1] = 1],
     [OleData EXCEPT !.directory[0].type = "stream"], [OleData EXCEPT !.fat[2] = 8],
     [OleData EXCEPT !.directory[0].start = -2], [OleData EXCEPT !.directory[0].size = 0, !.directory[0].start = -2],
     [OleData EXCEPT !.directory[3].name = ""], [OleData EXCEPT !.directory[1].start = 6] >>

-----------------------------------------------------------------------------
(* WIM resources: LZX with a chunk of its own trees each and a stored end, *)
(* Xpress, one that is not compressed, and one whose image names no codec, *)
(* with a chunk that is too short and one that is too long.                *)
WimLzx1 == <<1, 1>> \o LzxTrees \o <<0, 1, 14, 0, 2, 0, 1>>
WimLzx2 == <<1, 0, 8>> \o LzxTrees \o <<2, 0, 6, 0, 1, 1>>
WimXpress1 == <<3, 3, 3, 3, 3, 3, 4, 4, 4, 4, 0, 1, 6, 0, 5, 1, 0>>
WimXpress2 == <<3, 3, 3, 3, 3, 3, 4, 4, 4, 4, 2, 5, 3, 4, 0, 0>>
WimRaw == << <<1, 2, 3, 1, 2>>, <<3, 3, 3, 2, 2, 2, 1, 1, 2, 3>> >>
Resource(name, at, chunks, last, codec) ==
  LET begin[i \in 1..Len(chunks)] == IF i = 1 THEN Len(chunks[1]) ELSE begin[i - 1] + Len(chunks[i])
  IN  [name |-> name, at |-> at, table |-> begin, unit |-> 8, codec |-> codec,
       packed |-> 4 * Len(chunks) + begin[Len(chunks)] + last, size |-> 8 * Len(chunks) + last]
Streams(at, chunks, end) ==
  (at :> chunks[1]) @@ (at + Len(chunks[1]) :> chunks[2]) @@ (at + Len(chunks[1]) + Len(chunks[2]) :> end)
WimData(lzx) ==
  [resources |-> << Resource(<<"lzx">>, 100, lzx, 3, "lzx"),
                    Resource(<<"xpress">>, 400, <<WimXpress1, WimXpress2>>, 2, "xpress"),
                    [Resource(<<"plain">>, 600, <<WimLzx1>>, 0, "none") EXCEPT !.packed = 4],
                    Resource(<<"raw">>, 700, WimRaw, 2, "raw") >>,
   streams |-> Streams(100, lzx, <<2, 2, 0>>) @@ Streams(400, <<WimXpress1, WimXpress2>>, <<3, 1>>)
               @@ Streams(700, WimRaw, <<1, 1>>)]
WimMembersOf ==
  << Member(<<"lzx">>, <<0, 1, 1, 1, 1, 2, 0, 1, 2, 0, 0, 0, 0, 0, 1, 1, 2, 2, 0>>),
     Member(<<"xpress">>, <<0, 1, 0, 1, 1, 1, 1, 1, 2, 2, 2, 2, 2, 2, 2, 0, 3, 1>>),
     Member(<<"plain">>, At0(600, 4)),
     Member(<<"raw">>, <<1, 2, 3, 1, 2, 0, 0, 0, 3, 3, 3, 2, 2, 2, 1, 1, 1, 1>>) >>
WimAsks == {<<1, 0, 4>>, <<1, 6, 12>>, <<1, 9, 3>>, <<2, 0, 9>>, <<2, 15, 9>>, <<3, 1, 2>>, <<4, 3, 15>>}
WimFile == Sound("wim", WimData(<<WimLzx1, WimLzx2>>), WimMembersOf, WimAsks)

(* The second chunk refers to a place before its start.                    *)
WimBroken ==
  [Sound("wim", WimData(<<WimLzx1, [WimLzx2 EXCEPT ![Len(WimLzx2)] = 12]>>), WimMembersOf, WimAsks)
     EXCEPT !.members[1] = Broken(@)]
=============================================================================
