---------------------------- MODULE SampleContents ----------------------------
(***************************************************************************)
(* One content of every format the detectors know, as they see it, with    *)
(* the doors it comes through; and executables, with what they hold.       *)
(***************************************************************************)
EXTENDS SampleArchives

Content(module, size, marks) ==
  [Sound("other", <<>>, <<>>, {}) EXCEPT !.module = module, !.seen.size = size, !.seen.marks = marks]
Mark(module, mark) == Content(module, 4096, {<<0, mark>>})
NamedAs(sample, suffix) == [sample EXCEPT !.seen.suffix = suffix]
Through(sample, doors) == [sample EXCEPT !.doors = doors]
Unmarked(sample) == [sample EXCEPT !.marked = FALSE]
Boot(module, size, marks, parts) ==
  [Content(module, size, marks \cup {<<510, "55AA">>}) EXCEPT !.seen.parts = parts]
Part(type, start, sectors) == [type |-> type, start |-> start, sectors |-> sectors]
Behind(module, at, size) == [Content(module, size, {<<0, "MZ">>, <<at, module>>}) EXCEPT !.seen.newHeader = at]

(* What a mark at the start of the content tells.                          *)
StartMarks ==
  << Mark("MTF", "TAPE"), Mark("WAD", "WAD"), Mark("PS3_PUP", "SCEUF"), Mark("EAPPX", "EXPH"),
     Mark("EAPPX", "EXBH"), Mark("SIEMENS_FSF", "FSF"), Mark("SIEMENS_FWF", "FWF"), Mark("PlayReadyXap", "PlayReady"),
     Mark("QCOW", "QFI1"), Mark("QCOW", "QFI2"), Mark("RESX", "resx"), Mark("VMDK", "KDMV"), Mark("VHDX", "vhdxfile"),
     Mark("SDI", "$SDI0001"), Mark("XFS", "XFSB"), Mark("SQUASHFS", "hsqs"), Mark("XBE", "XBEH"), Mark("XEX", "XEX"),
     Mark("XUIZ", "XUIZ"), Mark("LIVE_PIRS", "LIVE"), Mark("CON", "CON "), Mark("REGISTRY", "regf"),
     Mark("OS2_EA", "FEALIST"), Mark("NE", "NE"), Mark("LE", "LE"), Mark("LX", "LX"), Mark("DosMZ", "MZ"),
     Mark("VHD", "conectix"), Mark("WINCE_ROM", "B000FF"), Mark("WINCE_ROM", "iPAQ "),
     Unmarked(NamedAs(Mark("CUE_BIN", "cue"), "cue")), Unmarked(Mark("PARALLELS_HDD", "WithoutFreeSpace")) >>

(* What stands elsewhere: superblocks, descriptors, footers.               *)
PlacedMarks ==
  << Content("FFU", 4096, {<<4, "SignedImage">>}), Content("VDI", 4096, {<<64, "vdi">>}),
     Content("EXT", 4096, {<<1080, "EF53">>}), Content("BTRFS", 131072, {<<65600, "_BHRfS_M">>}),
     Content("HPFS", 65536, {<<8192, "HPFS">>}), Content("HFSPLUS", 4096, {<<1024, "H+">>}),
     Content("SWAP", 4096, {<<4086, "SWAPSPACE2">>}), Content("LVM", 4096, {<<512, "LABELONE">>}),
     Content("LINUX_RAID", 131072, {<<4096, "md1">>}), Content("LINUX_RAID", 262144, {<<196608, "md0.90">>, <<1080, "EF53">>}),
     Content("RAW_DISK", 4096, {<<0, "ER">>, <<512, "PM">>}), Content("WINCE_ROM", 65536, {<<8192, "IMGFS">>}),
     Content("WINCE_ROM", 4096, {<<64, "ECEC">>}), Content("WINCE_ROM", 4096, {<<68, "ROMHDR">>}),
     Content("ISO9660", 65536, {<<32769, "CD001">>}), Content("UDF", 65536, {<<32769, "CD001">>, <<34817, "NSR02">>}),
     Content("ISO9660", 47040, {<<37649, "CD001">>}), Content("ISO9660", 47040, {<<37657, "CD001">>}),
     Content("UDF", 65536, {<<32769, "BEA01">>, <<34817, "NSR03">>}), Content("DMG", 4096, {<<3584, "koly">>}),
     Unmarked(Content("DMG", 131072, {<<130560, "koly">>})), Unmarked(Content("VHD", 4096, {<<3584, "conectix">>})),
     Content("MSG", 4096, {<<0, "OLE">>, <<1024, "MsgNames">>}), Behind("NE", 128, 4096), Behind("PE", 256, 4096),
     Behind("LX", 100000, 131072), Behind("LE", 128, 4096), [Content("PS2_ROMDIR", 4096, {<<0, "RESET">>}) EXCEPT !.seen.romEnd = 4096] >>

(* What other formats could be taken for: a floppy that holds a FAT volume,*)
(* boot code in the place of a partition table, dynamic and JFS disks that *)
(* have one, a ROM behind other data, an image wrapped around a ROM.       *)
Disguised ==
  << NamedAs(Boot("FLOPPY_IMAGE", 1474560, {<<54, "FAT">>}, <<>>), "img"), Boot("FAT", 1474560, {<<82, "FAT">>}, <<>>),
     Boot("NTFS", 65536, {<<3, "NTFS">>}, <<Part(116, 7, 900000)>>), Boot("EXFAT", 65536, {<<3, "EXFAT">>}, <<>>),
     Boot("JFS", 131072, {<<32768, "JFS1">>}, <<Part(97, 2, 8)>>), Boot("RAW_DISK", 65536, {<<3, "FAT">>}, <<Part(6, 63, 60)>>),
     Boot("RAW_DISK", 131072, {<<65536, "JFS1">>}, <<Part(7, 64, 900000)>>),
     Boot("RAW_DISK", 131072, {<<61440, "JFS1">>}, <<Part(53, 63, 90)>>),
     Unmarked(Boot("RAW_DISK", 1048576, {}, <<Part(7, 63, 1985)>>)),
     Boot("DYNAMIC_DISK", 1048576, {<<3072, "PRIVHEAD">>}, <<Part(66, 63, 1985)>>),
     NamedAs([Content("PS2_ROMDIR", 4194304, {<<262144, "RESET">>}) EXCEPT !.seen.romEnd = 4194304], "bin"),
     NamedAs(Content("SIEMENS_IMG", 4096, {<<0, "B000FF">>, <<4092, "footer">>}), "img") >>

(* What only the name of a file on disk tells.                             *)
PathOnly ==
  [i \in 1..4 |->
     Unmarked(Through(<< NamedAs(Mark("MDF_MDS", "MEDIA DESCRIPTOR"), "mds"), NamedAs(Mark("MDF_MDS", "sectors"), "mdf"),
                         NamedAs([Mark("CUE_BIN", "sectors") EXCEPT !.seen.cueBeside = TRUE], "bin"),
                         NamedAs(Content("WINCE_ROM", 2097152, {<<1572864, "IMGFS">>}), "nb0") >>[i], {"path"}))]

Contents == StartMarks \o PlacedMarks \o Disguised \o PathOnly
-----------------------------------------------------------------------------
(* NE for Windows, with a segment of full length, one that is empty, and a *)
(* table of two types; for OS/2, known by a module it imports, with a      *)
(* resource in two segments.                                               *)
Stubbed(sample, module, at) == [sample EXCEPT !.seen = Behind(module, at, 4096).seen]
Segment(sector, length, flags) == [sector |-> sector, length |-> length, flags |-> flags]
NePair(type, name) == [type |-> type, name |-> name]
NeWindows ==
  [size |-> 1000, start |-> "MZ", newHeader |-> 128,
   at |-> (128 :> [kind |-> "ne", target |-> 2, imported |-> 0, imports |-> <<>>, shift |-> 4, table |-> 192,
                   segments |-> <<Segment(25, 20, 0), Segment(0, 0, 0), Segment(30, 0, 1), Segment(40, 5, 2)>>,
                   resources |-> 0, rsrc |-> 100, residents |-> 160, pairs |-> <<>>])
          @@ (228 :> [kind |-> "rsrc", shift |-> 2]) @@ (230 :> [kind |-> "type", id |-> "ICON", count |-> 2])
          @@ (238 :> [kind |-> "entry", offset |-> 200, length |-> 2, id |-> "1"])
          @@ (250 :> [kind |-> "entry", offset |-> 210, length |-> 3, id |-> "2"])
          @@ (262 :> [kind |-> "type", id |-> "MENU", count |-> 1])
          @@ (270 :> [kind |-> "entry", offset |-> 220, length |-> 1, id |-> "1"])]
NeWindowsMembers ==
  << Member(<<"headers">>, At0(0, 224)), Member(<<".text">>, At0(400, 20) \o At0(640, 5)), Member(<<".data">>, At0(480, 40)),
     Member(<<".rsrc", "ICON", "1">>, At0(800, 8)), Member(<<".rsrc", "ICON", "2">>, At0(840, 12)),
     Member(<<".rsrc", "MENU", "1">>, At0(880, 4)) >>
Ne1 == Stubbed(Sound("ne", NeWindows, NeWindowsMembers, {<<2, 15, 9>>, <<5, 3, 20>>}), "NE", 128)
NeOs2 ==
  [size |-> 1000, start |-> "NE",
   at |-> (0 :> [kind |-> "ne", target |-> 0, imported |-> 2, imports |-> <<"MINE", "DOSCALLS">>, shift |-> 2, table |-> 64,
                 segments |-> <<Segment(50, 10, 0), Segment(60, 0, 0), Segment(70, 5, 0), Segment(80, 7, 0)>>,
                 resources |-> 3, rsrc |-> 96, residents |-> 40,
                 pairs |-> <<NePair("BITMAP", "1"), NePair("BITMAP", "1"), NePair("MENU", "2")>>])]
NeOs2Members ==
  << Member(<<"headers">>, At0(0, 96)), Member(<<".text">>, At0(200, 10)),
     Member(<<".rsrc", "BITMAP", "1">>, At0(240, 45)), Member(<<".rsrc", "MENU", "2">>, At0(320, 7)) >>
Ne2 == Sound("ne", NeOs2, NeOs2Members, {<<3, 38, 4>>})
NeDamage ==
  << [NeWindows EXCEPT !.newHeader = 129], [NeWindows EXCEPT !.at[230].count = 5], [NeWindows EXCEPT !.at[238].offset = 249],
     [NeWindows EXCEPT !.at[128].residents = 128], [NeWindows EXCEPT !.at[128].target = 3], [NeWindows EXCEPT !.at[228].shift = 20],
     [NeWindows EXCEPT !.size = 500], [NeOs2 EXCEPT !.at[0].imports = <<"MINE">>], [NeOs2 EXCEPT !.at[0].residents = 10],
     [NeOs2 EXCEPT !.at[0].pairs[2].type = ""], [NeOs2 EXCEPT !.size = 321], [NeOs2 EXCEPT !.at[0].rsrc = 1200] >>

-----------------------------------------------------------------------------
(* LE, whose objects hold pages of zeros; LX, with pages of all kinds and  *)
(* a resource over two of them.                                            *)
LinearObject(size, page, pages, resource, executable) ==
  [size |-> size, page |-> page, pages |-> pages, resource |-> resource, executable |-> executable]
LinearResource(type, name, object, offset, size) ==
  [type |-> type, name |-> name, object |-> object, offset |-> offset, size |-> size]
LeHeader ==
  [kind |-> "le", pageSize |-> 8, shift |-> 0, dataPages |-> 300, objectTable |-> 176, count |-> 3,
   objects |-> << LinearObject(12, 1, 2, FALSE, TRUE), LinearObject(5, 0, 0, FALSE, FALSE), LinearObject(16, 3, 2, TRUE, FALSE) >>,
   pages |-> [i \in 1..4 |-> IF i < 3 THEN [flags |-> 3, page |-> 0, low |-> 0] ELSE [flags |-> 0, page |-> i * 65536, low |-> i]],
   rsrc |-> 280, resources |-> 2, table |-> <<LinearResource("ICON", "1", 3, 2, 6), LinearResource("MENU", "2", 3, 8, 8)>>]
LeData == [size |-> 400, start |-> "LE", streams |-> <<>>, at |-> (0 :> LeHeader)]
Le1 == Sound("le", LeData,
             << Member(<<"headers">>, At0(0, 248)), Member(<<".text">>, Zeros(12)), Member(<<".bss">>, Zeros(5)),
                Member(<<".rsrc", "ICON", "1">>, At0(318, 6)), Member(<<".rsrc", "MENU", "2">>, At0(324, 8)) >>, {<<2, 3, 4>>, <<5, 0, 9>>})

LxPageEntry(flags, offset, stored) == [flags |-> flags, offset |-> offset, stored |-> stored]
Run(literals, back, n) == [literals |-> literals, back |-> back, n |-> n, cut |-> FALSE]
LxHeader ==
  [LeHeader EXCEPT
     !.kind = "lx", !.shift = 2, !.count = 4, !.rsrc = 180,
     !.objects = << LinearObject(13, 1, 2, FALSE, TRUE), LinearObject(6, 3, 1, FALSE, FALSE), LinearObject(4, 0, 0, FALSE, FALSE),
                    LinearObject(30, 4, 4, TRUE, FALSE) >>,
     !.pages = << LxPageEntry(0, 0, 8), LxPageEntry(0, 2, 3), LxPageEntry(3, 0, 0), LxPageEntry(1, 5, 6), LxPageEntry(5, 7, 6),
                  LxPageEntry(0, 10, 8), LxPageEntry(2, 0, 0) >>,
     !.table = << LinearResource("ICON", "1", 4, 2, 12), LinearResource("MENU", "2", 4, 16, 8) >>]
LxData ==
  [size |-> 400, start |-> "MZ", newHeader |-> 128,
   streams |-> (320 :> <<[n |-> 3, bytes |-> <<1, 2>>], [n |-> 2, bytes |-> <<3>>], [n |-> 0, bytes |-> <<>>]>>)
               @@ (328 :> <<Run(<<7, 8>>, 2, 3), Run(<<9>>, 0, 1)>>),
   at |-> (128 :> LxHeader)]
LxMembers ==
  << Member(<<"headers">>, At0(0, 272)), Member(<<".text">>, At0(300, 8) \o At0(308, 3) \o Zeros(2)), Member(<<".data">>, Zeros(6)),
     Member(<<".bss">>, Zeros(4)), Member(<<".rsrc", "ICON", "1">>, <<1, 2, 1, 2, 3, 3, 7, 8, 7, 8, 7, 9>>),
     Member(<<".rsrc", "MENU", "2">>, At0(340, 8)) >>
Lx1 == Stubbed(Sound("lx", LxData, LxMembers, {<<2, 6, 7>>, <<5, 4, 6>>, <<6, 0, 8>>}), "LX", 128)
LeDamage ==
  << [LeData EXCEPT !.at[0].pages[3].low = 0], [LeData EXCEPT !.at[0].table[1].object = 9], [LeData EXCEPT !.size = 330],
     [LeData EXCEPT !.at[0].pages[1].flags = 0], [LeData EXCEPT !.at[0].pages[2].flags = 1], [LeData EXCEPT !.at[0].resources = 3],
     [LeData EXCEPT !.at[0].pageSize = 0, !.at[0].objects[1].pages = 0, !.at[0].objects[2].page = 1],
     [LeData EXCEPT !.at[0].count = 4], [LeData EXCEPT !.at[0].rsrc = 401], [LeData EXCEPT !.at[0].objects[3].page = 5] >>
LxDamage ==
  << [LxData EXCEPT !.at[128].pages[5].flags = 6], [LxData EXCEPT !.streams[328][1].back = 5], [LxData EXCEPT !.streams[328][2].cut = TRUE],
     [LxData EXCEPT !.at[128].table[2].offset = 30], [LxData EXCEPT !.at[128].objects[1].page = 9], [LxData EXCEPT !.size = 345],
     [LxData EXCEPT !.streams[328][1].n = 8], [LxData EXCEPT !.at[128].pages[6].stored = 3], [LxData EXCEPT !.streams[320] = <<>>],
     [LxData EXCEPT !.at[128].objects[4].page = 6] >>

-----------------------------------------------------------------------------
(* PE as a file, with two sections of one name and one without; and as the *)
(* image of it in memory.                                                  *)
PeRange(va, raw, rawSize, virtualSize, name) ==
  [va |-> va, raw |-> raw, rawSize |-> rawSize, virtualSize |-> virtualSize, name |-> name]
PeHeader ==
  [kind |-> "pe", magic |-> TRUE, rva |-> 1600, length |-> 300, count |-> 3, headers |-> 240, table |-> 160,
   sections |-> << PeRange(1024, 300, 40, 60, ".data"), PeRange(1200, 350, 30, 20, ""), PeRange(1600, 400, 320, 300, ".data") >>]
PeSub(id, to) == [id |-> id, sub |-> TRUE, to |-> to]
PeLeafAt(id, to) == [id |-> id, sub |-> FALSE, to |-> to]
PeTree(base) ==
  (base :> [kind |-> "dir", list |-> <<PeSub("ICON", 40), PeSub("MENU", 80)>>])
  @@ (base + 40 :> [kind |-> "dir", list |-> <<PeSub("1", 120)>>]) @@ (base + 80 :> [kind |-> "dir", list |-> <<PeSub("2", 160)>>])
  @@ (base + 120 :> [kind |-> "dir", list |-> <<PeLeafAt("1033", 200), PeLeafAt("1040", 216)>>])
  @@ (base + 160 :> [kind |-> "dir", list |-> <<PeLeafAt("1033", 232)>>])
  @@ (base + 200 :> [kind |-> "data", rva |-> 1850, size |-> 10]) @@ (base + 216 :> [kind |-> "data", rva |-> 1860, size |-> 6])
  @@ (base + 232 :> [kind |-> "data", rva |-> 1210, size |-> 4])
PeData1 == [size |-> 720, start |-> "MZ", newHeader |-> 128, at |-> (128 :> PeHeader) @@ PeTree(400)]
PeMembers(data, unnamed, rsrc, icon, menu) ==
  << Member(<<"headers">>, At0(0, 240)), Member(<<".data">>, data), Member(<<"section_1">>, unnamed), Member(<<".data">>, rsrc),
     Member(<<".rsrc", "ICON", "1", "1033">>, At0(icon, 10)), Member(<<".rsrc", "ICON", "1", "1040">>, At0(icon + 10, 6)),
     Member(<<".rsrc", "MENU", "2", "1033">>, At0(menu, 4)) >>
PeAsks == {<<3, 25, 9>>, <<5, 2, 20>>}
PeFile == Stubbed(Sound("pe", PeData1, PeMembers(At0(300, 40), At0(350, 30), At0(400, 320), 650, 360), PeAsks), "PE", 128)
PeMemory == [size |-> 1920, start |-> "MZ", newHeader |-> 128, at |-> (128 :> PeHeader) @@ PeTree(1600)]
PeImage ==
  Stubbed(Sound("pe", PeMemory, PeMembers(At0(1024, 60), At0(1200, 30), At0(1600, 320), 1850, 1210), PeAsks), "PE", 128)
PeDamage ==
  << [PeData1 EXCEPT !.at[128].magic = FALSE], [PeData1 EXCEPT !.at[128].count = 4], [PeData1 EXCEPT !.at[128].rva = 0],
     [PeData1 EXCEPT !.at[128].length = 130], [PeData1 EXCEPT !.at[440].list[1].to = 0], [PeData1 EXCEPT !.at[440].list[1].to = 40],
     [PeData1 EXCEPT !.at[520].list[1].sub = TRUE], [PeData1 EXCEPT !.at[600].rva = 1990], [PeData1 EXCEPT !.at[600].size = 900],
     [PeData1 EXCEPT !.size = 500], [PeData1 EXCEPT !.at[128].sections[3].raw = 800], [PeData1 EXCEPT !.at[480].list[1].to = 400] >>

-----------------------------------------------------------------------------
(* XBE, with packages and images in its second section, and a TLS record   *)
(* in its first.                                                           *)
XbeData ==
  [size |-> 1800, start |-> "XBEH", base |-> 65536, headers |-> 1000, imageHeader |-> 376, count |-> 2, table |-> 65936,
   certificate |-> [va |-> 66056, size |-> 180], tls |-> 66556, libraries |-> [va |-> 66256, n |-> 1], kernel |-> 66256,
   xapi |-> 66272, thunk |-> [retail |-> 7, debug |-> 66296], words |-> 3, imports |-> 66336, logo |-> [va |-> 66436, size |-> 9],
   sections |-> << [raw |-> 1000, size |-> 60, name |-> ".text", nameAt |-> 66486], [raw |-> 1100, size |-> 600, name |-> "x", nameAt |-> 0] >>,
   at |-> (1120 :> [kind |-> "xpr", total |-> 100, header |-> 20]) @@ (1140 :> [kind |-> "xpr", total |-> 20, header |-> 20])
          @@ (1230 :> [kind |-> "xpr", total |-> 1000, header |-> 20]) @@ (1240 :> [kind |-> "dds", total |-> 0, header |-> 124])
          @@ (1300 :> [kind |-> "dds", total |-> 0, header |-> 124])]
XbeText(name) == Member(name, <<Zero>>)
XbeMembers ==
  << Member(<<"header_signature.bin">>, At0(4, 256)), XbeText(<<"image_header.txt">>), Member(<<"certificate.bin">>, At0(520, 180)),
     XbeText(<<"certificate.txt">>), Member(<<".text", "tls.bin">>, At0(1020, 24)), XbeText(<<".text", "tls.txt">>),
     Member(<<"library_0.bin">>, At0(720, 16)), XbeText(<<"library_0.txt">>), Member(<<"kernel.bin">>, At0(720, 16)), XbeText(<<"kernel.txt">>),
     Member(<<"xapi.bin">>, At0(736, 16)), XbeText(<<"xapi.txt">>), Member(<<"kernel_thunks.bin">>, At0(760, 12) \o Zeros(4)),
     XbeText(<<"kernel_imports.txt">>), Member(<<"non_kernel_imports.bin">>, At0(800, 256)), Member(<<"logo.xprle">>, At0(900, 9)),
     Member(<<".text", ".text">>, At0(1000, 60)), Member(<<".text.sha1">>, At0(436, 20)), XbeText(<<".text.txt">>),
     Member(<<"section_1", "section_1">>, At0(1100, 600)), Member(<<"section_1.sha1">>, At0(492, 20)), XbeText(<<"section_1.txt">>),
     Member(<<"section_1", "section_1_embedded_0.xpr">>, At0(1120, 100)), XbeText(<<"section_1", "section_1_embedded_0.xpr.txt">>),
     Member(<<"section_1", "section_1_embedded_1.dds">>, At0(1240, 128)), Member(<<"section_1", "section_1_embedded_2.dds">>, At0(1300, 400)) >>
Xbe1 == Sound("xbe", XbeData, XbeMembers, {<<5, 20, 9>>, <<13, 10, 9>>, <<26, 390, 20>>})
XbeDamage ==
  << [XbeData EXCEPT !.base = 0], [XbeData EXCEPT !.base = 66300], [XbeData EXCEPT !.count = 5000], [XbeData EXCEPT !.table = 67300],
     [XbeData EXCEPT !.libraries.n = 5000], [XbeData EXCEPT !.certificate.va = 67200], [XbeData EXCEPT !.sections[1].raw = 1790],
     [XbeData EXCEPT !.thunk.debug = 9], [XbeData EXCEPT !.logo.size = 0], [XbeData EXCEPT !.at[1120].total = 10], [XbeData EXCEPT !.size = 300] >>

-----------------------------------------------------------------------------
(* XEX: an executable as it is, somewhat behind where the header says; in  *)
(* blocks that run over a section's start, with zeros between them; in LZX *)
(* blocks with the other key; and one that has not the form of a file.     *)
XexValue(key, kind, value) == [key |-> key, kind |-> kind, value |-> value]
XexList(records) == [kind |-> "resources", length |-> 4 + 16 * Len(records), records |-> records]
XexAt(name, address, size) == [name |-> name, address |-> address, size |-> size]
XexSections(sections) ==
  [kind |-> "pe", optional |-> 96, magic |-> TRUE, base |-> 9, headers |-> 230, sections |-> sections]
XexFormat(length, encryption, compression) ==
  [kind |-> "format", length |-> length, encryption |-> encryption, compression |-> compression,
   first |-> 80, hash |-> "h1", window |-> 8, blocks |-> << [stored |-> 240, zeros |-> 20], [stored |-> 80, zeros |-> 0] >>]
XexHolder(size, headers, image, base, key, at, clear, unpacked) ==
  [size |-> size, start |-> "XEX", pe |-> 600, security |-> 150, secured |-> [size |-> 352, image |-> image, base |-> base],
   headers |-> headers, key |-> key, at |-> at, clear |-> clear, unpacked |-> unpacked]
XexSection(va, raw) == << [va |-> va, virtualSize |-> 150, rawSize |-> 60, raw |-> raw] >>
XexListAt(value) == XexValue("RESOURCE_INFO", 255, value)
XexFormatAt == XexValue("FILE_FORMAT_INFO", 255, 110)

XexData1 ==
  XexHolder(1000,
    << XexValue("ENTRY_POINT", 0, 5), XexValue("IMAGE_BASE_ADDRESS", 1, 8192), XexValue("ORIGINAL_PE_NAME", 255, 80),
       XexValue("EXECUTION_ID", 6, 100), XexListAt(510), XexValue("TLS_INFO", 4, 990), XexValue("XGD", 1, 990) >>,
    0, 4096, "retail",
    (80 :> [kind |-> "name", length |-> 12, text |-> "game.exe"])
    @@ (510 :> XexList(<< XexAt("in", 8192 + 1010, 20), XexAt("head", 8192 + 100, 30), XexAt("", 8192 + 1050, 30),
                          XexAt("empty", 8192, 0), XexAt("tail", 8192 + 300, 40) >>))
    @@ (640 :> [kind |-> "mz", nt |-> 64]) @@ (704 :> XexSections(XexSection(1000, 240))) @@ (700 :> [kind |-> "mz", nt |-> 990]),
    <<>>, <<>>)
XexRecordOf(name, at) == Member(<<"XEX_RESOURCE_INFO", name>>, At0(at, 16))
XexPayload(name, bytes) == Member(<<"XEX_RESOURCE", name>>, bytes)
XexSecured == Member(<<"XEX_SECURITY_INFO", "security_info">>, At0(150, 352))
XexOptional(name, at, n) == Member(<<"XEX_OPTIONAL_DATA", name>>, At0(at, n))
XexMembers1 ==
  << XexSecured, Member(<<"XEX_OPTIONAL_HEADER", "ENTRY_POINT">>, At0(24, 8)),
     Member(<<"XEX_OPTIONAL_HEADER", "IMAGE_BASE_ADDRESS">>, At0(32, 8)), XexOptional("ORIGINAL_PE_NAME", 80, 12),
     XexOptional("EXECUTION_ID", 100, 24), XexOptional("RESOURCE_INFO", 510, 84), XexOptional("XGD", 990, 4),
     Member(<<"game.exe", "game.exe">>, At0(640, 360)),
     XexRecordOf("in", 514), XexPayload("in", At0(890, 20)), XexRecordOf("head", 530), XexPayload("head", At0(740, 30)),
     XexRecordOf("resource_2", 546), XexRecordOf("empty", 562), XexRecordOf("tail", 578), XexPayload("tail", At0(940, 40)) >>
Xex1 == Sound("xex", XexData1, XexMembers1, {<<8, 10, 9>>, <<10, 0, 20>>, <<12, 5, 9>>})
XexDamage1 ==
  << [XexData1 EXCEPT !.size = 20], [XexData1 EXCEPT !.size = 60], [XexData1 EXCEPT !.security = 998],
     [XexData1 EXCEPT !.secured.size = 3], [XexData1 EXCEPT !.headers[5].value = 998], [XexData1 EXCEPT !.at[510].length = 83],
     [XexData1 EXCEPT !.at[510].length = 500], [XexData1 EXCEPT !.start = "none"], [XexData1 EXCEPT !.at[704].sections[1].raw = 330] >>

XexBasic == At0(1520, 240) \o Zeros(20) \o At0(1760, 80)
XexData2 ==
  XexHolder(920, << XexFormatAt, XexListAt(510) >>, 340, 4096, "retail",
            (110 :> XexFormat(24, 1, 1)) @@ (510 :> XexList(<< XexAt("a", 4096 + 305, 20) >>)),
            (600 :> [kind |-> "mz", nt |-> 64]) @@ (664 :> XexSections(XexSection(300, 250))), <<>>)
XexMembers2(format, image, a) ==
  << XexSecured, XexOptional("FILE_FORMAT_INFO", 110, format), XexOptional("RESOURCE_INFO", 510, 20),
     image, XexRecordOf("a", 514), XexPayload("a", a) >>
XexLoaded(bytes) == Member(<<"XEX_LOADED_IMAGE", "loaded_image">>, bytes)
Xex2 == Sound("xex", XexData2,
              XexMembers2(24, Member(<<"image.pe", "image.pe">>, XexBasic), Zeros(5) \o At0(1760, 15)), {<<4, 230, 60>>, <<6, 0, 20>>})
XexDamage2 ==
  << [XexData2 EXCEPT !.size = 919], [XexData2 EXCEPT !.secured.image = 341], [XexData2 EXCEPT !.at[110].blocks[1].stored = 250],
     [XexData2 EXCEPT !.at[110].length = 25], [XexData2 EXCEPT !.at[110].compression = 3], [XexData2 EXCEPT !.pe = 930] >>

XexChunk(size, numbers) == [size |-> size, numbers |-> numbers]
XexLzx(length, hash, next, nextHash, numbers) ==
  [kind |-> "lzx", length |-> length, hash |-> hash, next |-> next, nextHash |-> nextHash,
   chunks |-> << XexChunk(12, SubSeq(numbers, 1, 20)), XexChunk(20, SubSeq(numbers, 21, Len(numbers))), XexChunk(0, <<>>) >>]
XexData3 ==
  XexHolder(744, << XexFormatAt, XexListAt(510) >>, 25, 4096, "devkit",
            (110 :> XexFormat(36, 1, 2)) @@ (510 :> XexList(<< XexAt("a", 4096 + 14, 9) >>)),
            (600 :> XexLzx(80, "h1", 64, "h2", SubSeq(LzxStream, 1, 90)))
            @@ (680 :> XexLzx(64, "h2", 0, "", SubSeq(LzxStream, 91, Len(LzxStream)))), <<>>)
Xex3 == Sound("xex", XexData3, XexMembers2(36, XexLoaded(LzxBytes), SubSeq(LzxBytes, 15, 23)), {<<4, 10, 9>>, <<6, 0, 9>>})
XexDamage3 ==
  << [XexData3 EXCEPT !.key = "retail"], [XexData3 EXCEPT !.key = "none"], [XexData3 EXCEPT !.clear[680].hash = "h3"],
     [XexData3 EXCEPT !.clear[600].next = 65], [XexData3 EXCEPT !.clear[680].next = 32], [XexData3 EXCEPT !.clear[680].chunks[3].size = 3],
     [XexData3 EXCEPT !.clear[600].chunks[2].size = 60], [XexData3 EXCEPT !.at[110].window = 9], [XexData3 EXCEPT !.at[110].length = 32],
     [XexData3 EXCEPT !.at[110].encryption = 0], [XexData3 EXCEPT !.secured.image = 30], [XexData3 EXCEPT !.secured.image = 0],
     [XexData3 EXCEPT !.clear[600].chunks[1].numbers[1] = 9], [XexData3 EXCEPT !.security = 400] >>

XexData4 == [XexData2 EXCEPT !.at[110].compression = 0, !.secured.image = 300, !.clear[600].nt = 290]
Xex4 == Sound("xex", XexData4, SubSeq(XexMembers2(24, XexLoaded(At0(1520, 300)), <<>>), 1, 5), {<<4, 290, 20>>})

-----------------------------------------------------------------------------
(* MTF: a name that is no path, a directory that is known from a block of  *)
(* no streams, a file named by a stream.                                   *)
MtfBlockOf(tag, first, id, name) == [kind |-> "block", tag |-> tag, first |-> first, id |-> id, name |-> name]
MtfStreamOf(id, length, name) == [kind |-> "stream", id |-> id, length |-> length, name |-> name]
MtfData1 ==
  [size |-> 4650, signed |-> TRUE, block |-> 512,
   at |-> (0 :> MtfBlockOf("TAPE", 100, 0, <<>>)) @@ (100 :> MtfStreamOf("SPAD", 300, <<>>))
          @@ (512 :> MtfBlockOf("VOLB", 120, 0, <<"C:">>)) @@ (632 :> MtfStreamOf("SPAD", 6, <<>>))
          @@ (1024 :> MtfBlockOf("FILE", 100, 9, <<"", "">>)) @@ (1124 :> MtfStreamOf("STAN", 4, <<>>))
          @@ (1152 :> MtfStreamOf("SPAD", 0, <<>>)) @@ (1536 :> MtfBlockOf("DIRB", 100, 5, <<"dir", "">>))
          @@ (1636 :> MtfStreamOf("SPAD", 0, <<>>)) @@ (2048 :> MtfBlockOf("FILE", 150, 5, <<"a">>))
          @@ (2198 :> MtfStreamOf("STAN", 10, <<>>)) @@ (2232 :> MtfStreamOf("SPAD", 6, <<>>))
          @@ (2560 :> MtfBlockOf("DIRB", 40, 6, <<"dir", "sub", "">>)) @@ (3072 :> MtfBlockOf("FILE", 100, 6, <<>>))
          @@ (3172 :> MtfStreamOf("FNAM", 8, <<"b">>)) @@ (3204 :> MtfStreamOf("STAN", 700, <<>>))
          @@ (3928 :> MtfStreamOf("SPAD", 100, <<>>))]
Mtf1 == Sound("mtf", MtfData1,
              << Member(<<"C:", "file_0.bin">>, At0(1146, 4)), Member(<<"C:", "dir", "a">>, At0(2220, 10)),
                 Member(<<"C:", "dir", "sub", "b">>, At0(3226, 700)) >>, {<<1, 0, 9>>, <<2, 8, 3>>, <<3, 695, 9>>})
MtfDamage ==
  << [MtfData1 EXCEPT !.signed = FALSE], [MtfData1 EXCEPT !.size = 40], [MtfData1 EXCEPT !.at[2048].first = 2700],
     [MtfData1 EXCEPT !.at[2048].kind = "noise"], [MtfData1 EXCEPT !.at[2198].length = 4000], [MtfData1 EXCEPT !.block = 700],
     [MtfData1 EXCEPT !.at[3928].kind = "noise"], [MtfData1 EXCEPT !.at[1536].tag = "CFIL"], [MtfData1 EXCEPT !.size = 3900],
     [MtfData1 EXCEPT !.at[512].name = <<>>] >>

(* SDI with a section of no type; WAD with two lumps of one name and one   *)
(* of none.                                                                *)
SdiRecordOf(type, offset, size) == [kind |-> "section", type |-> type, offset |-> offset, size |-> size]
SdiData ==
  [size |-> 1000, signed |-> TRUE, alignment |-> 2, at |-> (128 :> SdiRecordOf("PART", 300, 50)) @@ (192 :> SdiRecordOf("", 400, 0))]
Sdi1 == Sound("sdi", SdiData, << Member(<<"Section 1 (PART)">>, At0(300, 50)), Member(<<"Section 2">>, <<>>) >>,
              {<<1, 45, 9>>, <<2, 0, 1>>})
SdiDamage ==
  << [SdiData EXCEPT !.signed = FALSE], [SdiData EXCEPT !.alignment = 0], [SdiData EXCEPT !.alignment = 8],
     [SdiData EXCEPT !.at[192].offset = 1001], [SdiData EXCEPT !.at[128].kind = "noise"], [SdiData EXCEPT !.at[128].offset = -1],
     [SdiData EXCEPT !.size = 50], [SdiData EXCEPT !.size = 349] >>

WadData ==
  [size |-> 200, signed |-> TRUE, count |-> 3, dir |-> 100,
   at |-> (100 :> [name |-> "MAP", at |-> 12, size |-> 20]) @@ (116 :> [name |-> "", at |-> 40, size |-> 0])
          @@ (132 :> [name |-> "MAP", at |-> 40, size |-> 60])]
Wad1 == Sound("wad", WadData, << Member(<<"MAP">>, At0(12, 20)), Member(<<"LUMP_1">>, <<>>), Member(<<"MAP">>, At0(40, 60)) >>,
              {<<1, 10, 20>>, <<3, 0, 9>>})
WadDamage ==
  << [WadData EXCEPT !.signed = FALSE], [WadData EXCEPT !.count = 1000001], [WadData EXCEPT !.dir = 180], [WadData EXCEPT !.size = 10],
     [WadData EXCEPT !.at[116].at = 201], [WadData EXCEPT !.at[132].size = 170] >>

(* ROMDIR behind two records that only look like the first of one, and one *)
(* that does not give its own length.                                      *)
RomRecord(name, size, ext) == [name |-> name, size |-> size, ext |-> ext]
RomList(reset) == << RomRecord("RESET", reset, 8), RomRecord("ROMDIR", 96, 0), RomRecord("EXTINFO", 16, 4),
                     RomRecord("A", 33, 4), RomRecord("B", 10, 0) >>
RomReset(list) == [kind |-> "reset", list |-> list]
RomData ==
  [size |-> 1024, at |-> (256 :> RomReset(RomList(256))) @@ (16 :> RomReset(SubSeq(RomList(16), 1, 2)))
                         @@ (32 :> RomReset(RomList(256))) @@ (40 :> RomReset(RomList(40)))]
RomMembers(reset, base) ==
  << Member(<<"RESET">>, At0(0, reset)), Member(<<"ROMDIR">>, At0(base, 96)), Member(<<"EXTINFO">>, At0(base + 96, 16)),
     Member(<<"A">>, At0(base + 112, 33)), Member(<<"B">>, At0(base + 160, 10)) >>
Rom1 == [Sound("romdir", RomData, RomMembers(256, 256), {<<1, 250, 9>>, <<4, 30, 9>>})
           EXCEPT !.seen.marks = {<<256, "RESET">>}, !.seen.romEnd = 426]
Rom2 == [Sound("romdir", [size |-> 170, at |-> (0 :> RomReset(RomList(0)))], RomMembers(0, 0), {<<1, 0, 1>>, <<5, 8, 9>>})
           EXCEPT !.seen.romEnd = 170]
RomDamage ==
  << [RomData EXCEPT !.at[256].list[2].size = 90], [RomData EXCEPT !.at[256].list[4].name = ""],
     [RomData EXCEPT !.at[256].list[3].size = 14], [RomData EXCEPT !.at[256].list[5].size = 1000], [RomData EXCEPT !.size = 60],
     [RomData EXCEPT !.at[256].kind = "noise"], [RomData EXCEPT !.size = 1020, !.at[256].list[4].size = 652],
     [RomData EXCEPT !.at[256].list[1].size = 240] >>

-----------------------------------------------------------------------------
(* PUP with a segment whose offset is that behind the headers, and an      *)
(* empty one; XUIZ with a part that leads up.                              *)
PupSegmentOf(id, offset, size) == [id |-> id, offset |-> offset, size |-> size, suffix |-> ".bin"]
PupData ==
  [size |-> 1000, signed |-> TRUE, count |-> 3, headerLength |-> 300,
   segments |-> <<PupSegmentOf(256, 300, 20), PupSegmentOf(5, 100, 50), PupSegmentOf(512, 0, 0)>>]
Pup1 == Sound("pup", PupData, << Member(<<"version.txt">>, At0(300, 20)), Member(<<"segment_5.bin">>, At0(400, 50)),
                                 Member(<<"ps3swu.self">>, <<>>) >>, {<<1, 9, 20>>, <<2, 0, 9>>, <<3, 0, 1>>})
PupDamage ==
  << [PupData EXCEPT !.signed = FALSE], [PupData EXCEPT !.count = 0], [PupData EXCEPT !.headerLength = 200],
     [PupData EXCEPT !.headerLength = 1001], [PupData EXCEPT !.segments[2].size = 900], [PupData EXCEPT !.segments[3].offset = 10],
     [PupData EXCEPT !.size = 40] >>

XuizData ==
  [size |-> 300, signed |-> TRUE, declared |-> 300, pointer |-> 60,
   files |-> << [name |-> <<"a", "b">>, nameLength |-> 3, size |-> 10, offset |-> 0],
                [name |-> <<"..", ".", "c">>, nameLength |-> 6, size |-> 5, offset |-> 20] >>]
Xuiz1 == Sound("xuiz", XuizData, << Member(<<"a", "b", "b">>, At0(82, 10)), Member(<<"_", "c", "c">>, At0(102, 5)) >>,
               {<<1, 3, 9>>, <<2, 0, 5>>})
XuizDamage ==
  << [XuizData EXCEPT !.declared = 299], [XuizData EXCEPT !.pointer = 290], [XuizData EXCEPT !.files[1].nameLength = 0],
     [XuizData EXCEPT !.files[2].nameLength = 60], [XuizData EXCEPT !.files[2].name = <<".">>],
     [XuizData EXCEPT !.files[1].size = 300], [XuizData EXCEPT !.signed = FALSE] >>

(* Extended attributes: an icon, a text that ends with zeros, a list of    *)
(* texts, and a value too short to have a type.                            *)
EaValueOf(type, length, given, zeros, items) == [type |-> type, length |-> length, given |-> given, zeros |-> zeros, items |-> items]
Fea(name, nameLength, value) == [kind |-> "fea", name |-> name, nameLength |-> nameLength, ended |-> TRUE, value |-> value]
EaItemOf(at, length, zeros) == [type |-> "ASCII", at |-> at, length |-> length, zeros |-> zeros]
EaData ==
  [size |-> 110, declared |-> 110,
   at |-> (4 :> Fea("ICON", 5, EaValueOf("icon", 14, 10, 0, <<>>))) @@ (28 :> Fea("SUBJECT", 8, EaValueOf("ASCII", 12, 8, 2, <<>>)))
          @@ (53 :> Fea("KEYPHRASES", 11, EaValueOf("multi-value multi-type", 30, 0, 0, <<EaItemOf(79, 4, 0), EaItemOf(87, 5, 1)>>)))
          @@ (99 :> Fea("RAW", 3, EaValueOf("", 3, 0, 0, <<>>)))]
EaMember(type, name, bytes) == Member(<<"Extended attributes", type, name>>, bytes)
Ea1 == Sound("ea", EaData,
             << EaMember("icon", "ICON", At0(18, 10)), EaMember("ASCII", "SUBJECT", At0(45, 6)),
                EaMember("multi-value multi-type", "KEYPHRASES", At0(79, 4) \o <<Newline>> \o At0(87, 4)),
                EaMember("type 0x0000", "RAW", At0(107, 3)) >>, {<<1, 4, 9>>, <<2, 0, 9>>, <<3, 2, 9>>, <<4, 1, 2>>})
EaDamage ==
  << [EaData EXCEPT !.declared = 111], [EaData EXCEPT !.at[28].ended = FALSE], [EaData EXCEPT !.at[53].kind = "noise"],
     [EaData EXCEPT !.at[53].value.items[2].type = "icon"], [EaData EXCEPT !.at[99].value.length = 90], [EaData EXCEPT !.size = 6],
     [EaData EXCEPT !.at[4].nameLength = 0], [EaData EXCEPT !.size = 112, !.declared = 112],
     [EaData EXCEPT !.at[53].value.items[1].length = 90], [EaData EXCEPT !.at[28].value.given = 9] >>

(* FSF: a directory between two files.                                     *)
FsfRecordOf(type, length, nameLength, name, payload) ==
  [kind |-> "record", type |-> type, version |-> 1, length |-> length, nameLength |-> nameLength, name |-> name, payload |-> payload]
FsfData ==
  [size |-> 400, signed |-> TRUE, count |-> 3,
   at |-> (20 :> FsfRecordOf(1, 40, 3, <<"a", "b">>, 30)) @@ (90 :> FsfRecordOf(2, 30, 1, <<"d">>, 0))
          @@ (120 :> FsfRecordOf(1, 25, 5, <<"c", "">>, 100))]
Fsf1 == Sound("fsf", FsfData, << Member(<<"a", "b">>, At0(60, 30)), Member(<<"c">>, At0(145, 100)) >>, {<<1, 25, 9>>, <<2, 0, 3>>})
FsfDamage ==
  << [FsfData EXCEPT !.signed = FALSE], [FsfData EXCEPT !.count = 0], [FsfData EXCEPT !.at[20].length = 10],
     [FsfData EXCEPT !.at[90].kind = "noise"], [FsfData EXCEPT !.at[120].payload = 900], [FsfData EXCEPT !.at[90].name = <<"..", "x">>],
     [FsfData EXCEPT !.at[120].name = <<"">>], [FsfData EXCEPT !.size = 15], [FsfData EXCEPT !.size = 140], [FsfData EXCEPT !.count = 4],
     [FsfData EXCEPT !.count = 4, !.size = 250], [FsfData EXCEPT !.at[120].length = 20000], [FsfData EXCEPT !.size = 50] >>

-----------------------------------------------------------------------------
(* FFU of one store whose later writes cover earlier ones and reach the    *)
(* end of a disk that is only as long as its GPT says; and of two stores.  *)
FfuLocation(method, block) == [method |-> method, block |-> block]
FfuWrite(blocks, locations) == [blocks |-> blocks, locations |-> locations]
FfuStoreOf(major, count, index, path, blockSize, length, writes) ==
  [kind |-> "store", major |-> major, count |-> count, index |-> index, pathLength |-> 3, path |-> path, blockSize |-> blockSize,
   validate |-> 8, length |-> length, payload |-> 0, writes |-> writes]
FfuGpt(alternate, count, entrySize) ==
  [kind |-> "gpt", alternate |-> alternate, entries |-> 2, count |-> count, entrySize |-> entrySize]
FfuPartOf(first, last, name) == [kind |-> "part", first |-> first, last |-> last, name |-> name]
FfuEnd == FfuWrite(1, <<FfuLocation(2, 1)>>)
FfuData ==
  [size |-> 7168, signed |-> TRUE, security |-> 32, chunk |-> 1024, catalog |-> 100, hash |-> 200,
   at |-> (1024 :> [kind |-> "image", size |-> 24, manifest |-> 76])
          @@ (2048 :> FfuStoreOf(1, 1, 1, "", 1024, 56,
                                 << FfuWrite(2, <<FfuLocation(0, 0)>>), FfuWrite(1, <<FfuLocation(0, 1), FfuLocation(2, 0)>>), FfuEnd >>))
          @@ (3584 :> FfuGpt(9, 4, 128)) @@ (5120 :> FfuPartOf(6, 6, "a")) @@ (5376 :> FfuPartOf(5, 6, ""))
          @@ (5504 :> FfuPartOf(8, 10, "far"))]
FfuSeen(sample) == [sample EXCEPT !.seen.marks = {<<4, "SignedImage">>}]
Ffu1 == FfuSeen(Sound("ffu", FfuData, << Member(<<"a">>, At0(6144, 512)), Member(<<"Partition 2">>, Zeros(512) \o At0(6144, 512)) >>,
                      {<<1, 500, 20>>, <<2, 508, 9>>}))
FfuTwo ==
  [FfuData EXCEPT !.size = 8192,
     !.at = (1024 :> @[1024]) @@ (2048 :> FfuStoreOf(2, 2, 1, "VenHw", 512, 16, <<FfuWrite(3, <<FfuLocation(0, 0)>>)>>))
            @@ (3072 :> [FfuStoreOf(2, 2, 2, "", 512, 16, <<FfuWrite(4, <<FfuLocation(0, 0)>>)>>) EXCEPT !.payload = 2048])
            @@ (4608 :> FfuGpt(0, 1, 128)) @@ (5120 :> FfuPartOf(0, 2, "sys"))
            @@ (6144 :> FfuGpt(7, 2, 256)) @@ (6656 :> FfuPartOf(3, 4, "data")) @@ (6912 :> FfuPartOf(2, 1, "none"))]
Ffu2 == FfuSeen(Sound("ffu", FfuTwo, << Member(<<"Store 1 (VenHw)", "sys">>, At0(4096, 1536)),
                                        Member(<<"Store 2", "data">>, At0(7168, 512) \o Zeros(512)) >>, {<<1, 0, 3>>, <<2, 510, 5>>}))
FfuDamage ==
  << [FfuData EXCEPT !.signed = FALSE], [FfuData EXCEPT !.chunk = 0], [FfuData EXCEPT !.at[1024].kind = "noise"],
     [FfuData EXCEPT !.at[1024].size = 20], [FfuData EXCEPT !.at[2048].length = 50], [FfuData EXCEPT !.size = 7000],
     [FfuData EXCEPT !.at[2048].writes[2].locations[1].method = 1], [FfuData EXCEPT !.at[2048].writes[3].blocks = 0],
     [FfuData EXCEPT !.size = 8000], [FfuData EXCEPT !.at[3584].kind = "noise"], [FfuData EXCEPT !.at[3584].alternate = 1],
     [FfuData EXCEPT !.at[3584].count = 0], [FfuData EXCEPT !.at[5376].kind = "noise"], [FfuData EXCEPT !.at[3584].entries = 40],
     [FfuData EXCEPT !.at[2048].blockSize = 600], [FfuData EXCEPT !.at[2048].writes[1].locations[1].method = 2],
     [FfuData EXCEPT !.at[2048].writes = <<FfuEnd>>, !.size = 4096],
     [FfuData EXCEPT !.at[5120].kind = "noise", !.at[5376].kind = "noise"] >>
FfuDamage2 ==
  << [FfuTwo EXCEPT !.at[3072].index = 1], [FfuTwo EXCEPT !.at[3072].count = 3], [FfuTwo EXCEPT !.at[3072].payload = 5],
     [FfuTwo EXCEPT !.size = 7700], [FfuTwo EXCEPT !.at[2048].major = 17], [FfuTwo EXCEPT !.at[3072].kind = "noise"] >>

-----------------------------------------------------------------------------
(* MDF: a volume in sectors of all there is, none in sectors with          *)
(* subchannels, and the data only.                                         *)
OnDisk(sample, seen) == Unmarked(Through([sample EXCEPT !.seen = seen.seen], {"path"}))
MdfData(size, volumes) == [size |-> size, suffix |-> "mdf", signed |-> FALSE, companion |-> FALSE, volumes |-> volumes]
MdsData(size) == [MdfData(size, {}) EXCEPT !.suffix = "mds", !.signed = TRUE, !.companion = TRUE]
Mdf(data, bytes, seen) == OnDisk(Sound("mdf", data, << Member(<<"Track 01">>, bytes) >>, {<<1, 0, 9>>, <<1, 6, 20>>}), seen)
Mdf1 == Mdf(MdfData(28, {<<7, 2>>}), At0(2, 4) \o At0(9, 4) \o At0(16, 4) \o At0(23, 4), PathOnly[2])
Mdf2 == Mdf(MdsData(27), At0(2, 4) \o At0(11, 4) \o At0(20, 4), PathOnly[1])
Mdf3 == Mdf(MdfData(28, {<<4, 0>>, <<7, 2>>}), At0(0, 28), PathOnly[2])
MdfDamage == << MdfData(29, {}), [MdsData(27) EXCEPT !.companion = FALSE], [MdsData(27) EXCEPT !.signed = FALSE] >>

(* CUE: data and audio in one file, packed graphics in a second below a    *)
(* folder; and data of three kinds, one of a length it could do without.   *)
CueLineOf(command) ==
  [command |-> command, fine |-> TRUE, path |-> <<>>, type |-> "BINARY", number |-> 0, mode |-> "", sectors |-> 0, text |-> ""]
FileLine(path) == [CueLineOf("FILE") EXCEPT !.path = path]
TrackLine(n, mode) == [CueLineOf("TRACK") EXCEPT !.number = n, !.mode = mode]
IndexLine(n, sectors) == [CueLineOf("INDEX") EXCEPT !.number = n, !.sectors = sectors]
TitleLine(text) == [CueLineOf("TITLE") EXCEPT !.text = text]
OnDisc(at, size) == [kind |-> "file", at |-> at, size |-> size]
CueData ==
  [suffix |-> "cue", beside |-> TRUE, name |-> "game.cue", sheet |-> [at |-> 0, size |-> 40], volumes |-> {},
   disk |-> (<<"a.bin">> :> OnDisc(100, 70)) @@ (<<"d", "b.bin">> :> OnDisc(200, 36)),
   lines |-> << TitleLine("Disc"), FileLine(<<"a.bin">>), TrackLine(1, "MODE1/2352"), TitleLine("T"), IndexLine(1, 0),
                TrackLine(2, "AUDIO"), CueLineOf("PREGAP"), IndexLine(0, 4), IndexLine(1, 5), IndexLine(2, 8),
                FileLine(<<"d", ".", "x", "..", "b.bin">>), TrackLine(12, "CDG"), IndexLine(1, 0), CueLineOf("REM") >>]
Listing(folder, name, bytes) == Member(<<folder, name, name>>, bytes)
Sheets(name, size) == << Listing("Descriptor", name, At0(0, size)), Listing("Descriptor", "disc-info.txt", <<Zero>>) >>
Cue1 ==
  OnDisk(Sound("cue", CueData,
               Sheets("game.cue", 40)
               \o << Listing("Source files", "a.bin", At0(100, 70)), Listing("Source files", "b.bin", At0(200, 36)),
                     Listing("Tracks", "Track 01 - T.iso", At0(102, 4) \o At0(109, 4) \o At0(116, 4) \o At0(123, 4)),
                     Listing("Tracks", "Track 02.raw", At0(135, 35)), Listing("Tracks", "Track 12.raw", At0(200, 36)) >>,
               {<<1, 30, 20>>, <<2, 0, 9>>, <<5, 3, 9>>, <<6, 30, 9>>}), NamedAs(Mark("CUE_BIN", "cue"), "cue"))
CueOther ==
  [CueData EXCEPT !.suffix = "bin", !.volumes = {<<2, 2>>},
     !.disk = (<<"a">> :> OnDisc(100, 20)) @@ (<<"b">> :> OnDisc(200, 14)) @@ (<<"c">> :> OnDisc(300, 12)),
     !.lines = << FileLine(<<"a">>), TrackLine(1, "MODE2/2336"), IndexLine(1, 1), FileLine(<<"b">>), TrackLine(2, "MODE2/2352"),
                  IndexLine(1, 0), FileLine(<<"c">>), TrackLine(3, "MODE1/2048"), IndexLine(1, 0) >>]
Cue2 ==
  OnDisk(Sound("cue", CueOther,
               Sheets("game.cue", 40)
               \o << Listing("Source files", "a", At0(100, 20)), Listing("Source files", "b", At0(200, 14)),
                     Listing("Source files", "c", At0(300, 12)),
                     Listing("Tracks", "Track 01.iso", At0(106, 4) \o At0(111, 4) \o At0(116, 4)),
                     Listing("Tracks", "Track 02.iso", At0(202, 4) \o At0(209, 4)), Listing("Tracks", "Track 03.iso", At0(300, 12)) >>,
               {<<6, 2, 9>>, <<7, 2, 9>>, <<8, 11, 3>>}), PathOnly[3])
CueDamage ==
  << [CueData EXCEPT !.lines[5].fine = FALSE], [CueData EXCEPT !.lines[3].number = 100], [CueData EXCEPT !.lines[3].command = "REM"],
     [CueData EXCEPT !.lines[5].number = 2], [CueData EXCEPT !.lines[6].number = 1], [CueData EXCEPT !.lines[2].type = "WAVE"],
     [CueData EXCEPT !.lines[2].path = <<"..", "a.bin">>], [CueData EXCEPT !.lines[2].path = <<"", "a.bin">>],
     [CueData EXCEPT !.lines[2].path = <<"x", "..">>], [CueData EXCEPT !.lines[2].path = <<"z">>],
     [CueData EXCEPT !.disk[<<"a.bin">>].size = 71], [CueData EXCEPT !.lines[9].sectors = 10],
     [CueData EXCEPT !.lines[8].sectors = 0], [CueData EXCEPT !.lines[8].sectors = 6], [CueData EXCEPT !.lines[3].mode = "MODE1/2048"],
     [CueData EXCEPT !.lines[12].mode = "CDX"], [CueData EXCEPT !.lines[13].sectors = 4], [CueData EXCEPT !.lines[2].command = "REM"],
     [CueOther EXCEPT !.beside = FALSE] >>
-----------------------------------------------------------------------------
(* A bundle with a signature and a package that holds a packed part and    *)
(* one whose name leads up; what is named a package but is none.           *)
PartOf(id, at, length, size, zipped) == [id |-> id, at |-> at, length |-> length, size |-> size, zipped |-> zipped]
NoPart == [at |-> 0, length |-> 0, size |-> 0, zipped |-> 0]
EappxHeader(bundle, signature, parts) ==
  [kind |-> "eappx", bundle |-> bundle, size |-> 120, used |-> 118, even |-> TRUE,
   footer |-> [at |-> 130, length |-> 40 * Len(parts)], signature |-> signature, catalogue |-> NoPart, parts |-> parts]
Packs2(name, id) == [name |-> name, id |-> id]
PackageAt(name, offset) == [name |-> name, offset |-> offset]
EappxData ==
  [size |-> 3000, stems |-> ("x.appx" :> "x") @@ ("y.appx" :> "y"),
   at |-> (0 :> EappxHeader(TRUE, [NoPart EXCEPT !.at = 400, !.length = 9, !.size = 9],
                            << PartOf(1, 1000, 900, 900, 0), PartOf(2, 600, 30, 30, 0), PartOf(3, 500, 20, 20, 0),
                               PartOf(9, 700, 11, 7, 1) >>))
          @@ (700 :> [kind |-> "packed text",
                      elements |-> << Packs2(<<"", "x.appx">>, 1), Packs2(<<"AppxMetadata", "AppxBundleManifest.xml">>, 2),
                                      Packs2(<<>>, 3), Packs2(<<"none">>, 4) >>])
          @@ (600 :> [kind |-> "text", elements |-> << PackageAt(<<"x.appx">>, 1000), PackageAt(<<"dir", "y.appx">>, 500),
                                                       PackageAt(<<"z.appx">>, 501) >>])
          @@ (1000 :> EappxHeader(FALSE, NoPart,
                                  << PartOf(1, 400, 11, 7, 2), PartOf(2, 420, 15, 15, 0), PartOf(3, 440, 6, 6, 0),
                                     PartOf(9, 500, 50, 50, 0) >>))
          @@ (1500 :> [kind |-> "text", elements |-> << Packs2(<<"a", "", "fixed">>, 1), Packs2(<<"..", "up">>, 2) >>]),
   streams |-> (700 :> FixedStream) @@ (1400 :> FixedStream)]
EappxMembers ==
  << Member(<<"AppxSignature.p7x">>, At0(400, 9)), Member(<<"x", "a", "fixed">>, FixedBytes),
     Member(<<"x", "part_2.dat">>, At0(1420, 15)), Member(<<"x", "2.dat">>, At0(1440, 6)),
     Member(<<"x", "AppxBlockMap.xml">>, At0(1500, 50)), Member(<<"AppxMetadata", "AppxBundleManifest.xml">>, At0(600, 30)),
     Member(<<"dir", "y.appx">>, At0(500, 20)), Member(<<"AppxBlockMap.xml">>, FixedBytes) >>
Eappx1 == Sound("eappx", EappxData, EappxMembers, {<<1, 0, 9>>, <<2, 0, 3>>, <<2, 2, 9>>, <<4, 1, 9>>, <<7, 5, 20>>, <<8, 3, 4>>})
EappxDamage ==
  << [EappxData EXCEPT !.at[0].size = 79], [EappxData EXCEPT !.at[0].used = 121], [EappxData EXCEPT !.at[0].even = FALSE],
     [EappxData EXCEPT !.at[0].footer.length = 100], [EappxData EXCEPT !.at[0].footer.length = 0],
     [EappxData EXCEPT !.at[0].footer.at = 2900], [EappxData EXCEPT !.at[0].parts[3].length = 2501],
     [EappxData EXCEPT !.at[0].signature.at = 2995], [EappxData EXCEPT !.size = 110] >>
(* A bundle that is a package of itself is listed nine times, one in the   *)
(* other, and then as a part.                                              *)
EappxLoop ==
  LET level == << EappxMembers[1], EappxMembers[6], EappxMembers[7], EappxMembers[8] >>
  IN  [Damaged(Eappx1, [EappxData EXCEPT !.at[0].parts[1].at = 0, !.at[600].elements[1].offset = 0])
         EXCEPT !.members = level \o level \o level \o level \o level \o level \o level \o level \o level
                            \o << Member(<<"x.appx">>, At0(0, 900)) >>]
=============================================================================
