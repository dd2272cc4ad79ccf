------------------------------ MODULE Detection ------------------------------
(***************************************************************************)
(* Which module opens a content: the three detectors of ModuleFormat.cpp   *)
(* (a file, the header of a store, the header of bytes in memory), the     *)
(* doors of ModuleFactory.cpp that use them, and the probe by which a      *)
(* session marks the resources that can be expanded.                       *)
(*                                                                         *)
(* A content is what the detectors look at: its size, the marks that stand *)
(* in it, each <<offset, mark>>, the entries of its partition table, the   *)
(* offset its MZ header gives for a new one, and the suffix of its name.   *)
(* A mark that is more than a magic (a TAR header with its checksum, a     *)
(* JFS superblock, an md superblock) stands for a valid one.               *)
(***************************************************************************)
EXTENDS Integers, Sequences, FiniteSets, FiniteSetsExt

Content == [size |-> 4096, suffix |-> "", marks |-> {}, parts |-> <<>>, newHeader |-> 0,
            romEnd |-> 0, cueBeside |-> FALSE, cheap |-> TRUE, cut |-> FALSE]

Has(c, at, mark) == <<at, mark>> \in c.marks
Starts(c, mark) == Has(c, 0, mark)
Left(c, n) ==
  [c EXCEPT !.size = Min({c.size, n}), !.marks = {m \in c.marks : m[1] < n}, !.cut = c.size > n]
Header(c) == Left(c, 81920)

(* The rules of a detector, in their order: the first that applies.        *)
First(rules) ==
  LET hits == {i \in DOMAIN rules : rules[i][1]} IN IF hits = {} THEN "Unknown" ELSE rules[Min(hits)][2]
Rule(format) == <<format # "Unknown", format>>

-----------------------------------------------------------------------------
(* What several detectors look for.                                        *)
Floppies == {163840, 184320, 327680, 368640, 409600, 655360, 737280, 819200, 1228800, 1474560, 1720320, 2949120}
FloppyNamed(c) == c.suffix \in {"img", "ima", "vfd"} /\ c.size \in Floppies
Installer(c) == c.suffix \in {"msi", "msm", "msp", "mst", "pcp", "cub"}
ZipNamed(c) == IF c.suffix \in {"appx", "msix", "appxbundle", "xap"} THEN c.suffix ELSE "ZIP"

Iso(c, unit, payload) == Has(c, 16 * unit + payload + 1, "CD001")
Udf(c, unit, payload) ==
  LET At(i) == (16 + i) * unit + payload + 1
  IN  \E i \in 0..63 : /\ Has(c, At(i), "NSR02") \/ Has(c, At(i), "NSR03")
                       /\ \A j \in 0..i - 1 : \E id \in {"BEA01", "BOOT2", "CD001", "CDW02", "TEA01"} :
                            Has(c, At(j), id)
Optical(c) ==
  LET raw == c.size >= 17 * 2352
  IN  First(<< <<raw /\ Udf(c, 2352, 16), "UDF">>, <<raw /\ Iso(c, 2352, 16), "ISO9660">>,
               <<raw /\ Udf(c, 2352, 24), "UDF">>, <<raw /\ Iso(c, 2352, 24), "ISO9660">>,
               <<Udf(c, 2048, 0), "UDF">>, <<Iso(c, 2048, 0), "ISO9660">> >>)

Parts(c) == {c.parts[i] : i \in DOMAIN c.parts}
BootSigned(c) == c.size >= 512 /\ Has(c, 510, "55AA")
Partitioned(c, total) ==
  BootSigned(c) /\ \E p \in Parts(c) : /\ p.type # 0 /\ p.sectors # 0 /\ p.start >= 1
                                       /\ p.start * 512 < total /\ p.sectors * 512 =< total - p.start * 512
Os2Layout(c, total) ==
  BootSigned(c) /\ \E p \in Parts(c) : /\ p.type \in {53, 5, 15, 133}
                                       /\ p.start # 0 /\ p.sectors # 0 /\ p.start < total \div 512
JfsSupers == {32768, 61440}
Jfs(c) == \E at \in JfsSupers : Has(c, at, "JFS1") /\ at + 24 =< c.size
LostJfs(c) ==
  c.size >= 512 /\ \E p \in Parts(c), at \in JfsSupers :
     /\ p.type # 0 /\ p.start # 0 /\ p.sectors # 0
     /\ Has(c, p.start * 512 + at, "JFS1") /\ p.start * 512 + at + 24 =< c.size
AppleMap(c) == c.size >= 1024 /\ Starts(c, "ER") /\ Has(c, 512, "PM")

AlignDown(n, unit) == IF n =< 0 THEN 0 ELSE (n \div unit) * unit
RaidAt(c, at, mark) == at + 512 =< c.size /\ Has(c, at, mark)
Raid(c) == \/ RaidAt(c, 0, "md1") \/ RaidAt(c, 4096, "md1")
           \/ RaidAt(c, AlignDown(c.size - 8192, 65536), "md1")
           \/ RaidAt(c, AlignDown(c.size - 65536, 512), "md0.90")
DynamicMark(c) == c.size >= 3072 + 8 /\ Has(c, 3072, "PRIVHEAD")
Dynamic(c) == c.size >= 3072 + 512 /\ DynamicMark(c)
Lvm(c) == c.size >= 2048 /\ \E i \in 0..3 : Has(c, 512 * i, "LABELONE")
Swap(c) == c.size >= 4096 /\ Has(c, 4086, "SWAPSPACE2")

Ole(c) == Starts(c, "OLE")
Outlook(c) == Ole(c) /\ \E m \in c.marks : m[2] = "MsgNames"
Koly(c) == c.size >= 512 /\ Has(c, c.size - 512, "koly")
SiemensFooter(c, least) == c.size >= least /\ ~c.cut /\ Has(c, c.size - 4, "footer")
Romdir(c) == c.romEnd =< c.size /\ \E m \in c.marks : m[2] = "RESET" /\ m[1] % 16 = 0
EaList(c) == Starts(c, "FEALIST") /\ ~c.cut
Tar(c) == c.size >= 512 /\ Starts(c, "tar")

RomWrapper(c) == \E mark \in {"B000FF", "NOSAJ", "ARNOLDBOOTBLOCK", "iPAQ "} : Starts(c, mark)
Imgfs(c) == \E m \in c.marks : m[2] = "IMGFS" /\ m[1] % 4096 = 0
WinceRom(c) ==
  \/ RomWrapper(c) \/ Imgfs(c)
  \/ ~Starts(c, "MZ") /\ \E m \in c.marks : m[2] = "ECEC" \/ (m[2] = "ROMHDR" /\ m[1] % 4 = 0)

(* Executables without and behind a DOS stub.                              *)
Direct(c) == First(<< <<c.size >= 64 /\ Starts(c, "NE"), "NE">>, <<c.size >= 172 /\ Starts(c, "LE"), "LE">>,
                      <<c.size >= 172 /\ Starts(c, "LX"), "LX">> >>)
Stubbed(c) ==
  IF ~Starts(c, "MZ") THEN "Unknown"
  ELSE First([i \in 1..4 |-> <<Has(c, c.newHeader, <<"NE", "LE", "LX", "PE">>[i]), <<"NE", "LE", "LX", "PE">>[i]>>]
             \o << <<TRUE, "DosMZ">> >>)

BootSector(c) ==
  First(<< <<BootSigned(c) /\ Has(c, 3, "NTFS"), "NTFS">>, <<c.size >= 512 /\ Starts(c, "regf"), "REGISTRY">>,
           <<BootSigned(c) /\ Has(c, 3, "EXFAT"), "EXFAT">>,
           <<BootSigned(c) /\ (Has(c, 54, "FAT") \/ Has(c, 82, "FAT")), "FAT">> >>)
Magic(c, magics) == First([i \in DOMAIN magics |-> <<Starts(c, magics[i][1]), magics[i][2]>>])
Xbox == << <<"XBEH", "XBE">>, <<"XEX", "XEX">>, <<"XUIZ", "XUIZ">>, <<"LIVE", "LIVE_PIRS">>, <<"CON ", "CON">> >>
Qcow == << <<"QFI1", "QCOW">>, <<"QFI2", "QCOW2">> >>
Encrypted(c) == Magic(c, << <<"EXPH", "EAPPX">>, <<"EXSH", "EAPPX">>, <<"EXBH", "EAPPXBUNDLE">> >>)

-----------------------------------------------------------------------------
(* detectFile: a file on disk, whose name counts.  Its parts stand in the  *)
(* order in which it looks.                                                *)
FileNames(c) ==
  << <<c.suffix = "bin" /\ c.cueBeside, "CUE_BIN">>, <<c.suffix = "mds" /\ Starts(c, "MEDIA DESCRIPTOR"), "MDF_MDS">>,
     <<c.suffix = "mdf", "MDF_MDS">>, <<c.size >= 64 /\ Starts(c, "WithoutFreeSpace"), "PARALLELS_HDD">>,
     <<Outlook(c), "MSG">>, <<Ole(c) /\ Installer(c), "MSI">>, <<Has(c, 4, "SignedImage"), "FFU">>,
     <<c.size >= 52 /\ Starts(c, "TAPE"), "MTF">>, <<Starts(c, "WAD"), "WAD">>, <<Starts(c, "SCEUF"), "PS3_PUP">>,
     <<c.size >= 64 /\ Romdir(Left(c, 16777216)), "PS2_ROMDIR">>, Rule(Encrypted(c)) >>

(* Firmware and optical images; only the first MiB is looked at.           *)
ImgfsNamed(c) == c.suffix \in {"bin", "nb0", "nbf", "fim", "rom", "imgfs"}
FileFirmware(c, head) ==
  << <<c.size >= 31 /\ Starts(c, "FSF"), "SIEMENS_FSF">>, <<c.size >= 31 /\ Starts(c, "FWF"), "SIEMENS_FWF">>,
     <<SiemensFooter(c, 4), "SIEMENS_IMG">>, <<Starts(c, "PlayReady"), "XAP">>, Rule(Magic(c, Qcow)),
     <<Starts(c, "cue"), "CUE_BIN">>, Rule(Optical(head)),
     <<WinceRom(head) \/ (ImgfsNamed(c) /\ Imgfs(c)), "WINCE_ROM">>, <<Starts(c, "resx"), "RESX">>,
     <<FloppyNamed(c) /\ ~Partitioned(head, c.size), "FLOPPY_IMAGE">> >>

FileImages(c) ==
  << <<Starts(c, "KDMV") \/ Starts(c, "# Disk DescriptorFile"), "VMDK">>, <<Koly(c), "DMG">>,
     <<c.size >= 512 /\ (Has(c, c.size - 512, "conectix") \/ Starts(c, "conectix")), "VHD">>,
     <<Starts(c, "vhdxfile"), "VHDX">>, <<Starts(c, "PK"), ZipNamed(c)>>, <<Tar(c), "TAR">>,
     <<Starts(c, "$SDI0001"), "SDI">>, <<c.size >= 512 /\ Starts(c, "ova.xml"), "XVA">>,
     <<Swap(c), "SWAP">>, <<Lvm(c), "LVM">>, <<Raid(c), "LINUX_RAID">>, <<Dynamic(c), "DYNAMIC_DISK">> >>

FileDisks(c) ==
  << <<Jfs(c) /\ ~Os2Layout(c, c.size), "JFS">>, <<LostJfs(c), "RAW_DISK">>, Rule(Direct(c)),
     <<EaList(c), "OS2_EA">>, <<Partitioned(c, c.size) \/ Os2Layout(c, c.size), "RAW_DISK">>,
     <<AppleMap(c), "RAW_DISK">> >>

FileSystems(c) ==
  << <<Has(c, 64, "vdi"), "VDI">>, <<Has(c, 1080, "EF53"), "EXT">>, <<Has(c, 65600, "_BHRfS_M"), "BTRFS">>,
     <<Jfs(c), "JFS">>, <<Has(c, 8192, "HPFS"), "HPFS">>, <<Starts(c, "XFSB"), "XFS">>,
     <<Starts(c, "hsqs"), "SQUASHFS">>, <<Has(c, 1024, "H+"), "HFSPLUS">> >>

FileOptical(c) ==
  LET raw == c.size % 2352 = 0 /\ c.size >= 17 * 2352
  IN  << <<raw /\ Udf(Left(c, 80 * 2352), 2352, 24), "UDF">>, <<raw /\ Iso(c, 2352, 24), "ISO9660">>,
         <<Udf(c, 2048, 0), "UDF">>, <<Iso(c, 2048, 0), "ISO9660">> >>

(* What is read whole.                                                     *)
FileWhole(c) ==
  << <<Starts(c, "FWF") \/ (c.suffix = "fwf" /\ \E m \in c.marks : m[2] = "FirmwareFile"), "SIEMENS_FWF">>,
     Rule(Magic(c, << <<"SZDD", "SZDD">>, <<"MSCF", "CAB">>, <<"MSWIM", "WIM">>, <<"PACK", "OS2_PACK">> >> \o Xbox)),
     Rule(BootSector(c)), <<EaList(c), "OS2_EA">>, Rule(Direct(c)), Rule(Stubbed(c)) >>

DisksFirst(c) ==      \* mutant: partitions before the images that have some
  First(FileNames(c) \o FileFirmware(c, Left(c, 1048576)) \o FileDisks(c) \o FileImages(c)
        \o FileSystems(c) \o FileOptical(c) \o FileWhole(c))
DetectFile(c) ==
  First(FileNames(c) \o FileFirmware(c, Left(c, 1048576)) \o FileImages(c) \o FileDisks(c)
        \o FileSystems(c) \o FileOptical(c) \o FileWhole(c))

-----------------------------------------------------------------------------
(* detectBuffer: the header of a store.                                    *)
HeaderMagics(c) ==
  << <<Outlook(c), "MSG">>, Rule(Encrypted(c)), <<c.size >= 52 /\ Starts(c, "TAPE"), "MTF">>,
     <<Starts(c, "WAD"), "WAD">>, <<Starts(c, "SCEUF"), "PS3_PUP">>, <<Romdir(c), "PS2_ROMDIR">>,
     <<Starts(c, "PlayReady"), "XAP">>, <<Has(c, 4, "SignedImage"), "FFU">>,
     <<c.size >= 31 /\ Starts(c, "FSF"), "SIEMENS_FSF">>, <<Starts(c, "FWF"), "SIEMENS_FWF">>,
     <<Starts(c, "resx"), "RESX">>, Rule(Optical(c)), <<WinceRom(c), "WINCE_ROM">>,
     Rule(Magic(c, << <<"SZDD", "SZDD">>, <<"PK", "ZIP">> >>)), <<Tar(c), "TAR">> >>

HeaderImages(c) ==
  << Rule(Magic(c, << <<"MSCF", "CAB">>, <<"MSWIM", "WIM">>, <<"KDMV", "VMDK">>, <<"conectix", "VHD">> >>)),
     <<Has(c, 64, "vdi"), "VDI">>, Rule(Magic(c, Qcow \o << <<"vhdxfile", "VHDX">>, <<"$SDI0001", "SDI">> >>)),
     <<c.size >= 512 /\ Starts(c, "ova.xml"), "XVA">>, <<Swap(c), "SWAP">>, <<Lvm(c), "LVM">>,
     <<EaList(c), "OS2_EA">>, Rule(Direct(c)), <<Jfs(c) /\ ~Os2Layout(c, c.size), "JFS">>,
     <<Partitioned(c, c.size) \/ Os2Layout(c, c.size) \/ LostJfs(c), "RAW_DISK">>, <<AppleMap(c), "RAW_DISK">>,
     <<RaidAt(c, 0, "md1") \/ RaidAt(c, 4096, "md1"), "LINUX_RAID">>, <<DynamicMark(c), "DYNAMIC_DISK">> >>

HeaderSystems(c) ==
  << Rule(Magic(c, << <<"PACK", "OS2_PACK">> >> \o Xbox)), <<c.size >= 64 /\ Starts(c, "MZ"), Stubbed(c)>>,
     <<Has(c, 1080, "EF53"), "EXT">>, <<Has(c, 65600, "_BHRfS_M"), "BTRFS">>, <<Jfs(c), "JFS">>,
     <<Has(c, 8192, "HPFS"), "HPFS">>, <<Starts(c, "XFSB"), "XFS">>, <<Starts(c, "hsqs"), "SQUASHFS">>,
     <<Koly(c), "DMG">>, <<Has(c, 1024, "H+"), "HFSPLUS">>, Rule(BootSector(c)) >>

DetectBuffer(c) == First(HeaderMagics(c) \o HeaderImages(c) \o HeaderSystems(c))

(* detectNestedBuffer: strong signatures only.                             *)
NestedMagics(c) ==
  << <<Outlook(c), "MSG">>, Rule(Encrypted(c)), <<Starts(c, "SCEUF"), "PS3_PUP">>, <<Romdir(c), "PS2_ROMDIR">>,
     <<Starts(c, "PlayReady"), "XAP">>, <<EaList(c), "OS2_EA">>, Rule(Direct(c)),
     <<Has(c, 4, "SignedImage"), "FFU">>, <<c.size >= 31 /\ Starts(c, "FSF"), "SIEMENS_FSF">>,
     <<Starts(c, "FWF"), "SIEMENS_FWF">>, <<Starts(c, "resx"), "RESX">>, <<RomWrapper(c), "WINCE_ROM">>,
     <<Starts(c, "PK"), "ZIP">>, <<Tar(c), "TAR">>,
     Rule(Magic(c, << <<"MSCF", "CAB">>, <<"SZDD", "SZDD">>, <<"MSWIM", "WIM">>, <<"KDMV", "VMDK">> >> \o Qcow
                   \o << <<"vhdxfile", "VHDX">>, <<"$SDI0001", "SDI">> >> \o Xbox)),
     <<c.size >= 64 /\ Starts(c, "MZ"), Stubbed(c)>> >>
DetectNested(c) == First(NestedMagics(c))

-----------------------------------------------------------------------------
(* ModuleFactory: the doors.  A door names the module, or another door it  *)
(* passes the content on to.                                               *)
ZipFamily == {"ZIP", "appx", "msix", "appxbundle", "xap", "XAP"}
EncryptedFamily == {"EAPPX", "EAPPXBUNDLE"}
ModuleOf(format) ==
  CASE format \in EncryptedFamily         -> "EAPPX"
    [] format = "XAP"                     -> "PlayReadyXap"
    [] format \in ZipFamily \ {"XAP"}     -> "ZIP"
    [] format = "QCOW2"                   -> "QCOW"
    [] OTHER                              -> format

Module(name) == [module |-> name, door |-> "none"]
Door(door) == [module |-> "none", door |-> door]

OpenPath(c) == Module(ModuleOf(DetectFile(c)))

FloppyGuest(c, format) == FloppyNamed(c) /\ format \in {"Unknown", "FAT"}

(* A file that holds bytes which came without one; the name they had.      *)
OpenNamed(c) ==
  LET format == DetectFile([c EXCEPT !.suffix = "", !.cueBeside = FALSE])
  IN  IF FloppyGuest(c, format) THEN Module("FLOPPY_IMAGE") ELSE Module(ModuleOf(format))

(* A store: some formats are opened on it, the rest from all its bytes.    *)
StoreFormats ==
  {"ISO9660", "WIM", "FAT", "UDF", "EXFAT", "VMDK", "EAPPX", "EAPPXBUNDLE", "TAR", "PS3_PUP", "WAD", "MTF",
   "PS2_ROMDIR", "MSG", "MSI", "RAW_DISK", "VHD", "VDI", "QCOW", "QCOW2", "VHDX", "SDI", "XVA", "SWAP", "LVM",
   "LINUX_RAID", "DYNAMIC_DISK", "EXT", "NTFS", "XFS", "JFS", "HPFS", "SQUASHFS", "HFSPLUS", "DMG", "BTRFS", "REGISTRY"}
EarlyFormats == {"WINCE_ROM", "FFU", "XAP", "SIEMENS_FSF", "SIEMENS_FWF"} \cup ZipFamily
ImgCandidate(c, format) == (c.suffix = "img" \/ format = "WINCE_ROM") /\ c.cheap
InstallerGuest(c, format) == format = "Unknown" /\ Installer(c) /\ Ole(c)
StoreDoor(c, format) ==
  First(<< <<ImgCandidate(c, format) /\ SiemensFooter(c, 4), "SIEMENS_IMG">>,
           <<FloppyGuest(c, format), "FLOPPY_IMAGE">>, <<format \in EarlyFormats, format>>,
           <<Koly(c) /\ c.cheap, "DMG">>, <<Dynamic(c), "DYNAMIC_DISK">>, <<Raid(c), "LINUX_RAID">>,
           <<Outlook(c), "MSG">>, <<InstallerGuest(c, format), "MSI">>, <<format \in StoreFormats, format>> >>)
OpenStore(c) ==
  LET format == StoreDoor(c, DetectBuffer(Header(c)))
  IN  IF format = "Unknown" THEN Door("bytes") ELSE Module(ModuleOf(format))

(* Bytes in memory: what has a strong signature is opened from them, the   *)
(* rest from a temporary file.                                             *)
BytesFormats ==
  {"WINCE_ROM", "FFU", "XAP", "EAPPX", "EAPPXBUNDLE", "CAB", "TAR", "PS3_PUP", "PS2_ROMDIR", "MSG", "SZDD", "XUIZ",
   "SIEMENS_FWF", "SIEMENS_FSF", "OS2_EA", "RESX"} \cup ZipFamily
BytesDoor(c, format) ==
  First(<< <<SiemensFooter(c, 64), "SIEMENS_IMG">>, <<FloppyGuest(c, format), "FLOPPY_IMAGE">>,
           <<format \in BytesFormats, format>>, <<format = "Unknown" /\ Outlook(c), "MSG">>,
           <<InstallerGuest(c, format), "MSI">> >>)
OpenBytes(c) ==
  LET format == BytesDoor(c, DetectNested(Header(c)))
  IN  IF format = "Unknown" THEN Door("temporary") ELSE Module(ModuleOf(format))

OpenTemporary(c) == OpenPath([c EXCEPT !.suffix = "", !.cueBeside = FALSE])

-----------------------------------------------------------------------------
(* OpenerSession::adoptModule: the format under which a complete file is   *)
(* marked as one that can be expanded.                                     *)
ProbePrefix(c) ==
  LET format == DetectNested(Left(c, 512))
  IN  First(<< <<format = "ZIP", ZipNamed(c)>>, Rule(format), <<Outlook(c), "MSG">>,
               <<Ole(c) /\ Installer(c), "MSI">> >>)
PayloadFirst(c, format) == format     \* mutant: the image around a ROM is not looked for
ProbeImg(c, format) ==
  IF ImgCandidate(c, format) /\ SiemensFooter(c, 4) THEN "SIEMENS_IMG" ELSE format
ProbeDeep(c) ==
  First(<< Rule(DetectBuffer(Header(c))),
           <<c.suffix \in {"bin", "rom", "img"} /\ c.size >= 64 /\ Romdir(c), "PS2_ROMDIR">>,
           <<c.cheap /\ Raid(c), "LINUX_RAID">>, <<c.cheap /\ Dynamic(c), "DYNAMIC_DISK">> >>)
Probe(c) ==
  LET format == ProbeImg(c, ProbePrefix(c)) IN IF format = "Unknown" THEN ProbeDeep(c) ELSE format
=============================================================================
