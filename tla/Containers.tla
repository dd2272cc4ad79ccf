------------------------------ MODULE Containers ------------------------------
(***************************************************************************)
(* A file that comes to the factory by a door and is opened, a header a    *)
(* turn, by the module the factory finds for it, and whose members are     *)
(* then read, in any order and any ranges.  The stores of members that are *)
(* packed keep what they decoded between two reads.                        *)
(*                                                                         *)
(* FileOf(name) is [kind, data, members, sound, asks, seen, module, doors, *)
(* marked]: `seen` is what the detectors see of it, `doors` how it may     *)
(* come.  The rest is what was put there and nothing but the properties    *)
(* looks at: `members` in their order, each a path and the bytes under it, *)
(* the module it was made for, and whether it is known as a container      *)
(* before it is opened.  A member that was damaged afterwards is marked    *)
(* so, and a file that was is not sound.                                   *)
(***************************************************************************)
EXTENDS MediaFiles

D == INSTANCE Detection

CONSTANTS Files, FileOf(_)

(* What is asked is a member, a place in it and a length, and members hold *)
(* sequences of bytes.                                                     *)
ASSUME FilesAssumption ==
  \A name \in Files :
    /\ FileOf(name).asks \subseteq (DOMAIN FileOf(name).members) \X Nat \X Nat
    /\ \A i \in DOMAIN FileOf(name).members :
         LET bytes == FileOf(name).members[i].bytes IN bytes \in Seq(ToSet(bytes))

VARIABLES
  file,     \* the file that is open, as FileOf gives it, or NoFile
  route,    \* the door the factory passes it through, and the module it found
  walk,     \* how far its module has come in opening it
  caches,   \* what the store of each entry keeps
  answer,   \* the last range read, and the bytes it gave
  beat      \* flips with every turn of opening; only Turning looks at it

vars == <<file, route, walk, caches, answer, beat>>

NoFile == [kind |-> "none"]
NoRoute == [door |-> "none", module |-> "none"]
NoCache == [failed |-> FALSE, bytes |-> <<>>, chunk |-> -1]
NoAnswer == [of |-> 0, pos |-> 0, n |-> 0, bytes |-> <<>>]

Kind == file.kind
Data == file.data

-----------------------------------------------------------------------------
(* The stores.  Each gives its cache after a read, and the bytes.          *)

Slice(bytes, pos, n) == SubSeq(bytes, pos + 1, Min({pos + n, Len(bytes)}))
Reply(cache, bytes) == [cache |-> cache, bytes |-> bytes]

(* ZipCompressedInput: the stream up to the member's packed length.        *)
Packed(data, c) == SubSeq(data.streams[c.at], 1, Min({c.packed, Len(data.streams[c.at])}))

(* ensurePrefix: a longer prefix is decoded from the start again; a        *)
(* failure is remembered, and drops the prefix there was.                  *)
Decoded(cache, got) == [cache EXCEPT !.failed = ~got.ok, !.bytes = got.out]
EnsurePrefix(data, c, cache, wanted) ==
  IF cache.failed \/ Len(cache.bytes) >= wanted THEN cache
  ELSE IF c.at > data.size - c.packed THEN [cache EXCEPT !.failed = TRUE]
  ELSE IF wanted = c.size THEN Decoded(cache, RawExact(Packed(data, c), wanted, <<>>))
  ELSE Decoded(cache, RawPrefix(Packed(data, c), wanted))

EnsureDecoded(data, c, cache) ==
  IF cache.failed \/ cache.bytes # <<>> THEN cache
  ELSE Decoded(cache, ShrinkDecoded(Packed(data, c), c.size))

Answer(cache, pos, n) == Reply(cache, IF cache.failed THEN <<>> ELSE Slice(cache.bytes, pos, n))
ReadDeflate(data, c, cache, pos, n) ==
  Answer(EnsurePrefix(data, c, cache, Min({c.size, pos + n})), pos, Min({c.size - pos, n}))
ReadShrink(data, c, cache, pos, n) == Answer(EnsureDecoded(data, c, cache), pos, n)

(* A window of the file.                                                   *)
Count(c, pos, n) == Min({n, c.size - pos})
WindowPlace(c, p) == c.at + p
ReadWindow(c, pos, n) == [i \in 1..Count(c, pos, n) |-> WindowPlace(c, pos + i - 1)]

(* ChainStore over the file, and over the root's chain for mini sectors.   *)
Place(ids, unit, base, p) == (ids[(p \div unit) + 1] + base) * unit + (p % unit)
ChainPlace(data, c, p) == Place(c.ids, data.sector, 1, p)
ReadChain(data, c, pos, n) == [i \in 1..Count(c, pos, n) |-> ChainPlace(data, c, pos + i - 1)]
ReadMini(data, c, root, pos, n) ==
  [i \in 1..Count(c, pos, n) |-> ChainPlace(data, root, Place(c.ids, data.mini, 0, pos + i - 1))]

(* WimChunkStore: the table before the chunks says where all but the first *)
(* begin; a chunk as long as what it holds is stored, and without a codec  *)
(* every chunk is, cut off or filled up with zeros.                        *)
ChunkAt(c, k) == IF k = 0 THEN 0 ELSE c.table[k]
LastChunk(c) == Len(c.table)
ChunkLength(c, k) ==
  IF k = LastChunk(c) THEN c.packed - 4 * Len(c.table) - ChunkAt(c, k) ELSE ChunkAt(c, k + 1) - ChunkAt(c, k)
ChunkSize(c, k) == IF k = LastChunk(c) THEN c.size - k * c.unit ELSE c.unit
ChunkBytes(data, c, k) ==
  LET stream == At(data.streams, c.at + ChunkAt(c, k), <<>>)
  IN  [i \in 1..ChunkLength(c, k) |-> At(stream, i, 0)]
ChunkDecoded(data, c, k) ==
  IF ChunkLength(c, k) = ChunkSize(c, k) THEN Plain(ChunkBytes(data, c, k))
  ELSE IF c.codec = "raw" THEN Plain([i \in 1..ChunkSize(c, k) |-> At(ChunkBytes(data, c, k), i, 0)])
  ELSE IF c.codec = "lzx" THEN LzxDecoded(ChunkBytes(data, c, k), ChunkSize(c, k), "wim", c.unit)
  ELSE XpressDecoded(ChunkBytes(data, c, k), ChunkSize(c, k))

(* ensureChunk: the cache takes the new chunk's bytes before it is known   *)
(* whether they can be decoded, and keeps the old chunk's number when they *)
(* cannot; what a decoder leaves behind that fails is taken for zeros.     *)
CacheChunk(c, cache, k, got) ==
  IF got.ok THEN [failed |-> FALSE, bytes |-> got.out, chunk |-> k]
  ELSE [cache EXCEPT !.failed = TRUE, !.bytes = [i \in 1..ChunkSize(c, k) |-> 0]]
EnsureChunk(data, c, cache, k) ==
  IF cache.chunk = k THEN [cache EXCEPT !.failed = FALSE]
  ELSE IF ChunkLength(c, k) < 0 THEN [cache EXCEPT !.failed = TRUE]
  ELSE CacheChunk(c, cache, k, ChunkDecoded(data, c, k))

(* A turn reads from one chunk what it holds of the range.                 *)
Taken(st, kept, skip, n) ==
  LET got == Slice(kept.bytes, skip, n - Len(st.bytes))
  IN  IF kept.failed \/ got = <<>> THEN [st EXCEPT !.cache = kept, !.over = TRUE]
      ELSE [st EXCEPT !.cache = kept, !.bytes = @ \o got]
ReadChunk(data, c, pos, n, st) ==
  LET from == pos + Len(st.bytes)
  IN  IF st.over \/ Len(st.bytes) = n \/ from >= c.size THEN st
      ELSE Taken(st, EnsureChunk(data, c, st.cache, from \div c.unit), from % c.unit, n)
ReplyOf(st) == Reply(st.cache, st.bytes)
ReadChunks(data, c, cache, pos, n) ==
  ReplyOf(Turns([cache |-> cache, bytes |-> <<>>, over |-> FALSE], n,
                LAMBDA st : ReadChunk(data, c, pos, n, st)))

(* SectorStore and SectorPayloadStore.                                     *)
SectorPlace(c, p) == c.at + (p \div Limits.data) * c.sector + c.lead + (p % Limits.data)
ReadSectors(c, pos, n) == [i \in 1..Count(c, pos, n) |-> SectorPlace(c, pos + i - 1)]

ReadOf(data, c, cache, pos, n) ==
  IF pos >= c.size THEN Reply(cache, <<>>)
  ELSE CASE c.kind = "range"   -> Reply(cache, ReadWindow(c, pos, n))
         [] c.kind = "held"    -> Reply(cache, Slice(c.bytes, pos, n))
         [] c.kind = "deflate" -> ReadDeflate(data, c, cache, pos, n)
         [] c.kind = "shrink"  -> ReadShrink(data, c, cache, pos, n)
         [] c.kind = "chain"   -> Reply(cache, ReadChain(data, c, pos, n))
         [] c.kind = "mini"    -> Reply(cache, ReadMini(data, c, RootStream(data), pos, n))
         [] c.kind = "sectors" -> Reply(cache, ReadSectors(c, pos, n))
         [] c.kind = "chunks"  -> ReadChunks(data, c, cache, pos, n)

-----------------------------------------------------------------------------
Init ==
  /\ file = NoFile
  /\ route = NoRoute
  /\ walk = Walk
  /\ caches = <<>>
  /\ answer = NoAnswer
  /\ beat = FALSE

Open(name, door) ==
  /\ file = NoFile
  /\ file' = FileOf(name)
  /\ route' = [door |-> door, module |-> "none"]
  /\ UNCHANGED <<walk, caches, answer, beat>>

(* The factory: one detector, and the module or the next door.             *)
Opening == file # NoFile /\ walk.state # "open"
Passed(door, seen) ==
  CASE door = "path"      -> D!OpenPath(seen)
    [] door = "named"     -> D!OpenNamed(seen)
    [] door = "store"     -> D!OpenStore(seen)
    [] door = "bytes"     -> D!OpenBytes(seen)
    [] door = "temporary" -> D!OpenTemporary(seen)
Detect ==
  /\ Opening /\ route.module = "none"
  /\ route' = Passed(route.door, file.seen)
  /\ beat' = ~beat
  /\ UNCHANGED <<file, walk, caches, answer>>

(* What opens in a module that is not one of those below, or in none.      *)
Modelled == Kind # "other" /\ route.module = file.module
OpenOther ==
  /\ Opening /\ route.module # "none" /\ ~Modelled
  /\ walk' = IF route.module = "Unknown" THEN Error(walk) ELSE Ended(walk)
  /\ caches' = [i \in DOMAIN walk'.entries |-> NoCache]
  /\ beat' = ~beat
  /\ UNCHANGED <<file, route, answer>>

Turn(kind, state, next) ==
  /\ Opening /\ Modelled /\ Kind = kind /\ walk.state = state
  /\ walk' = next
  /\ caches' = [i \in DOMAIN walk'.entries |-> NoCache]
  /\ beat' = ~beat
  /\ UNCHANGED <<file, route, answer>>

OpenZip == Turn("zip", "start", ZipStart(Data, walk))
ZipHeader == Turn("zip", "zip", ZipTurn(Data, walk))
ClassifyZip == Turn("zip", "package", ZipPackage(Data, walk))
TarHeader == Turn("tar", "start", TarTurn(Data, walk))
OpenCab == Turn("cab", "start", CabStart(Data, walk))
DecodeFolder == Turn("cab", "folders", CabFolders(Data, walk))
CabFile == Turn("cab", "files", CabFiles(Data, walk))
OpenSzdd == Turn("szdd", "start", SzddTurn(Data, walk))
OpenPack == Turn("pack", "start", PackTurn(Data, walk))
OpenOle == Turn("ole", "start", OleStart(Data, walk))
OleEntry == Turn("ole", "tree", OleTurn(Data, walk))
OpenWim == Turn("wim", "start", WimMembers(Data, walk))
OpenNe == Turn("ne", "start", NeStart(Data, walk))
NeType == Turn("ne", "types", NeTypes(Data, walk))
NeResource == Turn("ne", "table", NeTable(Data, walk))
OpenLe == Turn("le", "start", LeStart(Data, walk))
LeResource == Turn("le", "table", LinearTable(Data, walk))
OpenLx == Turn("lx", "start", LxStart(Data, walk))
LxResource == Turn("lx", "table", LinearTable(Data, walk))
OpenPe == Turn("pe", "start", PeStart(Data, walk))
PeRecord == Turn("pe", "tree", PeTurn(Data, walk))
OpenXbe == Turn("xbe", "start", XbeStart(Data, walk))
XbeSection == Turn("xbe", "sections", XbeTurn(Data, walk))
OpenXex == Turn("xex", "start", XexStart(Data, walk))
XexHeader == Turn("xex", "headers", XexHeaders(Data, walk))
XexPe == Turn("xex", "image", XexImage(Data, walk))
XexResourceRecord == Turn("xex", "records", XexRecord(Data, walk))
OpenMtf == Turn("mtf", "start", MtfStart(Data, walk))
MtfHeader == Turn("mtf", "blocks", MtfBlock(Data, walk))
MtfData == Turn("mtf", "streams", MtfStream(Data, walk))
OpenSdi == Turn("sdi", "start", SdiStart(Data, walk))
SdiRecord == Turn("sdi", "toc", SdiSection(Data, walk))
OpenWad == Turn("wad", "start", WadStart(Data, walk))
WadEntry == Turn("wad", "lumps", WadLump(Data, walk))
TryRomdir == Turn("romdir", "start", RomMark(Data, walk))
OpenPup == Turn("pup", "start", PupStart(Data, walk))
PupEntry == Turn("pup", "segments", PupSegment(Data, walk))
OpenEappx == Turn("eappx", "start", EappxStart(walk))
EappxEntry == Turn("eappx", "parts", EappxPart(Data, walk))
OpenXuiz == Turn("xuiz", "start", XuizStart(Data, walk))
XuizEntry == Turn("xuiz", "files", XuizFile(Data, walk))
OpenEa == Turn("ea", "start", EaStart(Data, walk))
EaEntry == Turn("ea", "values", EaValue(Data, walk))
OpenFsf == Turn("fsf", "start", FsfStart(Data, walk))
FsfEntry == Turn("fsf", "records", FsfRecord(Data, walk))
OpenFfu == Turn("ffu", "start", FfuStart(Data, walk))
FfuHeader == Turn("ffu", "stores", FfuStore(Data, walk))
FfuPartitions == Turn("ffu", "disks", FfuDisk(Data, walk))
OpenMdf == Turn("mdf", "start", MdfStart(Data, walk))
ReadCue == Turn("cue", "start", CueStart(Data, walk))
CueFile == Turn("cue", "sources", CueSource(Data, walk))
CueEntry == Turn("cue", "tracks", CueTrack(Data, walk))

Read(i, pos, n) ==
  /\ walk.state = "open"
  /\ i \in DOMAIN walk.entries
  /\ \E reply \in {ReadOf(Data, walk.entries[i].content, caches[i], pos, n)} :
         /\ caches' = [caches EXCEPT ![i] = reply.cache]
         /\ answer' = [of |-> i, pos |-> pos, n |-> n, bytes |-> reply.bytes]
  /\ UNCHANGED <<file, route, walk, beat>>

Close ==
  /\ file # NoFile /\ walk.state = "open"
  /\ file' = NoFile /\ route' = NoRoute /\ walk' = Walk /\ caches' = <<>> /\ answer' = NoAnswer /\ beat' = FALSE

OpenTurn == \/ Detect \/ OpenOther
            \/ OpenZip \/ ZipHeader \/ ClassifyZip \/ TarHeader \/ OpenCab \/ DecodeFolder
            \/ CabFile \/ OpenSzdd \/ OpenPack \/ OpenOle \/ OleEntry \/ OpenWim
            \/ OpenNe \/ NeType \/ NeResource \/ OpenLe \/ LeResource \/ OpenLx \/ LxResource
            \/ OpenPe \/ PeRecord \/ OpenXbe \/ XbeSection
            \/ OpenXex \/ XexHeader \/ XexPe \/ XexResourceRecord
            \/ OpenMtf \/ MtfHeader \/ MtfData \/ OpenSdi \/ SdiRecord \/ OpenWad \/ WadEntry \/ TryRomdir
            \/ OpenPup \/ PupEntry \/ OpenXuiz \/ XuizEntry \/ OpenEa \/ EaEntry \/ OpenFsf \/ FsfEntry
            \/ OpenFfu \/ FfuHeader \/ FfuPartitions \/ OpenMdf \/ ReadCue \/ CueFile \/ CueEntry
            \/ OpenEappx \/ EappxEntry

Next == \/ \E name \in Files : \E door \in FileOf(name).doors : Open(name, door)
        \/ OpenTurn
        \/ file # NoFile /\ \E ask \in file.asks : Read(ask[1], ask[2], ask[3])
        \/ Close

(* Opening runs in the caller's thread and does not stop on the way: weak  *)
(* fairness of OpenTurn, which is enabled while Opening holds (there is no *)
(* deadlock) and always flips beat.                                        *)
Turning == []<>~Opening \/ []<><<beat' # beat>>_vars
Spec == Init /\ [][Next]_vars /\ Turning

-----------------------------------------------------------------------------
Members == file.members
Opened == file # NoFile /\ walk.state = "open"

(* Whatever door a content comes by, as a file, as a file of another name, *)
(* as a store or as bytes in memory, it is opened by the module of its     *)
(* format, not by that of something it also looks like.                    *)
OpensAsWhatItIs == Opened => route.module = file.module

(* A session marks the resources that can be expanded by a probe of its    *)
(* own: what is marked opens as the module it is marked for, except where  *)
(* only the end of the store or its size shows what is wrapped around it,  *)
(* and a DOS stub longer than what is probed; what can be told from its    *)
(* start is marked.                                                        *)
ProbeAgrees ==
  Opened => LET probed == D!ModuleOf(D!Probe(file.seen))
            IN  /\ \/ probed \in {"Unknown", "DosMZ", route.module}
                   \/ route.module \in {"FLOPPY_IMAGE", "LINUX_RAID"}
                /\ file.marked => probed # "Unknown"

(* Opening a sound file lists the members it holds, under their paths and  *)
(* in their order, and reports no error; a damaged one lists none that it  *)
(* does not hold and none twice; OS/2 PACK and OLE take back what they     *)
(* listed when they report an error.                                       *)
Times(members, leaf) == Cardinality({i \in DOMAIN members : members[i].path[Len(members[i].path)] = leaf})
Leaves(members) == {members[i].path[Len(members[i].path)] : i \in DOMAIN members}
ListsTheFile ==
  Opened =>
    /\ file.sound =>
         /\ ~walk.error /\ Len(walk.entries) = Len(Members)
         /\ \A i \in DOMAIN Members : walk.entries[i].path = Members[i].path
    /\ \A leaf \in Leaves(walk.entries) : Times(walk.entries, leaf) =< Times(Members, leaf)
    /\ walk.error /\ Kind \in {"pack", "ole"} => walk.entries = <<>>

(* Whatever was read before, and whatever the stores kept of it, a range   *)
(* of an undamaged member reads as the bytes the member holds there; of a  *)
(* damaged member it is a part of them from its start, or nothing.         *)
ReadsTheMember ==
  answer.of # 0 =>
    LET member == Members[answer.of]
        there == Slice(member.bytes, answer.pos, answer.n)
    IN  IF member.damaged THEN IsPrefix(answer.bytes, there) ELSE answer.bytes = there

(* The content listed for a member is what its bytes were packed to: read  *)
(* from nothing it gives them, and so does each prefix and each chunk that *)
(* a store may decode of it by itself; what was damaged may also fail to   *)
(* be decoded.  Then ReadsTheMember follows, whatever is read and in       *)
(* whatever order (Containers_proofs has the theorem).                     *)
Gives(got, bytes, damaged) == IF got.ok THEN got.out = bytes ELSE damaged
Prefix(data, c, n) == IF n = c.size THEN RawExact(Packed(data, c), n, <<>>) ELSE RawPrefix(Packed(data, c), n)
ChunksOf(c) == {p \div c.unit : p \in 0..c.size - 1}
ChunkOf(c, bytes, k) == Slice(bytes, k * c.unit, c.unit)

IsPackedAs(data, c, member) ==
  /\ c.size = Len(member.bytes)
  /\ \/ /\ c.kind = "held"
        /\ c.bytes = member.bytes
     \/ /\ c.kind \in {"range", "chain", "mini", "sectors"}
        /\ ReadOf(data, c, NoCache, 0, c.size).bytes = member.bytes
     \/ /\ c.kind = "deflate"
        /\ c.at > data.size - c.packed => member.damaged
        /\ \A n \in 1..c.size : Gives(Prefix(data, c, n), SubSeq(member.bytes, 1, n), member.damaged)
     \/ /\ c.kind = "shrink"
        /\ Gives(ShrinkDecoded(Packed(data, c), c.size), member.bytes, member.damaged)
     \/ /\ c.kind = "chunks" /\ c.unit \in Nat \ {0}
        /\ \A k \in ChunksOf(c) : /\ ChunkLength(c, k) \in Nat
                                  /\ Gives(ChunkDecoded(data, c, k), ChunkOf(c, member.bytes, k), FALSE)
Asked == {ask[1] : ask \in file.asks}
PackedAsWritten ==
  Opened => \A i \in DOMAIN walk.entries :
              file.sound \/ i \in Asked => IsPackedAs(Data, walk.entries[i].content, Members[i])

(* Every file is opened in the end, whatever its headers say: chains of    *)
(* members, trees and sectors that lead back do not hold it up.            *)
OpeningEnds == (file # NoFile) ~> (walk.state = "open")
=============================================================================
