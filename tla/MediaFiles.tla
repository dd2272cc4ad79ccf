------------------------------ MODULE MediaFiles ------------------------------
(***************************************************************************)
(* How the opener's modules open backups, firmware packages and images of  *)
(* discs: MTF, SDI, WAD, the PlayStation's ROMDIR and PUP, XUIZ, the       *)
(* extended attributes of OS/2, Siemens FSF, FFU, MDF, CUE sheets, and     *)
(* encrypted packages.  A header stands at its place in the file, and is   *)
(* looked at a turn at a time.                                             *)
(***************************************************************************)
EXTENDS Executables

Inside(a, at, size) == at =< a.size /\ size =< a.size - at
Parts(name) == SelectSeq(name, LAMBDA p : p # "")
Moved(w, by) == [w EXCEPT !.at = @ + by]

-----------------------------------------------------------------------------
(* MTF: blocks with streams behind them.  Blocks name the volume and the   *)
(* directories; what is nowhere named is at no place.  parts keeps these   *)
(* names, todo the name of the file whose streams are walked.              *)
Volume == -1
MtfNamed(w, id) ==
  LET known == {i \in DOMAIN w.parts : w.parts[i].id = id}
  IN  IF known = {} THEN <<>> ELSE w.parts[Max(known)].name
MtfUnit(a) == IF a.block \in {512, 1024} THEN a.block ELSE 512
MtfStart(a, w) == IF a.size < 52 \/ ~a.signed THEN Error(w) ELSE [w EXCEPT !.state = "blocks"]

MtfKnow(w, id, name) == [w EXCEPT !.parts = Append(@, [id |-> id, name |-> name])]
MtfNames(w, h, read) ==
  CASE h.tag = "VOLB" /\ read >= 69 /\ h.name # <<>> -> MtfKnow(w, Volume, h.name)
    [] h.tag = "DIRB" /\ read >= 84 -> MtfKnow(w, h.id, h.name)
    [] OTHER -> w
MtfStreams(a, w, h, read) ==
  IF h.first < 52 \/ w.at + h.first + 22 > a.size THEN Moved(w, MtfUnit(a))
  ELSE [w EXCEPT !.state = "streams", !.at = @ + h.first, !.n = w.at,
                 !.todo = IF h.tag = "FILE" /\ read >= 88 THEN <<h.id, h.name>> ELSE <<0, <<>>>>]
MtfBlock(a, w) ==
  LET h == Header(a, w.at, "block")
      read == AtMost(MtfUnit(a), a.size - w.at)
  IN  IF w.at + 52 > a.size THEN Ended(w)
      ELSE IF h.kind = "none" THEN Moved(w, MtfUnit(a))
      ELSE MtfStreams(a, MtfNames(w, h, read), h, read)

(* Where no stream begins there are the zeros between them.                *)
NoStreamThere == [kind |-> "stream", id |-> "", length |-> 0, name |-> <<>>]
MtfStreamAt(a, at) ==
  LET s == Header(a, at, "stream") IN IF s.kind = "none" THEN NoStreamThere ELSE s
MtfFile(w, s, from) ==
  LET whole == Parts(MtfNamed(w, w.todo[1]) \o w.todo[2])
      path == IF whole = <<>> THEN <<"file_" \o ToString(Len(w.entries)) \o ".bin">> ELSE whole
  IN  IF s.id # "STAN" \/ w.todo[2] = <<>> THEN w
      ELSE Listed(w, Entry(MtfNamed(w, Volume) \o path, Extent(from, s.length)))
MtfPassed(a, w, s, to) ==
  IF s.id = "SPAD" THEN [w EXCEPT !.state = "blocks", !.at = RoundUp(to, MtfUnit(a))] ELSE [w EXCEPT !.at = to]
MtfStream(a, w) ==
  LET s == MtfStreamAt(a, w.at)
      named == IF s.id = "FNAM" /\ w.todo[2] = <<>> THEN [w EXCEPT !.todo[2] = s.name] ELSE w
  IN  IF w.at + 22 > a.size THEN [w EXCEPT !.state = "blocks", !.at = w.n + MtfUnit(a)]
      ELSE IF ~Inside(a, w.at + 22, s.length) THEN Error(w)
      ELSE MtfPassed(a, MtfFile(named, s, w.at + 22), s, RoundUp(w.at + 22 + s.length, 4))

-----------------------------------------------------------------------------
(* SDI: records in a page of their own, up to the first of no type.        *)
SdiPage(a) == a.alignment * Limits.sdi
SdiStart(a, w) ==
  IF a.size < Limits.sdi \/ ~a.signed \/ a.alignment \notin 1..1048576 THEN Error(w)
  ELSE IF 2 * SdiPage(a) > a.size THEN Error(w)
  ELSE [w EXCEPT !.state = "toc", !.at = SdiPage(a)]
SdiName(w, type) ==
  "Section " \o ToString(w.n + 1) \o (IF type = "" THEN "" ELSE " (" \o type \o ")")
SdiSection(a, w) ==
  LET r == Header(a, w.at, "section")
  IN  IF w.at + 64 > 2 * SdiPage(a) \/ r.kind = "none" THEN Ended(w)
      ELSE IF r.offset < 0 \/ r.size < 0 \/ r.offset + r.size > a.size THEN Error(w)
      ELSE Listed([w EXCEPT !.at = @ + 64, !.n = @ + 1], Entry(<<SdiName(w, r.type)>>, Extent(r.offset, r.size)))

-----------------------------------------------------------------------------
(* WAD: one lump that is not in the file takes back all of them.           *)
WadStart(a, w) ==
  IF a.size < 12 \/ ~a.signed \/ a.count > 1000000 \/ ~Inside(a, a.dir, 16 * a.count) THEN Error(w)
  ELSE [w EXCEPT !.state = "lumps"]
WadLump(a, w) ==
  LET e == a.at[a.dir + 16 * w.n]
      name == IF e.name = "" THEN "LUMP_" \o ToString(w.n) ELSE e.name
  IN  IF w.n = a.count THEN Ended(w)
      ELSE IF ~Inside(a, e.at, e.size) THEN Cleared(w)
      ELSE Listed([w EXCEPT !.n = @ + 1], Entry(<<name>>, Extent(e.at, e.size)))

-----------------------------------------------------------------------------
(* ROMDIR: the first RESET record at a multiple of 16 at which a directory *)
(* can be read.  list has the records up to the first that is all zeros.   *)
(* The bound of a file is an unsigned difference: once the padding of one  *)
(* leads behind the image, what follows is always found to be within it.   *)
RomFits(a, at, size) == at > a.size \/ size =< a.size - at
RomOffsets(h, base) ==
  LET from[i \in 1..Len(h.list) + 1] ==
        IF i = 1 THEN (IF h.list[1].size = base THEN 0 ELSE base)
        ELSE from[i - 1] + RoundUp(h.list[i - 1].size, 16)
  IN  from
RomExtInfo(h) == FoldLeft(LAMBDA sum, e : sum + e.ext, 0, h.list)
HasRequiredHeader(a, h, base) ==
  /\ base + 48 =< a.size /\ Len(h.list) >= 3
  /\ h.list[1].name = "RESET" /\ h.list[1].size \in {0, base}
  /\ h.list[2].name = "ROMDIR" /\ h.list[3].name = "EXTINFO"
RomPlaced(a, h, base, from) ==
  /\ \A i \in DOMAIN h.list : RomFits(a, from[i], h.list[i].size)
  /\ from[3] = base + RoundUp(h.list[2].size, 16) /\ Inside(a, from[3], h.list[3].size)
  /\ RomExtInfo(h) =< h.list[3].size
ParsePs2Romdir(a, h, base) ==
  /\ HasRequiredHeader(a, h, base)
  /\ h.list[2].size >= 64 /\ h.list[2].size % 16 = 0 /\ base + h.list[2].size =< a.size
  /\ 16 * Len(h.list) < h.list[2].size                   \* the record of zeros is part of it
  /\ \A i \in DOMAIN h.list : h.list[i].name # ""
  /\ RomPlaced(a, h, base, RomOffsets(h, base))
RomListed(w, h, from) ==
  Ended([w EXCEPT !.entries = [i \in DOMAIN h.list |-> Entry(<<h.list[i].name>>, Extent(from[i], h.list[i].size))]])
RomMark(a, w) ==
  LET marks == {p \in DOMAIN a.at : a.at[p].kind = "reset" /\ p % 16 = 0} \ w.seen
      base == Min(marks)
  IN  IF a.size < 64 \/ marks = {} THEN Error(w)
      ELSE IF ParsePs2Romdir(a, a.at[base], base) THEN RomListed(w, a.at[base], RomOffsets(a.at[base], base))
      ELSE [w EXCEPT !.seen = @ \cup {base}]

-----------------------------------------------------------------------------
(* PUP: a segment that cannot be at its offset is looked for at as much    *)
(* behind the headers.                                                     *)
PupHeaders(a) == 48 + 32 * a.count + 32 * a.count + 32
PupStart(a, w) ==
  IF a.size < 48 \/ ~a.signed \/ a.count \notin 1..4096 THEN Error(w)
  ELSE IF a.headerLength < PupHeaders(a) \/ a.headerLength > a.size THEN Error(w)
  ELSE [w EXCEPT !.state = "segments"]
PupOffset(a, s) ==
  IF s.size = 0 \/ (s.offset >= a.headerLength /\ Inside(a, s.offset, s.size)) THEN s.offset
  ELSE IF Inside(a, a.headerLength + s.offset, s.size) THEN a.headerLength + s.offset ELSE s.offset
SegmentName(s) ==
  CASE s.id = 256 -> "version.txt" [] s.id = 257 -> "license.xml" [] s.id = 512 -> "ps3swu.self"
    [] s.id = 513 -> "vsh.tar" [] s.id = 768 -> "update_files.tar"
    [] OTHER -> "segment_" \o ToString(s.id) \o s.suffix
PupListed(a, w, s, at) ==
  IF ~(s.size = 0 /\ at = 0) /\ ~(at >= a.headerLength /\ Inside(a, at, s.size)) THEN Cleared(w)
  ELSE Listed([w EXCEPT !.n = @ + 1], Entry(<<SegmentName(s)>>, IF s.size = 0 THEN Bytes(<<>>) ELSE Extent(at, s.size)))
PupSegment(a, w) ==
  IF w.n = a.count THEN Ended(w)
  ELSE PupListed(a, w, a.segments[w.n + 1], PupOffset(a, a.segments[w.n + 1]))

-----------------------------------------------------------------------------
(* XUIZ: the list ends where the content begins; a file is listed below a  *)
(* folder of its name.                                                     *)
XuizBase(a) == 22 + a.pointer
XuizStart(a, w) ==
  IF a.size < 22 \/ ~a.signed \/ a.declared # a.size \/ XuizBase(a) > a.size THEN Error(w)
  ELSE [w EXCEPT !.state = "files", !.at = 22]
NormalizeXuizPath(name) ==
  LET kept == SelectSeq(Parts(name), LAMBDA p : p # ".")
  IN  [i \in DOMAIN kept |-> IF kept[i] = ".." THEN "_" ELSE kept[i]]
XuizNamed(a, w, e, path, at) ==
  IF path = <<>> \/ ~Inside(a, at, e.size) THEN Cleared(w)
  ELSE Listed([w EXCEPT !.n = @ + 1, !.at = @ + 9 + e.nameLength],
              Entry(Append(path, path[Len(path)]), Extent(at, e.size)))
XuizFile(a, w) ==
  LET e == a.files[w.n + 1]
  IN  IF w.n = Len(a.files) THEN Ended(w)
      ELSE IF w.at + 9 > XuizBase(a) \/ e.nameLength = 0 \/ w.at + 9 + e.nameLength > XuizBase(a) THEN Cleared(w)
      ELSE XuizNamed(a, w, e, NormalizeXuizPath(e.name), XuizBase(a) + e.offset)

-----------------------------------------------------------------------------
(* Extended attributes: texts of a value of many parts are joined; a value *)
(* that says its type and length is unwrapped.  zeros tells how many zeros *)
(* a text ends with.                                                       *)
Newline == -3
EaStart(a, w) == IF a.size < 8 \/ a.declared # a.size THEN Error(w) ELSE [w EXCEPT !.state = "values", !.at = 4]

EaText(at, length, zeros) == Places(at, length - zeros)
EaItem(text, it) == (IF text = <<>> THEN text ELSE Append(text, Newline)) \o EaText(it.at, it.length, it.zeros)
UnwrapMultiType(v, at, end) ==
  IF v.type # "multi-value multi-type" \/ v.length < 6 THEN Undecoded
  ELSE IF \E i \in DOMAIN v.items : v.items[i].type # "ASCII" \/ v.items[i].at + v.items[i].length > end THEN Undecoded
  ELSE Plain(FoldLeft(EaItem, <<>>, v.items))
UnwrapSingleValue(v, at) ==
  IF v.length < 4 \/ v.given > v.length - 4 THEN Undecoded
  ELSE Plain(EaText(at + 4, v.given, IF v.type = "ASCII" THEN v.zeros ELSE 0))
EaPayload(v, at, multi, single) ==
  IF multi.ok THEN [type |-> "multi-value multi-type", bytes |-> multi.out]
  ELSE IF single.ok THEN [type |-> v.type, bytes |-> single.out]
  ELSE [type |-> "type 0x0000", bytes |-> Places(at, v.length)]

EaListed(w, h, payload, to) ==
  Listed([w EXCEPT !.at = to], Entry(<<"Extended attributes", payload.type, h.name>>, Bytes(payload.bytes)))
EaValue(a, w) ==
  LET h == Header(a, w.at, "fea")
      from == w.at + 4 + h.nameLength + 1
      v == h.value
  IN  IF w.at >= a.size THEN (IF w.entries = <<>> THEN Error(w) ELSE Ended(w))
      ELSE IF w.at + 4 > a.size \/ h.kind = "none" THEN Cleared(w)
      ELSE IF h.nameLength = 0 \/ ~Inside(a, from, v.length) \/ ~h.ended THEN Cleared(w)
      ELSE EaListed(w, h, EaPayload(v, from, UnwrapMultiType(v, from, from + v.length), UnwrapSingleValue(v, from)),
                    from + v.length)

-----------------------------------------------------------------------------
(* FSF: a file that is cut off keeps what is whole of it; a path that      *)
(* leads elsewhere takes back everything.                                  *)
FsfStart(a, w) ==
  IF a.size < 20 \/ ~a.signed \/ a.count \notin 1..1000000 THEN Error(w)
  ELSE [w EXCEPT !.state = "records", !.at = 20]
FsfCut(w) == IF w.entries = <<>> THEN Error(w) ELSE Ended(w)
FsfMember(w, r, path) ==
  IF r.type # 1 \/ r.version # 1 THEN w ELSE Listed(w, Entry(path, Extent(w.at + r.length, r.payload)))
FsfNamed(a, w, r, path) ==
  IF path = <<>> \/ Unsafe(path) THEN Cleared(w)
  ELSE IF ~Inside(a, w.at + r.length, r.payload) THEN FsfCut(w)
  ELSE [FsfMember(w, r, path) EXCEPT !.at = @ + r.length + r.payload, !.n = @ + 1]
FsfRecord(a, w) ==
  LET r == Header(a, w.at, "record")
  IN  IF w.n = a.count \/ w.at + 11 > a.size THEN FsfCut(w)
      ELSE IF r.kind = "none" THEN Cleared(w)
      ELSE IF r.length < 11 + r.nameLength + 4 \/ r.length > 16384 THEN Cleared(w)
      ELSE IF w.at + r.length > a.size THEN FsfCut(w)
      ELSE FsfNamed(a, w, r, Parts(r.name))

-----------------------------------------------------------------------------
(* FFU: stores, each a disk that is written block by block, counted from   *)
(* its beginning or (method 2) from its end, which only its GPT tells.  A  *)
(* store of version 1 is the first of one.                                 *)
FfuSecurity(a) == RoundUp(a.security + a.catalog + a.hash, a.chunk)
FfuStart(a, w) ==
  LET image == Header(a, FfuSecurity(a), "image")
      stores == FfuSecurity(a) + RoundUp(image.size + image.manifest, a.chunk)
  IN  IF a.size < 32 \/ ~a.signed \/ a.security < 32 \/ a.chunk \notin 1..67108864 THEN Error(w)
      ELSE IF FfuSecurity(a) + 24 > a.size \/ image.kind = "none" THEN Error(w)
      ELSE IF image.size < 24 \/ stores >= a.size THEN Error(w)
      ELSE [w EXCEPT !.state = "stores", !.at = stores]

FfuBlocks(writes) == FoldLeft(LAMBDA n, d : n + d.blocks, 0, writes)
FfuTable(writes) == FoldLeft(LAMBDA n, d : n + 8 + 8 * Len(d.locations), 0, writes)
FfuPayload(s) == FfuBlocks(s.writes) * s.blockSize
FfuHeaders(s) == (IF s.major = 1 THEN 248 ELSE 262 + 2 * s.pathLength) + s.validate + s.length
FfuAccepts(s) ==
  /\ s.major \in 1..16 /\ s.blockSize \in 512..67108864 /\ s.blockSize % 512 = 0
  /\ s.index \in 1..s.count /\ s.count =< 256
  /\ FfuTable(s.writes) =< s.length
  /\ \A i \in DOMAIN s.writes :
       s.writes[i].blocks > 0 /\ s.writes[i].locations # <<>> /\ \A l \in ToSet(s.writes[i].locations) : l.method \in {0, 2}
  /\ s.payload \in {0, FfuPayload(s)}
FfuPayloads(a, w, end) ==
  IF end > a.size \/ a.size \notin {end, RoundUp(end, a.chunk)} THEN Error(w) ELSE [w EXCEPT !.state = "disks"]
FfuKept(a, w) ==
  LET s == Last(w.parts)
  IN  IF s.count # w.parts[1].count \/ s.index # Len(w.parts) THEN Error(w)
      ELSE IF s.index < s.count THEN w
      ELSE FfuPayloads(a, w, w.at + FoldLeft(LAMBDA n, x : n + FfuPayload(x), 0, w.parts))
FfuStore(a, w) ==
  LET s == Header(a, w.at, "store")
      next == w.at + RoundUp(FfuHeaders(s), a.chunk)
  IN  IF w.at + 248 > a.size \/ s.kind = "none" THEN Error(w)
      ELSE IF ~FfuAccepts(s) \/ w.at + FfuHeaders(s) > a.size \/ next > a.size THEN Error(w)
      ELSE FfuKept(a, [w EXCEPT !.parts = Append(@, s), !.at = next])

(* What is on a disk of so many blocks: the last write to a block stands.  *)
FfuTarget(s, i, l, blocks) == IF l.method = 0 THEN l.block ELSE blocks - l.block - s.writes[i].blocks
FfuWriters(s, methods, blocks, k) ==
  {x \in UNION {{i} \X DOMAIN s.writes[i].locations : i \in DOMAIN s.writes} :
     LET write == s.writes[x[1]]
         l == write.locations[x[2]]
     IN  l.method \in methods /\ k - FfuTarget(s, x[1], l, blocks) \in 0..(write.blocks - 1)}
FfuBlock(s, from, blocks, k, writer) ==
  from + (FfuBlocks(SubSeq(s.writes, 1, writer[1] - 1))
          + k - FfuTarget(s, writer[1], s.writes[writer[1]].locations[writer[2]], blocks)) * s.blockSize
FfuPlace(s, from, methods, blocks, p) ==
  LET writers == FfuWriters(s, methods, blocks, p \div s.blockSize)
      last == CHOOSE x \in writers : \A y \in writers : y[1] < x[1] \/ (y[1] = x[1] /\ y[2] =< x[2])
  IN  IF writers = {} THEN Zero ELSE FfuBlock(s, from, blocks, p \div s.blockSize, last) + (p % s.blockSize)

FfuBegin(s) ==
  Max({0} \cup UNION {{l.block + s.writes[i].blocks : l \in {x \in ToSet(s.writes[i].locations) : x.method = 0}} :
                        i \in DOMAIN s.writes})
FfuDiskSize(a, w, s) ==
  LET gpt == Header(a, FfuPlace(s, w.at, {0}, 0, 512), "gpt")
  IN  IF FfuBegin(s) * s.blockSize < 1024 \/ gpt.kind = "none" THEN FfuBegin(s) * s.blockSize
      ELSE IF gpt.alternate = 0 THEN FfuBegin(s) * s.blockSize ELSE (gpt.alternate + 1) * 512

FfuVisible(a, w, s, size, blocks, gpt) ==
  SelectSeq([i \in 1..gpt.count |-> Header(a, FfuPlace(s, w.at, {0, 2}, blocks, gpt.entries * 512 + (i - 1) * gpt.entrySize), "part")],
            LAMBDA e : e.kind # "none" /\ e.last >= e.first /\ (e.last + 1) * 512 =< size)
FfuPath(w, s, e, i) ==
  (IF Len(w.parts) = 1 THEN <<>>
   ELSE << "Store " \o ToString(s.index) \o (IF s.path = "" THEN "" ELSE " (" \o s.path \o ")") >>)
  \o << IF e.name = "" THEN "Partition " \o ToString(i) ELSE e.name >>
FfuPart(w, s, e, blocks) ==
  Bytes([i \in 1..(e.last + 1 - e.first) * 512 |-> FfuPlace(s, w.at, {0, 2}, blocks, e.first * 512 + i - 1)])
FfuListed(w, s, visible, blocks) ==
  IF visible = <<>> THEN Cleared(w)
  ELSE [w EXCEPT !.n = @ + 1, !.at = @ + FfuPayload(s),
                 !.entries = @ \o [i \in DOMAIN visible |-> Entry(FfuPath(w, s, visible[i], i), FfuPart(w, s, visible[i], blocks))]]
FfuParted(a, w, s, size, blocks, gpt) ==
  IF size < 604 \/ gpt.kind = "none" THEN Cleared(w)
  ELSE IF gpt.count \notin 1..4096 \/ gpt.entrySize \notin 128..4096 THEN Cleared(w)
  ELSE IF gpt.entries * 512 + gpt.count * gpt.entrySize > size THEN Cleared(w)
  ELSE FfuListed(w, s, FfuVisible(a, w, s, size, blocks, gpt), blocks)
FfuBuilt(a, w, s, size, blocks) ==
  IF \E i \in DOMAIN s.writes : \E l \in ToSet(s.writes[i].locations) :
        FfuTarget(s, i, l, blocks) \notin 0..(blocks - s.writes[i].blocks)
  THEN Cleared(w)
  ELSE FfuParted(a, w, s, size, blocks, Header(a, FfuPlace(s, w.at, {0, 2}, blocks, 512), "gpt"))
FfuSized(a, w, s, size) ==
  IF FfuBegin(s) = 0 THEN Cleared(w) ELSE FfuBuilt(a, w, s, size, (size + s.blockSize - 1) \div s.blockSize)
FfuDisk(a, w) ==
  LET s == w.parts[w.n + 1]
  IN  IF w.n = Len(w.parts) THEN Ended(w) ELSE FfuSized(a, w, s, FfuDiskSize(a, w, s))

-----------------------------------------------------------------------------
(* Sectors as they are on a disc, of which only the data is shown.         *)
Sectors(at, size, sector, lead) ==
  IF sector = Limits.data THEN Extent(at, size)
  ELSE [kind |-> "sectors", at |-> at, size |-> (size \div sector) * Limits.data, sector |-> sector, lead |-> lead]

(* MDF: volumes has where, for sectors of which length, an ISO volume is.  *)
MdfLayouts == << <<Limits.data, 0>>, <<Limits.raw, Limits.sync>>, <<Limits.sub, Limits.sync>> >>
MdfLayout(a) ==
  LET even == SelectSeq(MdfLayouts, LAMBDA l : a.size % l[1] = 0)
      volume == SelectSeq(even, LAMBDA l : l \in a.volumes)
      other == SelectSeq(<<MdfLayouts[2], MdfLayouts[3], MdfLayouts[1]>>, LAMBDA l : a.size % l[1] = 0)
  IN  IF volume # <<>> THEN volume[1] ELSE IF other # <<>> THEN other[1] ELSE <<0, 0>>
MdfTrack(a, w, layout) ==
  IF layout[1] = 0 THEN Error(w)
  ELSE Ended(Listed(w, Entry(<<"Track 01">>, Sectors(0, a.size, layout[1], layout[2]))))
MdfStart(a, w) ==
  IF a.suffix = "mds" /\ ~(a.signed /\ a.companion) THEN Error(w) ELSE MdfTrack(a, w, MdfLayout(a))

-----------------------------------------------------------------------------
(* CUE: the sheet, a line after the other, gives files and the tracks in   *)
(* them.  A line that cannot be read is not fine.  The files lie one       *)
(* behind the other, so that a place is that of one byte of one of them.   *)
NoIndex == -1
SectorSizeForMode(mode) ==
  CASE mode \in {"AUDIO", "MODE1/2352", "MODE2/2352", "CDI/2352"} -> Limits.raw
    [] mode = "MODE1/2048" -> Limits.data
    [] mode \in {"MODE2/2336", "CDI/2336"} -> Limits.headed
    [] mode = "CDG" -> Limits.sub
    [] OTHER -> 0
IsData(mode) == mode \notin {"AUDIO", "CDG"}
PayloadAt(mode) ==
  CASE mode = "MODE1/2048" -> 0 [] mode = "MODE1/2352" -> Limits.sync
    [] mode \in {"MODE2/2336", "CDI/2336"} -> Limits.subheader
    [] mode \in {"MODE2/2352", "CDI/2352"} -> Limits.sync + Limits.subheader
Alternate(mode) ==
  CASE mode = "MODE2/2336" -> 0 [] mode = "MODE2/2352" -> Limits.sync [] OTHER -> PayloadAt(mode)

SheetFails(c) == [c EXCEPT !.ok = FALSE]
Sheet == [ok |-> TRUE, files |-> <<>>, tracks |-> <<>>, open |-> FALSE]    \* open: a track takes what follows
NewTrack(c, line) ==
  IF c.files = <<>> \/ line.number \notin 1..99 \/ SectorSizeForMode(line.mode) = 0 THEN SheetFails(c)
  ELSE [c EXCEPT !.open = TRUE,
                 !.tracks = Append(@, [number |-> line.number, mode |-> line.mode, file |-> Len(c.files), title |-> "",
                                       index00 |-> NoIndex, index01 |-> NoIndex])]
Indexed(c, line) ==
  LET n == Len(c.tracks)
  IN  IF ~c.open THEN SheetFails(c)
      ELSE IF line.number = 0 THEN [c EXCEPT !.tracks[n].index00 = line.sectors]
      ELSE IF line.number = 1 THEN [c EXCEPT !.tracks[n].index01 = line.sectors] ELSE c
CueLine(c, line) ==
  IF ~line.fine THEN SheetFails(c)
  ELSE CASE line.command = "FILE" -> [c EXCEPT !.files = Append(@, [path |-> line.path, type |-> line.type]), !.open = FALSE]
         [] line.command = "TRACK" -> NewTrack(c, line)
         [] line.command = "INDEX" -> Indexed(c, line)
         [] line.command \in {"PREGAP", "POSTGAP"} -> (IF c.open THEN c ELSE SheetFails(c))
         [] line.command = "TITLE" /\ c.open -> [c EXCEPT !.tracks[Len(c.tracks)].title = line.text]
         [] OTHER -> c
CueSheet(lines) == FoldLeft(LAMBDA c, line : IF c.ok THEN CueLine(c, line) ELSE c, Sheet, lines)
CueAccepts(c) ==
  /\ c.ok /\ c.tracks # <<>>
  /\ \A i \in DOMAIN c.tracks :
       /\ c.tracks[i].index01 # NoIndex /\ c.tracks[i].index00 =< c.tracks[i].index01
       /\ i > 1 => c.tracks[i - 1].number < c.tracks[i].number

(* A file has to be below the folder of the sheet, whatever way leads to   *)
(* it.  disk has the files there.                                          *)
CleanPath(path) ==
  FoldLeft(LAMBDA to, p : IF p = "." THEN to
                          ELSE IF p = ".." /\ to # <<>> /\ Last(to) # ".." THEN SubSeq(to, 1, Len(to) - 1)
                          ELSE Append(to, p), <<>>, Parts(path))
ResolveRelativeFile(a, path) ==
  LET to == CleanPath(path)
  IN  IF path = <<>> THEN NoHeader
      ELSE IF Head(path) = "" \/ to = <<>> THEN NoHeader
      ELSE IF Head(to) = ".." THEN NoHeader ELSE At(a.disk, to, NoHeader)

CueOpened(w, c) ==
  IF ~CueAccepts(c) THEN Error(w) ELSE [w EXCEPT !.state = "sources", !.todo = c.files, !.parts = c.tracks]
CueStart(a, w) ==
  IF a.suffix = "bin" /\ ~a.beside THEN Error(w) ELSE CueOpened(w, CueSheet(a.lines))

TrackSizes(w, n) == {SectorSizeForMode(t.mode) : t \in {x \in ToSet(w.parts) : x.file = n}}
CueChecked(w, source, sizes) ==
  IF source.kind = "none" \/ Cardinality(sizes) # 1 THEN Error(w)
  ELSE IF source.size % (CHOOSE s \in sizes : TRUE) # 0 THEN Error(w) ELSE [w EXCEPT !.n = @ + 1]
CueListed(a, w) ==
  [w EXCEPT !.state = "tracks", !.n = 0,
            !.entries = << Entry(<<"Descriptor", a.name, a.name>>, Extent(a.sheet.at, a.sheet.size)),
                           Entry(<<"Descriptor", "disc-info.txt", "disc-info.txt">>, Text(0)) >>
                        \o [i \in DOMAIN w.todo |->
                              LET source == ResolveRelativeFile(a, w.todo[i].path)
                                  name == Last(w.todo[i].path)
                              IN  Entry(<<"Source files", name, name>>, Extent(source.at, source.size))]]
CueSource(a, w) ==
  IF w.n = Len(w.todo) THEN CueListed(a, w)
  ELSE IF w.todo[w.n + 1].type # "BINARY" THEN Error(w)
  ELSE CueChecked(w, ResolveRelativeFile(a, w.todo[w.n + 1].path), TrackSizes(w, w.n + 1))

(* A track reaches to the next one of its file, or to the end of it.       *)
TrackEnd(w, k, sectors) ==
  LET next == w.parts[k + 1]
  IN  IF k = Len(w.parts) THEN sectors
      ELSE IF next.file # w.parts[k].file THEN sectors
      ELSE IF next.index00 # NoIndex THEN next.index00 ELSE next.index01
SelectedPayload(a, t) ==
  IF <<t.number, PayloadAt(t.mode)>> \notin a.volumes /\ <<t.number, Alternate(t.mode)>> \in a.volumes
  THEN Alternate(t.mode) ELSE PayloadAt(t.mode)
Two(n) == (IF n < 10 THEN "0" ELSE "") \o ToString(n)
TrackName(t) ==
  "Track " \o Two(t.number) \o (IF t.title = "" THEN "" ELSE " - " \o t.title) \o (IF IsData(t.mode) THEN ".iso" ELSE ".raw")
TrackContent(a, t, at, size) ==
  IF IsData(t.mode) THEN Sectors(at, size, SectorSizeForMode(t.mode), SelectedPayload(a, t)) ELSE Extent(at, size)
TrackListed(a, w, t, source, end) ==
  LET unit == SectorSizeForMode(t.mode)
      name == TrackName(t)
  IN  IF t.index01 >= source.size \div unit \/ end > source.size \div unit \/ end =< t.index01 THEN Cleared(w)
      ELSE Listed([w EXCEPT !.n = @ + 1],
                  Entry(<<"Tracks", name, name>>,
                        TrackContent(a, t, source.at + t.index01 * unit, (end - t.index01) * unit)))
CueTrack(a, w) ==
  LET t == w.parts[w.n + 1]
      source == ResolveRelativeFile(a, w.todo[t.file].path)
  IN  IF w.n = Len(w.parts) THEN Ended(w)
      ELSE TrackListed(a, w, t, source, TrackEnd(w, w.n + 1, source.size \div SectorSizeForMode(t.mode)))
-----------------------------------------------------------------------------
(* EAppX: containers of parts, where a part of a bundle may be a container *)
(* again.  todo has what is to be listed yet: parts, each with the base    *)
(* its offsets count from, the folder it goes to and its depth.  stems has *)
(* file names without their suffixes.                                      *)
CleanPart(path) ==
  LET clean == Parts(path)
  IN  IF clean = <<"..">> \/ \E i \in 1..Len(path) - 1 : path[i] = ".." THEN <<>> ELSE clean
PartPath(part) ==
  LET path == CleanPart(part.path) IN IF path = <<>> THEN <<"part_" \o ToString(part.id) \o ".dat">> ELSE path
PartContent(at, part) ==
  IF part.zipped = 0 THEN Extent(at, part.length)
  ELSE [kind |-> "deflate", at |-> at, packed |-> part.length, size |-> part.size]
PartEntry(base, folder, part) == Entry(folder \o PartPath(part), PartContent(base + part.at, part))

(* readAll, and the elements of the text: only what is marked 1 is packed. *)
PackedPart(a, at, length) ==
  LET stream == At(a.streams, at, <<>>) IN SubSeq(stream, 1, Min({length, Len(stream)}))
Elements(a, at, part) ==
  LET h == Header(a, at, IF part.zipped = 1 THEN "packed text" ELSE "text")
  IN  IF h.kind = "none" \/ part.size > 67108864 THEN <<>>
      ELSE IF part.zipped # 1 \/ RawExact(PackedPart(a, at, part.length), part.size, <<>>).ok THEN h.elements
      ELSE <<>>

(* The last part is the block map, which names the parts by their id; the  *)
(* manifest of a bundle names those that are packages by their offset.     *)
FooterEntry == 40
FooterParts(h) ==
  <<>> \o [i \in 1..h.footer.length \div FooterEntry |->
     h.parts[i] @@ [path |-> <<ToString(i - 1) \o ".dat">>, package |-> FALSE]]
MapNamed(parts, e) ==
  LET hits == {i \in DOMAIN parts : parts[i].id = e.id}
  IN  IF hits = {} \/ e.name = <<>> THEN parts ELSE [parts EXCEPT ![Min(hits)].path = e.name]
BlockMapped(a, base, parts) ==
  LET map == Last(parts)
  IN  FoldLeft(MapNamed, [parts EXCEPT ![Len(parts)].path = <<"AppxBlockMap.xml">>], Elements(a, base + map.at, map))
Packaged(parts, e) ==
  LET hits == {i \in DOMAIN parts : parts[i].at = e.offset}
  IN  IF hits = {} \/ e.name = <<>> THEN parts
      ELSE [parts EXCEPT ![Min(hits)].path = e.name, ![Min(hits)].package = TRUE]
Manifest == <<"AppxMetadata", "AppxBundleManifest.xml">>
Manifested(a, base, parts) ==
  LET manifests == {i \in DOMAIN parts : CleanPart(parts[i].path) = Manifest}
      manifest == parts[Min(manifests)]
  IN  IF manifests = {} THEN parts ELSE FoldLeft(Packaged, parts, Elements(a, base + manifest.at, manifest))
EappxParts(a, base, h) ==
  LET parts == BlockMapped(a, base, FooterParts(h)) IN IF h.bundle THEN Manifested(a, base, parts) ELSE parts

EappxAccepts(a, base, h) ==
  /\ h.kind = "eappx" /\ Inside(a, base, 6)
  /\ h.size \in 80..1048576 /\ Inside(a, base, h.size)
  /\ h.used =< h.size /\ h.even
  /\ Inside(a, base + h.footer.at, h.footer.length) /\ h.footer.length % FooterEntry = 0
  /\ h.footer.length > 0
  /\ \A i \in 1..h.footer.length \div FooterEntry : Inside(a, base + h.parts[i].at, h.parts[i].length)

(* The signature and the catalogue come first, where there are any.        *)
EappxExtras(a, base, h) ==
  SelectSeq(<< h.signature @@ [id |-> 0, path |-> <<"AppxSignature.p7x">>, package |-> FALSE],
               h.catalogue @@ [id |-> 0, path |-> <<"AppxMetadata", "CodeIntegrity.cat">>, package |-> FALSE] >>,
            LAMBDA p : p.at # 0 /\ p.length # 0 /\ Inside(a, base + p.at, p.length))
Job(base, folder, depth, part) == [base |-> base, folder |-> folder, depth |-> depth, part |-> part]
EappxOpened(w, base, folder, depth, parts) ==
  [w EXCEPT !.todo = [i \in DOMAIN parts |-> Job(base, folder, depth + 1, parts[i])] \o Tail(@)]

(* A package that is no container after all, or lies too deep, is a part.  *)
EappxFolder(a, job) ==
  LET path == CleanPart(job.part.path)
      stem == IF path = <<>> THEN "" ELSE At(a.stems, Last(path), "")
  IN  IF stem = "" THEN job.folder ELSE Append(job.folder, stem)
EappxListed(w, job) == Listed([w EXCEPT !.todo = Tail(@)], PartEntry(job.base, job.folder, job.part))
EappxContainer(a, w, job, base, h) ==
  IF job.depth =< 8 /\ EappxAccepts(a, base, h)
  THEN EappxOpened(w, base, EappxFolder(a, job), job.depth, EappxExtras(a, base, h) \o EappxParts(a, base, h))
  ELSE IF job.depth = 0 THEN Error(w) ELSE EappxListed(w, job)
EappxStart(w) ==
  [w EXCEPT !.state = "parts", !.todo = << Job(0, <<>>, 0, [at |-> 0, path |-> <<>>, package |-> TRUE]) >>]
EappxPart(a, w) ==
  LET job == Head(w.todo)
      base == job.base + job.part.at
  IN  IF w.todo = <<>> THEN Ended(w)
      ELSE IF job.part.package THEN EappxContainer(a, w, job, base, Header(a, base, "eappx")) ELSE EappxListed(w, job)
=============================================================================
