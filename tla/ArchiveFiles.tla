---------------------------- MODULE ArchiveFiles ----------------------------
(***************************************************************************)
(* How the archive modules of opener/modules open a file: ZIP, TAR, CAB,   *)
(* SZDD, OS/2 PACK and OLE compound files.  An archive is a record of its  *)
(* headers as they are decoded, each at its address; a name is a sequence  *)
(* of parts; a member's packed content is the sequence of the numbers its  *)
(* decoder reads.  A byte that is not packed is named by its place in the  *)
(* file.                                                                   *)
(*                                                                         *)
(* Opening is a walk, one header a turn: where it stands, the entries it   *)
(* listed, and the error that ended it.                                    *)
(***************************************************************************)
EXTENDS LzCodecs, LzxCodec

(* Limits is [zip, directory, depth, segment, sdi, data, headed, raw, sub, *)
(* sync, subheader]: the longest member, directory and tree taken; the     *)
(* length of a segment that gives its own as zero; the unit of SDI pages;  *)
(* the lengths of a disc's sectors with the data only, with a subheader,   *)
(* with all, and with subchannels; and what is before the data.            *)
CONSTANT Limits

Undecoded == [ok |-> FALSE, out |-> <<>>]
Plain(out) == [ok |-> TRUE, out |-> out]

At(table, a, default) == IF a \in DOMAIN table THEN table[a] ELSE default
RoundUp(n, unit) == ((n + unit - 1) \div unit) * unit

NoHeader == [kind |-> "none"]
Header(a, at, kind) ==
  LET h == At(a.at, at, NoHeader) IN IF h.kind = kind THEN h ELSE NoHeader

Entry(path, content) == [path |-> path, content |-> content]
Extent(at, size) == [kind |-> "range", at |-> at, size |-> size]
Bytes(out) == [kind |-> "held", bytes |-> out, size |-> Len(out)]

Listed(w, entry) == [w EXCEPT !.entries = Append(@, entry)]
Ended(w) == [w EXCEPT !.state = "open"]
Error(w) == [w EXCEPT !.state = "open", !.error = TRUE]
Cleared(w) == [Error(w) EXCEPT !.entries = <<>>]
Walk == [state |-> "start", at |-> 0, n |-> 0, entries |-> <<>>, error |-> FALSE,
         seen |-> {}, todo |-> <<>>, parts |-> <<>>]

(* normalizeName: leading "./"s go, and then leading slashes.              *)
DropWhile(parts, part) ==
  LET kept == {i \in DOMAIN parts : parts[i] # part}
  IN  IF kept = {} THEN <<>> ELSE SubSeq(parts, Min(kept), Len(parts))
Normal(parts) == DropWhile(DropWhile(parts, "."), "")
Path(parts) == SelectSeq(Normal(parts), LAMBDA p : p # "")

-----------------------------------------------------------------------------
(* ZIP.  The end record is the last one whose comment ends the file.       *)
EndSize == 22
FindEocd(a) ==
  LET fits == {p \in DOMAIN a.at : /\ a.at[p].kind = "end"
                                   /\ p + EndSize + a.at[p].comment = a.size
                                   /\ p >= a.size - 65535 - EndSize}
  IN  IF fits = {} THEN -1 ELSE Max(fits)

Full16 == 65535
Full32 == -1      \* 0xffffffff
NeedsZip64(end) == \/ end.entries = Full16 \/ end.onDisk = Full16
                   \/ end.length = Full32 \/ end.from = Full32

ZipEnd(a) ==
  LET at == FindEocd(a)
      locator == Header(a, at - 20, "locator")
  IN  IF at < 0 THEN NoHeader
      ELSE IF ~NeedsZip64(a.at[at]) THEN a.at[at]
      ELSE IF locator.kind = "none" THEN NoHeader
      ELSE IF locator.end > a.size - 56 THEN NoHeader
      ELSE Header(a, locator.end, "end64")

ZipStart(a, w) ==
  LET end == ZipEnd(a)
  IN  IF end.kind = "none" THEN Error(w)
      ELSE IF end.disk # 0 \/ end.centralDisk # 0 \/ end.onDisk # end.entries THEN Error(w)
      ELSE IF end.entries > 1000000 \/ end.from > a.size \/ end.length > a.size - end.from THEN Error(w)
      ELSE [w EXCEPT !.state = "zip", !.at = end.from, !.n = end.entries]

AnyPath(parts) == parts # <<>>     \* mutant: ".." is taken
SafePath(parts) == parts # <<>> /\ \A i \in DOMAIN parts : parts[i] \notin {".", ".."}

(* What a member's bytes are taken from, by its method.                    *)
ZipContent(h, from) ==
  [kind |-> CASE h.method = 0 -> "range" [] h.method = 1 -> "shrink" [] OTHER -> "deflate",
   at |-> from, packed |-> h.packed, size |-> h.size]

ZipMember(a, w, h) ==
  LET local == Header(a, h.local, "local")
      from == h.local + 30 + local.name + local.extra
      path == Path(h.name)
  IN  IF h.flags % 2 = 1 THEN Error(w)
      ELSE IF Full32 \in {h.local, h.packed, h.size} \/ h.size > Limits.zip THEN Error(w)
      ELSE IF local.kind = "none" THEN Error(w)
      ELSE IF from > a.size - h.packed THEN Error(w)
      ELSE IF h.method \notin {0, 1, 8} \/ (h.method = 0 /\ h.packed # h.size) THEN Error(w)
      ELSE IF ~SafePath(path) THEN w
      ELSE Listed(w, Entry(path, ZipContent(h, from)))

(* One central header: a member without a name, and a directory's, is      *)
(* passed over before anything else of it is looked at.                    *)
ZipTurn(a, w) ==
  LET h == Header(a, w.at, "central")
      on == [w EXCEPT !.at = @ + 46 + h.variable, !.n = @ - 1]
  IN  IF w.n = 0 THEN [w EXCEPT !.state = "package"]
      ELSE IF h.kind = "none" THEN Error(w)
      ELSE IF w.at > a.size - 46 - h.variable THEN Error(w)
      ELSE IF Path(h.name) = <<>> \/ h.directory THEN on
      ELSE ZipMember(a, on, h)

(* classifyPackage, by the members found; the name of the file says what   *)
(* it has to be.                                                           *)
Has(w, path) == \E i \in DOMAIN w.entries : w.entries[i].path = path
Package(a, w) ==
  IF Has(w, <<"AppxMetadata", "AppxBundleManifest.xml">>) THEN "appxbundle"
  ELSE IF Has(w, <<"AppxManifest.xml">>) /\ Has(w, <<"[Content_Types].xml">>)
  THEN (IF a.expected = "msix" THEN "msix" ELSE "appx")
  ELSE IF Has(w, <<"AppManifest.xaml">>) \/ Has(w, <<"WMAppManifest.xml">>) THEN "xap"
  ELSE "zip"
Expected(actual, expected) ==
  \/ expected = "unknown"
  \/ {expected, actual} \subseteq {"appx", "msix"}
  \/ actual = expected
ZipPackage(a, w) == IF Expected(Package(a, w), a.expected) THEN Ended(w) ELSE Error(w)

-----------------------------------------------------------------------------
(* TAR.  A header of zeros, or too little for one, ends it; a hard link    *)
(* shows the content listed last under the name it gives.                  *)
TarBlock == 512
TarName(h) == Normal(IF h.prefix = <<>> THEN h.name ELSE h.prefix \o h.name)

(* fileByPath holds regular files only, not earlier hard links.            *)
TarFiles(w, name) == {i \in DOMAIN w.parts : w.parts[i].name = name}

TarMember(w, h, from) ==
  LET path == SelectSeq(TarName(h), LAMBDA p : p # "")
      linked == TarFiles(w, Normal(h.link))
  IN  IF h.type = "file"
      THEN [Listed(w, Entry(path, Extent(from, h.size)))
              EXCEPT !.parts = Append(@, [name |-> TarName(h), content |-> Extent(from, h.size)])]
      ELSE IF h.type = "link" /\ linked # {}
      THEN Listed(w, Entry(path, w.parts[Max(linked)].content))
      ELSE w

TarTurnFiles(a, w) ==     \* mutant: only a file's header is passed
  LET h == At(a.at, w.at, NoHeader)
      on == [w EXCEPT !.at = @ + TarBlock + RoundUp(h.size, TarBlock)]
  IN  IF w.at + TarBlock > a.size \/ h.kind = "zero" THEN Ended(w)
      ELSE IF h.kind # "tar" \/ w.at + TarBlock + h.size > a.size THEN Error(w)
      ELSE TarMember(IF h.type = "file" THEN on ELSE w, h, w.at + TarBlock)
TarTurn(a, w) ==
  LET h == At(a.at, w.at, NoHeader)
      from == w.at + TarBlock
  IN  IF w.at + TarBlock > a.size \/ h.kind = "zero" THEN Ended(w)
      ELSE IF h.kind # "tar" \/ h.name = <<>> THEN Error(w)
      ELSE IF from + h.size > a.size THEN Error(w)
      ELSE TarMember([w EXCEPT !.at = from + RoundUp(h.size, TarBlock)], h, from)

-----------------------------------------------------------------------------
(* CAB.  Every folder is decoded before the first file is listed.          *)
CabStart(a, w) ==
  IF a.cabinet > a.size \/ a.files.at >= a.size \/ a.folders = <<>> THEN Error(w)
  ELSE IF \E f \in ToSet(a.files.list) : ~f.named \/ f.folder > Len(a.folders) THEN Error(w)
  ELSE [w EXCEPT !.state = "folders"]

(* One data block of a folder, appended to what came before it; LZX is     *)
(* gathered and decoded as a whole.                                        *)
CabPlain(block, type, done) ==
  CASE type = 0 -> IF block.data = block.plain
                   THEN Plain([i \in 1..block.data |-> block.at + i - 1]) ELSE Undecoded
    [] type = 1 -> IF block.signed THEN RawExact(block.stream, block.plain, done) ELSE Undecoded
    [] type = 3 -> Plain(block.stream)
    [] OTHER -> Undecoded

CabJoin(st, block, plain) ==
  [ok |-> plain.ok, out |-> st.out \o plain.out, plain |-> st.plain + block.plain,
   at |-> block.at + block.data]
FolderBlock(a, folder, st) ==
  LET block == Header(a, st.at, "block")
      from == st.at + 8 + a.reserve
  IN  IF ~st.ok THEN st
      ELSE IF from > a.size \/ block.kind = "none" THEN [st EXCEPT !.ok = FALSE]
      ELSE IF from + block.data > a.size THEN [st EXCEPT !.ok = FALSE]
      ELSE LET placed == [block EXCEPT !.at = from]
           IN  CabJoin(st, placed, CabPlain(placed, folder.type, st.out))

CabUnpacked(folder, st) ==
  IF folder.type # 3 \/ ~st.ok THEN st
  ELSE IF ~folder.valid THEN Undecoded
  ELSE LzxDecoded(st.out, st.plain, "classic", folder.window)
CabFolder(a, folder) ==
  CabUnpacked(folder, Turns([ok |-> TRUE, out |-> <<>>, plain |-> 0, at |-> folder.at], folder.blocks,
                            LAMBDA st : FolderBlock(a, folder, st)))

CabAppend(w, folder) == IF folder.ok THEN [w EXCEPT !.parts = Append(@, folder.out)] ELSE Error(w)
CabFolders(a, w) ==
  IF Len(w.parts) = Len(a.folders) THEN [w EXCEPT !.state = "files"]
  ELSE CabAppend(w, CabFolder(a, a.folders[Len(w.parts) + 1]))

CabFiles(a, w) ==
  IF w.n = Len(a.files.list) THEN Ended(w)
  ELSE LET f == a.files.list[w.n + 1]
           folder == w.parts[f.folder]
       IN  IF f.offset > Len(folder) \/ f.size > Len(folder) - f.offset THEN Error(w)
           ELSE Listed([w EXCEPT !.n = @ + 1],
                       Entry(SelectSeq(f.name, LAMBDA p : p # ""),
                             Bytes(SubSeq(folder, f.offset + 1, f.offset + f.size))))

-----------------------------------------------------------------------------
(* SZDD holds one file.                                                    *)
SzddFile(a, w, out) == IF out.ok THEN Ended(Listed(w, Entry(a.name, Bytes(out.out)))) ELSE Error(w)
SzddTurn(a, w) == IF a.mode # "A" THEN Error(w) ELSE SzddFile(a, w, SzddDecoded(a.stream, a.plain))

-----------------------------------------------------------------------------
(* OS/2 PACK.  A member names the next one by its place in the file, which *)
(* has to lie behind it; any error takes back what was listed.             *)
Extended == {"FFFE", "FFFD"}
PackEnd(a, h) ==     \* -1 when the member ends nowhere
  LET end == IF h.format \in Extended /\ h.next # 0 THEN h.next ELSE a.size
      compressed == IF h.format \in Extended /\ h.ea # 0 /\ h.ea >= h.from /\ h.ea =< end
                    THEN h.ea ELSE end
  IN  IF end =< h.at \/ end > a.size \/ compressed < h.from THEN -1 ELSE compressed
PackSize(h) == IF h.format \in Extended /\ h.size \notin {0, 1} THEN h.size ELSE -1

PackDecode(a, h) ==
  LET in == SubSeq(h.stream, 1, Min({Len(h.stream), PackEnd(a, h) - h.from}))
  IN  IF h.format # "FFFD" THEN PackDecoded(in, PackSize(h))
      ELSE IF PackSize(h) = -1 THEN Undecoded
      ELSE Pack2Decoded(in, PackSize(h))

Unsafe(parts) == \E i \in DOMAIN parts : parts[i] \in {".", ".."}

PackMember(w, h, out) ==
  LET path == SelectSeq(h.name, LAMBDA p : p # "")
      on == Listed([w EXCEPT !.seen = @ \cup {w.at}, !.at = h.next], Entry(path, Bytes(out.out)))
  IN  IF ~out.ok \/ Unsafe(path) THEN Cleared(w)
      ELSE IF h.format \in Extended /\ h.next # 0 THEN on ELSE Ended(on)
PackTurn(a, w) ==
  LET h == Header(a, w.at, "member")
  IN  IF w.at \in w.seen \/ h.kind = "none" THEN Cleared(w)
      ELSE IF h.name = <<>> \/ PackEnd(a, h) = -1 THEN Cleared(w)
      ELSE PackMember(w, h, PackDecode(a, h))

-----------------------------------------------------------------------------
(* OLE compound files.                                                     *)
EndOfChain == -2
NoStream == -1

ChainLink(table, most, st) ==
  IF ~st.ok \/ st.id = EndOfChain THEN st
  ELSE IF st.id \notin DOMAIN table \/ st.id \in ToSet(st.ids) \/ Len(st.ids) >= most
  THEN [st EXCEPT !.ok = FALSE, !.ids = <<>>]
  ELSE [st EXCEPT !.id = table[@], !.ids = Append(@, st.id)]
Chain(start, table, most) ==
  Turns([ok |-> TRUE, id |-> start, ids |-> <<>>], most + 1, LAMBDA st : ChainLink(table, most, st))

Needed(size, unit) == (size + unit - 1) \div unit

(* regularStream and stream: sectors of the file, or mini sectors of the   *)
(* root's stream for a small one; no more than needed and one.             *)
NoContent == [kind |-> "none"]
Stream(a, start, table, size, unit, kind) ==
  LET chain == Chain(start, table, Needed(size, unit) + 1)
  IN  IF size = 0 THEN Bytes(<<>>)
      ELSE IF ~chain.ok \/ Len(chain.ids) < Needed(size, unit) THEN NoContent
      ELSE [kind |-> kind, ids |-> chain.ids, size |-> size]

RootStream(a) == Stream(a, a.directory[0].start, a.fat, a.directory[0].size, a.sector, "chain")

OleContent(a, entry) ==
  LET mini == entry.size < a.cutoff
      content == IF mini THEN Stream(a, entry.start, a.miniFat, entry.size, a.mini, "mini")
                 ELSE Stream(a, entry.start, a.fat, entry.size, a.sector, "chain")
  IN  IF content.kind # "mini" THEN content
      ELSE IF a.directory[0].size = 0 THEN NoContent
      ELSE IF \E i \in DOMAIN content.ids : (content.ids[i] + 1) * a.mini > a.directory[0].size
      THEN NoContent ELSE content

(* parseCompound: the sectors of the FAT, the chains of the directory and  *)
(* of the mini FAT, and the root.                                          *)
OleStart(a, w) ==
  LET directory == Chain(a.directoryStart, a.fat, Limits.directory)
      minis == Chain(a.miniStart, a.fat, a.miniSectors + 1)
  IN  IF a.fatSectors = 0 \/ Len(a.fatIds) # a.fatSectors \/ ~IsInjective(a.fatIds) THEN Error(w)
      ELSE IF ~directory.ok \/ directory.ids = <<>> THEN Error(w)
      ELSE IF a.directory[0].type # "root" THEN Error(w)
      ELSE IF a.miniSectors # 0 /\ (~minis.ok \/ Len(minis.ids) < a.miniSectors) THEN Error(w)
      ELSE IF RootStream(a).kind = "none" THEN Error(w)
      ELSE [w EXCEPT !.state = "tree", !.seen = {},
                     !.todo = <<[do |-> "visit", sid |-> a.directory[0].child, path |-> <<>>, depth |-> 0]>>]

(* traverseTree, one node or one return a turn: what is on the way down is *)
(* in parts, what was listed in seen.                                      *)
OleVisit(a, w, job) ==
  LET entry == a.directory[job.sid]
      deeper == job.depth + 1
  IN  IF job.sid = NoStream THEN w
      ELSE IF job.sid \notin DOMAIN a.directory \/ job.depth > Limits.depth
              \/ job.sid \in ToSet(w.parts)
      THEN Cleared(w)
      ELSE [w EXCEPT !.parts = Append(@, job.sid),
                     !.todo = <<[job EXCEPT !.sid = entry.left, !.depth = deeper],
                                [job EXCEPT !.do = "list"],
                                [job EXCEPT !.sid = entry.right, !.depth = deeper],
                                [job EXCEPT !.do = "leave"]>> \o @]

OleList(a, w, job) ==
  LET entry == a.directory[job.sid]
      path == Append(job.path, entry.name)
      content == OleContent(a, entry)
      on == [w EXCEPT !.seen = @ \cup {job.sid}]
  IN  IF job.sid \in w.seen \/ entry.type \notin {"storage", "stream"} THEN w
      ELSE IF entry.name = "" THEN Cleared(w)
      ELSE IF entry.type = "storage"
      THEN [on EXCEPT !.todo = <<[do |-> "visit", sid |-> entry.child, path |-> path,
                                  depth |-> job.depth + 1]>> \o @]
      ELSE IF content.kind = "none" THEN Cleared(w)
      ELSE Listed(on, Entry(path, content))

OleTurn(a, w) ==
  IF w.todo = <<>> THEN Ended(w)
  ELSE LET job == Head(w.todo)
           on == [w EXCEPT !.todo = Tail(@)]
       IN  CASE job.do = "visit" -> OleVisit(a, on, job)
             [] job.do = "list" -> OleList(a, on, job)
             [] job.do = "leave" -> [on EXCEPT !.parts = SelectSeq(@, LAMBDA s : s # job.sid)]

-----------------------------------------------------------------------------
(* makeResourceStore: the resources of a WIM image as its files' contents; *)
(* one that is compressed in an image that names no codec has codec "raw". *)
WimContent(r) ==
  IF r.codec = "none" THEN Extent(r.at, r.packed)
  ELSE [kind |-> "chunks", at |-> r.at, packed |-> r.packed, size |-> r.size, unit |-> r.unit,
        table |-> r.table, codec |-> r.codec]
WimMembers(a, w) ==
  Ended([w EXCEPT !.entries = [i \in DOMAIN a.resources |->
                                 Entry(a.resources[i].name, WimContent(a.resources[i]))]])
=============================================================================
