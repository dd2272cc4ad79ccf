----------------------------- MODULE Executables -----------------------------
(***************************************************************************)
(* How the executable modules of opener/modules open a file: NE for        *)
(* Windows and OS/2, LE and LX, PE as a file and as a loaded image, XBE,   *)
(* and XEX.  They list the parts of the executable, joined from its segments,  *)
(* objects or sections, and then its resources, a table or a record a      *)
(* turn.  What an error finds listed stays listed.                         *)
(*                                                                         *)
(* As in ArchiveFiles, a byte is named by its place in the file; a byte    *)
(* the program fills in is Zero, one it leaves unwritten is Junk.          *)
(***************************************************************************)
EXTENDS ArchiveFiles

Zero == -1
Junk == -2
Zeros(n) == [i \in 1..n |-> Zero]
Places(at, n) == [i \in 1..n |-> at + i - 1]
AtMost(n, limit) == Min({n, limit})

(* What a text made up from a record at a place holds is left out.         *)
Made(at, bytes) == Bytes(bytes) @@ [at |-> at]
Text(at) == Made(at, <<Zero>>)

InRsrc(type, name, content) == Entry(<<".rsrc", type, name>>, content)
WithArea(w, name, bytes) == IF bytes = <<>> THEN w ELSE Listed(w, Entry(<<name>>, Bytes(bytes)))

(* The new header: at the start of the file, or where the MZ header says.  *)
NewHeader(a, signature) ==
  IF a.start = signature THEN 0
  ELSE IF a.size < 64 \/ a.start # "MZ" THEN -1 ELSE a.newHeader

-----------------------------------------------------------------------------
(* NE.  A file for no system is one of the modules it imports; the first   *)
(* known one decides.                                                      *)
Os2Modules == {"DOSCALLS", "KBDCALLS", "VIOCALLS", "MOUCALLS", "NLS", "QUECALLS"}
WindowsModules == {"GDI", "KERNEL"}
DetectUnknownTarget(h) ==
  LET known == SelectSeq(h.imports, LAMBDA m : m \in Os2Modules \cup WindowsModules)
  IN  IF h.imported = 0 THEN "Windows"
      ELSE IF known = <<>> THEN "unknown" ELSE IF Head(known) \in Os2Modules THEN "OS2" ELSE "Windows"
NeTarget(h) ==
  CASE h.target = 0 -> DetectUnknownTarget(h) [] h.target = 1 -> "OS2" [] h.target = 2 -> "Windows"
    [] OTHER -> "unknown"

SegmentAt(h, s) == s.sector * 2^h.shift
SegmentLength(s) == IF s.length = 0 THEN Limits.segment ELSE s.length
SegmentsEnd(h) == h.table + 8 * Len(h.segments)

(* The last segments of a file for OS/2 are its resources.                 *)
NeParts(h, target) ==
  IF target = "OS2" /\ h.resources =< Len(h.segments) THEN Len(h.segments) - h.resources ELSE Len(h.segments)
NeArea(a, h, parts, data) ==
  LET mine == SelectSeq(SubSeq(h.segments, 1, parts),
                        LAMBDA s : s.sector # 0 /\ SegmentAt(h, s) < a.size /\ s.flags % 2 = data)
  IN  FlattenSeq([i \in DOMAIN mine |->
        Places(SegmentAt(h, mine[i]), AtMost(SegmentLength(mine[i]), a.size - SegmentAt(h, mine[i])))])
NeStructure(a, w, h, target) ==
  IF SegmentsEnd(h) > a.size THEN w
  ELSE LET headed == Listed(w, Entry(<<"headers">>, Extent(0, SegmentsEnd(h))))
       IN  WithArea(WithArea(headed, ".text", NeArea(a, h, NeParts(h, target), 0)),
                    ".data", NeArea(a, h, NeParts(h, target), 1))

(* looksLikeWindowsNeResources.                                            *)
WindowsTable(a, from, end) ==
  LET first == Header(a, from + 2, "type")
  IN  /\ from + 4 =< end /\ end =< a.size
      /\ Header(a, from, "rsrc").kind # "none" /\ a.at[from].shift =< 16
      /\ first.kind # "none" => first.count > 0 /\ from + 10 + 12 * first.count =< end

NeTables(a, w, h, at, target) ==
  CASE target = "unknown" -> Error(w)
    [] target = "OS2" -> IF at + h.rsrc >= a.size THEN Ended(w) ELSE [w EXCEPT !.state = "table", !.at = 0, !.n = at]
    [] target = "Windows" ->
         IF h.rsrc = 0 \/ h.residents =< h.rsrc \/ ~WindowsTable(a, at + h.rsrc, at + h.residents) THEN Ended(w)
         ELSE [w EXCEPT !.state = "types", !.at = at + h.rsrc + 2, !.n = at]
NeOpened(a, w, h, at, target) == NeTables(a, NeStructure(a, w, h, target), h, at, target)
NeStart(a, w) ==
  LET at == NewHeader(a, "NE")
      h == Header(a, at, "ne")
  IN  IF h.kind = "none" \/ at + 64 > a.size THEN Error(w) ELSE NeOpened(a, w, h, at, NeTarget(h))

(* One type of a Windows table, with those of its resources that fit it.   *)
NeTypes(a, w) ==
  LET h == a.at[w.n]
      end == w.n + h.residents
      t == Header(a, w.at, "type")
      shift == a.at[w.n + h.rsrc].shift
      fit == AtMost(t.count, (end - w.at - 8) \div 12)
      records == [i \in 1..fit |-> a.at[w.at + 8 + 12 * (i - 1)]]
      held == SelectSeq(records, LAMBDA r : r.length # 0 /\ (r.offset + r.length) * 2^shift =< a.size)
      listed == [i \in DOMAIN held |->
                   InRsrc(t.id, held[i].id, Extent(held[i].offset * 2^shift, held[i].length * 2^shift))]
  IN  IF w.at + 8 > end \/ t.kind = "none" THEN Ended(w)
      ELSE [w EXCEPT !.at = @ + 8 + 12 * fit, !.entries = @ \o listed]

(* One resource of an OS/2 table.  A full segment is continued by the one  *)
(* behind it if that has the same type and name.                           *)
Os2Content(a, h, k) ==
  LET at == SegmentAt(h, h.segments[k])
  IN  IF k < 1 \/ h.table + 8 * k > a.size \/ at + SegmentLength(h.segments[k]) > a.size THEN Bytes(<<>>)
      ELSE Extent(at, SegmentLength(h.segments[k]))
Continues(entry, next) ==
  /\ entry.path = next.path /\ entry.content.kind = "range" /\ next.content.kind = "range"
  /\ entry.content.at + entry.content.size = next.content.at
NeJoined(w, next, full) ==
  LET n == Len(w.entries)
  IN  IF full /\ n # 0 /\ Continues(w.entries[n], next)
      THEN [w EXCEPT !.entries[n].content.size = @ + next.content.size] ELSE Listed(w, next)
NeTable(a, w) ==
  LET h == a.at[w.n]
      k == Len(h.segments) - h.resources + w.at + 1
      pos == w.n + h.rsrc + 4 * (w.at + 1)
      on == [w EXCEPT !.at = @ + 1]
  IN  IF w.at = h.resources \/ pos > a.size \/ pos > w.n + h.rsrc + h.residents THEN Ended(w)
      ELSE IF h.pairs[w.at + 1].type = "" THEN Ended(w)
      ELSE NeJoined(on, InRsrc(h.pairs[w.at + 1].type, h.pairs[w.at + 1].name, Os2Content(a, h, k)),
                    k > 1 /\ h.segments[k - 1].length = 0)

-----------------------------------------------------------------------------
(* LE and LX.  What lies outside the file of a table of theirs is not in   *)
(* the table.                                                              *)
PhysicalPage(h, page) == h.dataPages + (page - 1) * h.pageSize
LePage(a, h, p, wanted) ==
  CASE p.flags = 0 /\ p.page # 0 ->
         IF PhysicalPage(h, p.page) + wanted > a.size THEN Undecoded ELSE Plain(Places(PhysicalPage(h, p.page), wanted))
    [] p.flags \in {2, 3} -> Plain(Zeros(wanted))
    [] OTHER -> Undecoded

StoredAt(h, p) == h.dataPages + p.offset * 2^h.shift
LxPage(a, h, p, wanted) ==
  LET stored == IF p.stored = 0 THEN wanted ELSE AtMost(p.stored, wanted)
  IN  CASE p.flags = 0 ->
             IF StoredAt(h, p) + stored > a.size THEN Undecoded
             ELSE Plain(Places(StoredAt(h, p), stored) \o Zeros(wanted - stored))
        [] p.flags \in {2, 3} -> Plain(Zeros(wanted))
        [] OTHER -> Undecoded

NoPage == [flags |-> "none"]
PageOf(a, h, i, wanted) ==
  LET p == At(h.pages, i, NoPage)
  IN  IF p = NoPage THEN Undecoded ELSE IF h.kind = "le" THEN LePage(a, h, p, wanted) ELSE LxPage(a, h, p, wanted)

(* An object one of whose pages cannot be had is left out as a whole.      *)
Rebuilt(a, h, o) ==
  LET n == AtMost(o.pages, Needed(o.size, h.pageSize))
      pages == [i \in 1..n |-> PageOf(a, h, o.page + i - 1, AtMost(h.pageSize, o.size - (i - 1) * h.pageSize))]
  IN  IF o.page = 0 \/ \E i \in 1..n : ~pages[i].ok THEN <<>> ELSE FlattenSeq([i \in 1..n |-> pages[i].out])

LinearArea(a, h, objects) == FlattenSeq([i \in DOMAIN objects |-> Rebuilt(a, h, objects[i])])
LinearZeros(objects) == FlattenSeq([i \in DOMAIN objects |-> Zeros(objects[i].size)])
LinearStructure(a, w, h) ==
  LET own(executable) ==
        SelectSeq(h.objects, LAMBDA o : ~o.resource /\ o.pages # 0 /\ o.executable = executable)
      blank == SelectSeq(h.objects, LAMBDA o : ~o.resource /\ o.pages = 0)
      headed == Listed(w, Entry(<<"headers">>, Extent(0, h.objectTable + 24 * h.count)))
  IN  IF h.count > Len(h.objects) THEN w
      ELSE WithArea(WithArea(WithArea(headed, ".text", LinearArea(a, h, own(TRUE))),
                             ".data", LinearArea(a, h, own(FALSE))), ".bss", LinearZeros(blank))

LinearOpened(a, w, h, at) ==
  IF h.rsrc = 0 \/ h.resources = 0 THEN Ended(w)
  ELSE IF at + h.rsrc > a.size THEN Error(w)
  ELSE [w EXCEPT !.state = "table", !.n = at]
LinearStart(a, w, signature, kind) ==
  LET at == NewHeader(a, signature)
      h == Header(a, at, kind)
  IN  IF h.kind = "none" \/ at + 172 > a.size THEN Error(w) ELSE LinearOpened(a, LinearStructure(a, w, h), h, at)
LeStart(a, w) == LinearStart(a, w, "LE", "le")
LxStart(a, w) == LinearStart(a, w, "LX", "lx")

(* An LE resource runs on from its first page through the file.  Its page  *)
(* is numbered by one byte of the entry an object's page is read from.     *)
LeFound(a, h, r, p) ==
  LET from == PhysicalPage(h, p.low)
  IN  IF p = NoPage THEN NoContent
      ELSE IF p.low = 0 \/ h.pageSize = 0 \/ from > a.size \/ p.flags # 0 THEN NoContent
      ELSE IF from + r.offset + r.size > a.size THEN NoContent
      ELSE Extent(from + r.offset, r.size)
NoObject == [pages |-> 0]
LeContent(a, h, r) ==
  LET o == At(h.objects, r.object, NoObject)
  IN  IF o.pages = 0 THEN NoContent ELSE LeFound(a, h, r, At(h.pages, o.page, NoPage))

(* ITERDATA2: literals (a run of one byte among them), and a copy of what  *)
(* was written before; one of distance 0 finds the zeros of the page.      *)
CopyBack(out, back, n) ==
  IF back = 0 THEN out \o Zeros(n)
  ELSE out \o [i \in 1..n |-> out[Len(out) - back + 1 + ((i - 1) % back)]]
UnpackToken(done, t, size) ==
  LET written == Len(done.out) + Len(t.literals)
  IN  IF ~done.ok \/ Len(done.out) >= size THEN done
      ELSE IF t.cut \/ written + t.n > size \/ t.back > written THEN Undecoded
      ELSE Plain(CopyBack(done.out \o t.literals, t.back, t.n))
UnpackMethod2(tokens, size) ==
  LET done == FoldLeft(LAMBDA st, t : UnpackToken(st, t, size), Plain(<<>>), tokens)
  IN  IF done.ok THEN Plain(done.out \o Zeros(size - Len(done.out))) ELSE Undecoded

(* ITERDATA: bytes and how often they are repeated, until nothing is.      *)
Iterated(done, it, size) ==
  SubSeq(done \o FlattenSeq([i \in 1..it.n |-> it.bytes]), 1, AtMost(size, Len(done) + it.n * Len(it.bytes)))
DecompressRlePage(iterations, size) ==
  LET stops == {i \in DOMAIN iterations : iterations[i].n = 0 \/ iterations[i].bytes = <<>>}
      used == IF stops = {} THEN iterations ELSE SubSeq(iterations, 1, Min(stops) - 1)
      out == FoldLeft(LAMBDA done, it : Iterated(done, it, size), <<>>, used)
  IN  IF iterations = <<>> THEN <<>> ELSE out \o [i \in 1..size - Len(out) |-> Junk]

LxStored(a, h, p) ==
  LET block == At(a.streams, StoredAt(h, p), <<>>)
  IN  CASE p.flags = 0 -> Plain(Places(StoredAt(h, p), p.stored) \o [i \in 1..h.pageSize - p.stored |-> Junk])
        [] p.flags = 1 -> Plain(DecompressRlePage(block, h.pageSize))
        [] p.flags = 5 -> UnpackMethod2(block, h.pageSize)
LxDecoded(a, h, p) ==
  CASE p.flags = 3 -> Plain(Zeros(h.pageSize))
    [] p.flags \in {0, 1, 5} -> IF StoredAt(h, p) + p.stored > a.size THEN Undecoded ELSE LxStored(a, h, p)
    [] OTHER -> Undecoded

(* An LX resource is put together from the pages of its object; what lies  *)
(* beyond them is zeros.                                                   *)
LxGather(a, h, o, size, st) ==
  LET p == At(h.pages, o.page + st.k, NoPage)
      page == LxDecoded(a, h, p)
      part == SubSeq(page.out, st.skip + 1,
                     Min({st.skip + size - Len(st.out), h.pageSize, Len(page.out)}))
  IN  IF ~st.ok \/ Len(st.out) = size \/ st.k >= o.pages THEN st
      ELSE IF p = NoPage THEN [st EXCEPT !.ok = FALSE]
      ELSE IF ~page.ok THEN [st EXCEPT !.ok = FALSE]
      ELSE [st EXCEPT !.k = @ + 1, !.skip = 0, !.out = @ \o part]
LxGathered(a, h, o, offset, size) ==
  Turns([ok |-> TRUE, k |-> offset \div h.pageSize, skip |-> offset % h.pageSize, out |-> <<>>],
        o.pages, LAMBDA st : LxGather(a, h, o, size, st))
LxHeld(got, size) == IF got.ok THEN Bytes(got.out \o Zeros(size - Len(got.out))) ELSE NoContent
LxContent(a, h, r) ==
  LET o == At(h.objects, r.object, NoObject)
  IN  IF o.pages = 0 \/ h.pageSize = 0 THEN NoContent
      ELSE LxHeld(LxGathered(a, h, o, r.offset, r.size), r.size)

LinearListed(w, r, content) ==
  IF content.kind = "none" THEN w ELSE Listed(w, InRsrc(r.type, r.name, content))
LinearTable(a, w) ==
  LET h == a.at[w.n]
      r == h.table[w.at + 1]
      on == [w EXCEPT !.at = @ + 1]
  IN  IF w.at = h.resources THEN Ended(w)
      ELSE IF w.at >= Len(h.table) THEN on
      ELSE LinearListed(on, r, IF h.kind = "le" THEN LeContent(a, h, r) ELSE LxContent(a, h, r))

-----------------------------------------------------------------------------
(* PE.  What cannot be read as a file is tried once more as an image in    *)
(* memory, whose addresses are its offsets.  w.n tells which it is.        *)
AsImage == 1
PeFails(w) == IF w.n = AsImage THEN Error(w) ELSE [w EXCEPT !.n = AsImage]

RvaToOffset(a, h, rva, layout) ==
  LET holds == {i \in DOMAIN h.sections :
                  LET s == h.sections[i] IN rva >= s.va /\ rva < s.va + Max({s.rawSize, s.virtualSize})}
      s == h.sections[Min(holds)]
  IN  IF layout = AsImage THEN (IF rva < a.size THEN rva ELSE -1)
      ELSE IF holds = {} THEN -1 ELSE s.raw + rva - s.va

PeSection(a, s, layout) ==
  IF layout = AsImage THEN Extent(s.va, AtMost(Max({s.virtualSize, s.rawSize}), a.size - s.va))
  ELSE Extent(s.raw, AtMost(s.rawSize, a.size - s.raw))
PeName(s, i) == IF s.name = "" THEN "section_" \o ToString(i - 1) ELSE s.name
PeStructure(a, w, h) ==
  LET headers == IF h.headers # 0 THEN h.headers ELSE h.table + 40 * h.count
      start(s) == IF w.n = AsImage THEN s.va ELSE s.raw
      held == SetToSortSeq({i \in DOMAIN h.sections : start(h.sections[i]) < a.size}, <)
  IN  [Listed(w, Entry(<<"headers">>, Extent(0, AtMost(headers, a.size)))) EXCEPT
         !.entries = @ \o [i \in DOMAIN held |->
                             Entry(<<PeName(h.sections[held[i]], held[i])>>, PeSection(a, h.sections[held[i]], w.n))]]

(* A directory that ends beyond the resources is none.                     *)
PeDirectory(a, base, limit, to) ==
  LET d == Header(a, base + to, "dir")
  IN  IF to + 16 > limit \/ d.kind = "none" THEN NoHeader
      ELSE IF to + 16 + 8 * Len(d.list) > limit THEN NoHeader ELSE d
PeLimit(a, h, base) == AtMost(h.length, a.size - base)
PeJobs(d, path) == [i \in DOMAIN d.list |-> [d.list[i] EXCEPT !.id = Append(path, @)]]

PeRoot(a, w, h, base) ==
  LET root == PeDirectory(a, base, PeLimit(a, h, base), 0)
  IN  IF base < 0 \/ base + 16 > a.size THEN PeFails(w)
      ELSE IF root.kind = "none" THEN PeFails(w)
      ELSE [PeStructure(a, w, h) EXCEPT !.state = "tree", !.at = base, !.todo = PeJobs(root, <<>>)]
PeStart(a, w) ==
  LET h == Header(a, a.newHeader, "pe")
  IN  IF a.size < 256 \/ a.start # "MZ" \/ h.kind = "none" THEN PeFails(w)
      ELSE IF ~h.magic THEN PeFails(w)
      ELSE IF h.rva = 0 \/ h.length = 0 THEN Ended(PeStructure(a, w, h))
      ELSE IF h.count > Len(h.sections) THEN PeFails(w)
      ELSE PeRoot(a, w, h, RvaToOffset(a, h, h.rva, w.n))

(* One record of the tree: a type, a name, or a language with its data.    *)
PeData(a, w, path, d, from) ==
  IF d.kind = "none" THEN w
  ELSE Listed(w, Entry(<<".rsrc">> \o path,
                       IF from >= 0 /\ from + d.size =< a.size THEN Extent(from, d.size) ELSE Bytes(<<>>)))
PeLeaf(a, w, h, job, d) ==
  IF job.to + 16 > PeLimit(a, h, w.at) THEN w
  ELSE PeData(a, w, job.id, d, RvaToOffset(a, h, At(d, "rva", 0), w.n))
PeDeeper(w, d, path) == IF d.kind = "none" THEN w ELSE [w EXCEPT !.todo = PeJobs(d, path) \o @]
PeTurn(a, w) ==
  LET h == a.at[a.newHeader]
      job == Head(w.todo)
      on == [w EXCEPT !.todo = Tail(@)]
  IN  IF w.todo = <<>> THEN Ended(w)
      ELSE IF job.sub # (Len(job.id) < 3) THEN on
      ELSE IF job.sub THEN PeDeeper(on, PeDirectory(a, w.at, PeLimit(a, h, w.at), job.to), job.id)
      ELSE PeLeaf(a, on, h, job, Header(a, w.at + job.to, "data"))

-----------------------------------------------------------------------------
(* XBE.  Most of what the header points to is listed with a text about it. *)
VaToOffset(a, va) == IF va < a.base \/ va - a.base >= a.size THEN -1 ELSE va - a.base
XbeRecord(a, w, name, at, need, size) ==
  IF at < 0 \/ at + need > a.size THEN w
  ELSE [w EXCEPT !.entries = @ \o << Entry(<<name \o ".bin">>, Extent(at, size)), Entry(<<name \o ".txt">>, Text(at)) >>]

XbeCertificate(a, w, at) ==
  XbeRecord(a, w, "certificate", at, 176,
            AtMost(IF a.certificate.size >= 176 THEN a.certificate.size ELSE 176, a.size - at))
XbeLibraries(a, w, at) ==
  IF a.libraries.n > 4096 \/ at < 0 \/ at + 16 * a.libraries.n > a.size THEN w
  ELSE FoldLeft(LAMBDA v, i : XbeRecord(a, v, "library_" \o ToString(i - 1), at + 16 * (i - 1), 16, 16),
                w, [i \in 1..a.libraries.n |-> i])

(* The kernel's thunks are where the key of retail executables says, or    *)
(* that of debug ones; the zero that ends them is added.                   *)
XbeThunks(a, w, at) ==
  LET n == AtMost(a.words, (a.size - at) \div 4)
  IN  IF at < 0 THEN w
      ELSE [w EXCEPT !.entries = @ \o
              << Entry(<<"kernel_thunks.bin">>, Made(at, Places(at, 4 * n) \o Zeros(4))),
                 Entry(<<"kernel_imports.txt">>, Text(at)) >>]
ThunkAt(a) ==
  LET retail == VaToOffset(a, a.thunk.retail) IN IF retail >= 0 THEN retail ELSE VaToOffset(a, a.thunk.debug)
XbePart(a, w, name, at, need, size) ==
  IF at < 0 \/ at + need > a.size THEN w ELSE Listed(w, Entry(<<name>>, Extent(at, size)))
XbeImports(a, w, at) == XbePart(a, w, "non_kernel_imports.bin", at, 0, AtMost(256, a.size - at))
XbeLogo(a, w, at) == IF a.logo.size = 0 THEN w ELSE XbePart(a, w, "logo.xprle", at, a.logo.size, a.logo.size)

XbeDetails(a, w) ==
  LET certified == XbeCertificate(a, w, VaToOffset(a, a.certificate.va))
      threaded == XbeRecord(a, certified, "tls", VaToOffset(a, a.tls), 24, 24)
      linked == XbeLibraries(a, threaded, VaToOffset(a, a.libraries.va))
      kernel == XbeRecord(a, linked, "kernel", VaToOffset(a, a.kernel), 16, 16)
      xapi == XbeRecord(a, kernel, "xapi", VaToOffset(a, a.xapi), 16, 16)
      imported == XbeImports(a, XbeThunks(a, xapi, ThunkAt(a)), VaToOffset(a, a.imports))
  IN  XbeLogo(a, imported, VaToOffset(a, a.logo.va))

XbeSections(a, w, at) ==
  IF at < 0 \/ at + 56 * a.count > a.size THEN Error(w) ELSE [w EXCEPT !.state = "sections", !.at = 0, !.n = at]
XbeStart(a, w) ==
  LET signed == Listed(w, Entry(<<"header_signature.bin">>, Extent(4, 256)))
      imaged == Listed(signed, Entry(<<"image_header.txt">>, Text(0)))
  IN  IF a.size < 376 \/ a.start # "XBEH" THEN Error(w)
      ELSE IF a.base = 0 \/ a.imageHeader < 376 \/ a.headers < a.imageHeader \/ a.headers > a.size THEN Error(signed)
      ELSE IF a.count > 4096 THEN Error(signed)
      ELSE XbeSections(a, XbeDetails(a, imaged), VaToOffset(a, a.table))

(* findEmbeddedResources: packages that say how long they are, and images  *)
(* that reach to the next of them or to the end of the section.            *)
EmbeddedNext(a, end, st) ==
  LET marks == {p \in DOMAIN a.at : p >= st.from /\ p + 4 =< end /\ a.at[p].kind \in {"xpr", "dds"}}
      p == Min(marks)
      m == a.at[p]
      found(size) == Append(st.found, [at |-> p, size |-> size, suffix |-> "." \o m.kind])
  IN  IF marks = {} THEN st
      ELSE IF m.kind = "xpr" /\ p + 12 =< end /\ m.header >= 12 /\ m.header =< m.total /\ p + m.total =< end
      THEN [from |-> p + m.total, found |-> found(m.total)]
      ELSE IF m.kind = "dds" /\ p + 128 =< end /\ m.header = 124
      THEN [from |-> p + 1, found |-> found(0)]
      ELSE [st EXCEPT !.from = p + 1]
Embedded(a, from, end) ==
  Turns([from |-> from, found |-> <<>>], Cardinality(DOMAIN a.at),
        LAMBDA st : EmbeddedNext(a, end, st)).found
EmbeddedSize(found, i, end) ==
  IF found[i].size # 0 THEN found[i].size
  ELSE Max({128, (IF i < Len(found) THEN found[i + 1].at ELSE end) - found[i].at})
XbeEmbedded(name, found, end) ==
  LET fits == SelectSeq([i \in DOMAIN found |-> [found[i] EXCEPT !.size = EmbeddedSize(found, i, end)]],
                        LAMBDA f : f.at + f.size =< end)
      leaf(i) == name \o "_embedded_" \o ToString(i - 1) \o fits[i].suffix
  IN  FlattenSeq([i \in DOMAIN fits |->
        <<Entry(<<leaf(i)>>, Extent(fits[i].at, fits[i].size))>>
        \o (IF fits[i].suffix = ".xpr" THEN <<Entry(<<leaf(i) \o ".txt">>, Text(fits[i].at))>> ELSE <<>>)])

XbeListed(a, w, s, name) ==
  [w EXCEPT !.parts = Append(@, [name |-> name, at |-> s.raw, size |-> s.size]),
            !.entries = @ \o << Entry(<<name, name>>, Extent(s.raw, s.size)),
                                Entry(<<name \o ".sha1">>, Extent(w.n + 56 * w.at + 36, 20)),
                                Entry(<<name \o ".txt">>, Text(w.n + 56 * w.at)) >>
                          \o XbeEmbedded(name, Embedded(a, s.raw, s.raw + s.size), s.raw + s.size)]
(* In the end what lies in a section moves below the first that holds it.  *)
Within(content, part) == content.at >= part.at /\ content.at + content.size =< part.at + part.size
Regrouped(e, parts) ==
  LET holds == {i \in DOMAIN parts : Within(e.content, parts[i])}
  IN  IF Len(e.path) > 1 \/ holds = {} THEN e ELSE [e EXCEPT !.path = <<parts[Min(holds)].name>> \o @]
XbeTurn(a, w) ==
  LET s == a.sections[w.at + 1]
      name == IF VaToOffset(a, s.nameAt) < 0 \/ s.name = "" THEN "section_" \o ToString(w.at) ELSE s.name
  IN  IF w.at = a.count
      THEN Ended([w EXCEPT !.entries = [i \in DOMAIN @ |-> Regrouped(@[i], w.parts)]])
      ELSE IF s.raw + s.size > a.size THEN [w EXCEPT !.at = @ + 1]
      ELSE [XbeListed(a, w, s, name) EXCEPT !.at = @ + 1]

-----------------------------------------------------------------------------
(* XEX.  The image is in the file as it is, or encrypted, or in blocks     *)
(* with zeros between them, or in a chain of LZX blocks each of which has  *)
(* the hash of the next.  What a payload says in the clear is a.clear; a   *)
(* byte of it is named by its place behind the end of the file.            *)
XexEntry(type, name, content) == Entry(<<type, name>>, content)

(* Entries come below their types in the end, which an error forestalls.   *)
XexTypes == {"XEX_SECURITY_INFO", "XEX_OPTIONAL_HEADER", "XEX_OPTIONAL_DATA", "XEX_LOADED_IMAGE", "XEX_RESOURCE_INFO", "XEX_RESOURCE"}
Bare(entry) == IF entry.path[1] \in XexTypes THEN [entry EXCEPT !.path = Tail(@)] ELSE entry
XexFails(w) == [Error(w) EXCEPT !.entries = [i \in DOMAIN @ |-> Bare(@[i])]]
SecurityWord(a, offset, value) == IF a.security + offset + 4 > a.size THEN 0 ELSE value
XexExpected(a) == SecurityWord(a, 4, a.secured.image)

(* optionalPayloadSize: a header's value is its data, or where these are:  *)
(* as many words as its kind says, or a block with its length before it.   *)
PayloadSize(a, h) ==
  LET size == IF h.kind = 255 THEN At(At(a.at, h.value, <<>>), "length", 0) ELSE 4 * h.kind
  IN  CASE h.kind = 0 -> 0
        [] h.kind = 1 -> 4
        [] OTHER -> IF size < 4 \/ h.value + size > a.size THEN 0 ELSE size
ValueOf(a, key) ==
  LET last == {i \in DOMAIN a.headers : a.headers[i].key = key /\ (key = "IMAGE_BASE_ADDRESS" => a.headers[i].value # 0)}
  IN  IF last = {} THEN 0 ELSE a.headers[Max(last)].value
LoadBase(a) ==
  IF ValueOf(a, "IMAGE_BASE_ADDRESS") # 0 THEN ValueOf(a, "IMAGE_BASE_ADDRESS") ELSE SecurityWord(a, 272, a.secured.base)

XexSecurity(a, w) ==
  LET given == SecurityWord(a, 0, a.secured.size)
      size == IF given < 4 \/ a.security + given > a.size THEN AtMost(384, a.size - a.security) ELSE given
  IN  IF a.security > a.size - 4 THEN w
      ELSE Listed(w, XexEntry("XEX_SECURITY_INFO", "security_info", Extent(a.security, size)))
XexStart(a, w) ==
  IF a.size < 24 \/ a.start # "XEX" THEN Error(w)
  ELSE IF Len(a.headers) > (a.size - 24) \div 8 THEN XexFails(XexSecurity(a, w))
  ELSE [XexSecurity(a, w) EXCEPT !.state = "headers"]

ValueKeys == {"ENTRY_POINT", "IMAGE_BASE_ADDRESS", "SYSTEM_FLAGS", "ORIGINAL_BASE_ADDRESS", "DEFAULT_STACK_SIZE"}
XexHeaders(a, w) ==
  LET h == a.headers[w.at + 1]
      on == [w EXCEPT !.at = @ + 1]
      size == PayloadSize(a, h)
  IN  IF w.at = Len(a.headers) THEN [w EXCEPT !.state = "image", !.at = 0]
      ELSE IF h.key \in ValueKeys
      THEN Listed(on, XexEntry("XEX_OPTIONAL_HEADER", h.key, Extent(24 + 8 * w.at, 8)))
      ELSE IF size > 0 /\ h.value =< a.size - size
      THEN Listed(on, XexEntry("XEX_OPTIONAL_DATA", h.key, Extent(h.value, size)))
      ELSE on

(* findEmbeddedPe: the first executable at or behind where the image       *)
(* begins, whatever the file says of its format.                           *)
IsPe(a, p) ==
  LET mz == Header(a, p, "mz")
  IN  /\ mz.kind # "none" /\ p + 64 =< a.size /\ mz.nt =< a.size - p - 4
      /\ Header(a, p + mz.nt, "pe").kind # "none"
EmbeddedPe(a) ==
  LET found == {p \in DOMAIN a.at : p >= a.pe /\ IsPe(a, p)} IN IF found = {} THEN -1 ELSE Min(found)

(* readFileFormatInfo, of the last header that has one: its blocks are as  *)
(* many as its length says.                                                *)
FileFormat(a) ==
  LET at == ValueOf(a, "FILE_FORMAT_INFO")
      size == PayloadSize(a, [kind |-> 255, value |-> at])
      f == Header(a, at, "format")
  IN  IF at = 0 \/ size < 8 \/ f.kind = "none" THEN NoHeader
      ELSE IF f.compression = 1 /\ (size - 8) % 8 # 0 THEN NoHeader
      ELSE IF f.compression = 2 /\ size < 36 THEN NoHeader ELSE f

(* A view of the file: what it says at its places, whose bytes have their  *)
(* names moved by shift.  One of two keys opens the key in the file; with  *)
(* the other one what comes out says nothing.                              *)
AsStored(a) == [at |-> a.at, shift |-> 0]
Decrypted(a, key) ==
  IF key = a.key THEN [at |-> a.clear, shift |-> a.size] ELSE [at |-> <<>>, shift |-> 2 * a.size]
Decryptable(a) == a.security + 352 =< a.size /\ a.pe < a.size /\ (a.size - a.pe) % 16 = 0

(* parseNormalCompressionChain: the blocks, each checked by the hash that  *)
(* the block before it, or the format, gives.                              *)
HashOf(block, size) == IF block.kind # "none" /\ block.length = size THEN block.hash ELSE "other"
ChainedBlock(a, view, st) ==
  LET block == Header(view, st.at, "lzx")
  IN  IF ~st.ok \/ st.size = 0 THEN st
      ELSE IF st.size < 24 \/ st.at + st.size > a.size \/ HashOf(block, st.size) # st.hash
      THEN [st EXCEPT !.ok = FALSE, !.out = <<>>]
      ELSE [st EXCEPT !.at = @ + st.size, !.size = block.next, !.hash = block.nextHash,
                      !.out = Append(@, block)]
LzxBlockChain(a, view, f) ==
  Turns([ok |-> TRUE, at |-> a.pe, size |-> f.first, hash |-> f.hash, out |-> <<>>],
        Cardinality(DOMAIN view.at) + 1, LAMBDA st : ChainedBlock(a, view, st))

(* A key is only doubted when the blocks it gives do not agree with their  *)
(* hashes: without LZX blocks the first one is taken.                      *)
KeysThatFit(a, f) ==
  SelectSeq(<<"retail", "devkit">>,
            LAMBDA key : Decryptable(a) /\ (f.compression = 2 => LzxBlockChain(a, Decrypted(a, key), f).ok))

-----------------------------------------------------------------------------
(* An image: its bytes, and what is said at its places.  What the LZX      *)
(* decoder gives says what is in a.unpacked.                               *)
NoImage == [bytes |-> <<>>, at |-> <<>>]
ImageOf(bytes, view) ==
  LET said == {o \in DOMAIN bytes : bytes[o] - view.shift \in DOMAIN view.at}
  IN  [bytes |-> bytes, at |-> [o \in {o - 1 : o \in said} |-> view.at[bytes[o + 1] - view.shift]]]

(* buildXexLzxStream: the chunks of each block up to the empty one, which  *)
(* must be there.                                                          *)
ChunksEnd(block) == {i \in DOMAIN block.chunks : block.chunks[i].size = 0}
ChunksFit(block) ==
  /\ ChunksEnd(block) # {}
  /\ FoldLeft(LAMBDA n, c : n + 2 + c.size, 0, SubSeq(block.chunks, 1, Min(ChunksEnd(block)))) =< block.length - 24
ChunkNumbers(block) == FlattenSeq([i \in 1..Min(ChunksEnd(block)) - 1 |-> block.chunks[i].numbers])
LzxImage(a, f, blocks) ==
  IF XexExpected(a) = 0 \/ ~ \E i \in 0..25 : f.window = 2^i THEN NoImage
  ELSE IF \E i \in DOMAIN blocks : ~ChunksFit(blocks[i]) THEN NoImage
  ELSE [bytes |-> LzxDecoded(FlattenSeq([i \in DOMAIN blocks |-> ChunkNumbers(blocks[i])]),
                             XexExpected(a), "classic", f.window).out,
        at |-> a.unpacked]

(* reconstructBasicImage: stored bytes and zeros by turns.                 *)
Total(blocks) ==
  FoldLeft(LAMBDA n, b : [stored |-> n.stored + b.stored, all |-> n.all + b.stored + b.zeros], [stored |-> 0, all |-> 0], blocks)
Unrolled(blocks, at) ==
  FoldLeft(LAMBDA v, b : [at |-> v.at + b.stored, out |-> v.out \o Places(v.at, b.stored) \o Zeros(b.zeros)],
           [at |-> at, out |-> <<>>], blocks).out
BasicImage(a, f, view) ==
  LET total == Total(f.blocks)
  IN  IF f.encryption > 1 \/ a.pe > a.size \/ total.stored > a.size - a.pe THEN NoImage
      ELSE IF XexExpected(a) \notin {0, total.all} THEN NoImage
      ELSE ImageOf(Unrolled(f.blocks, a.pe + view.shift), view)
PlainImage(a, view) ==
  LET n == a.size - a.pe
      size == IF XexExpected(a) # 0 THEN AtMost(n, XexExpected(a)) ELSE n
  IN  IF n < 0 THEN NoImage ELSE ImageOf(Places(a.pe + view.shift, size), view)

Decompressed(a, f, view) ==
  CASE f.compression = 0 -> PlainImage(a, view)
    [] f.compression = 1 -> BasicImage(a, f, view)
    [] f.compression = 2 -> LzxImage(a, f, LzxBlockChain(a, view, f).out)
    [] OTHER -> NoImage

-----------------------------------------------------------------------------
(* readPeLayout.                                                           *)
LayoutOf(image) ==
  LET n == Len(image.bytes)
      mz == Header(image, 0, "mz")
      pe == Header(image, mz.nt, "pe")
  IN  IF n < 64 \/ mz.kind = "none" THEN NoHeader
      ELSE IF mz.nt > n - 24 \/ pe.kind = "none" THEN NoHeader
      ELSE IF pe.optional < 64 \/ ~pe.magic \/ mz.nt + 24 + pe.optional + 40 * Len(pe.sections) > n THEN NoHeader
      ELSE pe

OriginalName(a) ==
  LET named == {i \in DOMAIN a.headers : a.headers[i].key = "ORIGINAL_PE_NAME" /\ PayloadSize(a, a.headers[i]) > 0}
  IN  IF named = {} THEN "image.pe"
      ELSE LET text == a.at[a.headers[Max(named)].value].text IN IF text = "" THEN "image.pe" ELSE text
ImageEntry(a, image) ==
  IF LayoutOf(image).kind = "none" THEN XexEntry("XEX_LOADED_IMAGE", "loaded_image", Bytes(image.bytes))
  ELSE Entry(<<OriginalName(a), OriginalName(a)>>, Bytes(image.bytes))
XexImaged(a, w, image) ==
  LET on == [w EXCEPT !.state = IF ValueOf(a, "RESOURCE_INFO") = 0 THEN "open" ELSE "records", !.parts = <<image>>]
  IN  IF image.bytes = <<>> THEN on ELSE Listed(on, ImageEntry(a, image))
XexBuilt(a, w, f, keys) ==
  CASE f.kind = "none" -> XexImaged(a, w, NoImage)
    [] f.encryption # 1 -> XexImaged(a, w, Decompressed(a, f, AsStored(a)))
    [] keys = <<>> -> XexImaged(a, [w EXCEPT !.error = TRUE], NoImage)
    [] OTHER -> XexImaged(a, w, Decompressed(a, f, Decrypted(a, Head(keys))))
XexImage(a, w) ==
  LET pe == EmbeddedPe(a)
  IN  IF pe >= 0 THEN XexImaged(a, w, ImageOf(Places(pe, a.size - pe), AsStored(a)))
      ELSE XexBuilt(a, w, FileFormat(a), KeysThatFit(a, FileFormat(a)))

(* mapVirtualAddress, and, where that finds nothing, mapLoadedImageAddress *)
(* with addresses that are offsets.                                        *)
InLayout(layout, n, rva, size) ==
  LET holds == {i \in DOMAIN layout.sections :
                  LET s == layout.sections[i]
                  IN  rva >= s.va /\ rva + size =< s.va + Max({s.virtualSize, s.rawSize})}
      s == layout.sections[Min(holds)]
      from == s.raw + rva - s.va
  IN  IF rva < 0 THEN -1
      ELSE IF rva < layout.headers /\ rva + size =< n THEN rva
      ELSE IF holds = {} THEN -1
      ELSE IF rva - s.va + size > s.rawSize \/ from + size > n THEN -1 ELSE from
InImage(base, layout, n, address, size) ==
  LET mapped == IF layout.kind = "none" THEN -1
                ELSE InLayout(layout, n, address - (IF base # 0 THEN base ELSE layout.base), size)
  IN  IF mapped >= 0 THEN mapped
      ELSE IF base = 0 \/ address < base \/ address - base + size > n THEN -1 ELSE address - base

(* One record: itself, and what it points to in the image.                 *)
XexFound(w, r, name, image, from) ==
  IF image.bytes = <<>> \/ r.size = 0 \/ from < 0 THEN w
  ELSE Listed(w, XexEntry("XEX_RESOURCE", name, Bytes(SubSeq(image.bytes, from + 1, from + r.size))))
XexResource(a, w, r, at, image) ==
  LET name == IF r.name = "" THEN "resource_" \o ToString(w.at) ELSE r.name
      listed == Listed(w, XexEntry("XEX_RESOURCE_INFO", name, Extent(at, 16)))
  IN  [XexFound(listed, r, name, image, InImage(LoadBase(a), LayoutOf(image), Len(image.bytes), r.address, r.size))
         EXCEPT !.at = @ + 1]
XexRecord(a, w) ==
  LET at == ValueOf(a, "RESOURCE_INFO")
      block == At(a.at, at, [length |-> 0])
  IN  IF at > a.size - 4 \/ block.length < 4 THEN XexFails(w)
      ELSE IF (block.length - 4) % 16 # 0 \/ at + block.length > a.size THEN XexFails(w)
      ELSE IF w.at = (block.length - 4) \div 16 THEN Ended(w)
      ELSE XexResource(a, w, block.records[w.at + 1], at + 4 + 16 * w.at, w.parts[1])
=============================================================================
