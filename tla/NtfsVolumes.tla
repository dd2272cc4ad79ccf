----------------------------- MODULE NtfsVolumes ------------------------------
(***************************************************************************)
(* The NTFS reader (fs/NtfsReader.cpp): the master file table found        *)
(* through its own first record, attributes in pieces over several         *)
(* records, run lists, and directory indexes.                              *)
(*                                                                         *)
(* `records` maps a byte of the volume to the file record there, when its  *)
(* signature and fixups are right; `blocks` likewise for index blocks.  An *)
(* attribute is [type, name, id, resident, lowest, size, packed, runs,     *)
(* entries, refs, at]: entries of an index root, refs of an attribute      *)
(* list, the place of resident data.                                       *)
(***************************************************************************)
EXTENDS Filesystems

NtfsCluster(v) == v.sector * v.perCluster
NtfsRecordSize(v) == IF v.rawRecord >= 0 THEN v.rawRecord * NtfsCluster(v) ELSE 2^(-v.rawRecord)

(* parseRunlist(): each offset is from the run before, sparse runs aside.  *)
NtfsRuns(raw) ==
  LET bad == {i \in 1..Len(raw) : raw[i].length =< 0}
      n == IF bad = {} THEN Len(raw) ELSE (CHOOSE i \in bad : \A j \in bad : i =< j) - 1
      lcn[i \in 0..n] == IF i = 0 THEN 0
                         ELSE lcn[i - 1] + (IF raw[i].sparse THEN 0 ELSE raw[i].delta)
  IN  [i \in 1..n |-> [lcn |-> IF raw[i].sparse THEN -1 ELSE lcn[i], length |-> raw[i].length]]

(* runsStore(): a run that is sparse or off the disk reads as zeros.       *)
NtfsParts(v, runs) ==
  [i \in 1..Len(runs) |->
    LET bytes == runs[i].length * NtfsCluster(v)
        start == runs[i].lcn * NtfsCluster(v)
        onDisk == runs[i].lcn >= 0 /\ start =< v.capacity /\ bytes =< v.capacity - start
    IN  Part(IF onDisk THEN start ELSE Zeros, bytes)]

NtfsHostAt(v, attr, pos) == HostAt(NtfsParts(v, attr.runs), attr.size, pos)

-----------------------------------------------------------------------------
(* Records.                                                                *)

(* parseRecord() leaves the attributes with their runs resolved.           *)
NtfsDecoded(record) ==
  [record EXCEPT !.attrs = [i \in 1..Len(@) |-> [@[i] EXCEPT !.runs = NtfsRuns(@)]]]

NtfsRecordOn(v, at) == IF at \in DOMAIN v.records THEN <<NtfsDecoded(v.records[at])>> ELSE <<>>

NtfsFindAttr(record, type, name) ==
  FirstWhere(record.attrs, LAMBDA a : a.type = type /\ a.name = name)

(* parse(): record 0 says where the table is.                              *)
NtfsTable(v) ==
  LET first == NtfsRecordOn(v, v.mft * NtfsCluster(v))
      data == NtfsFindAttr(first[1], "data", "")
  IN  IF first = <<>> THEN <<>>
      ELSE SelectSeq(data, LAMBDA a : ~a.resident /\ a.runs # <<>>)

NtfsAccepts(v) ==
  /\ v.signed /\ v.sector \in {512, 1024, 2048, 4096}
  /\ v.perCluster \in {1, 2, 4, 8, 16, 32, 64, 128} /\ NtfsCluster(v) =< 2^21
  /\ v.total # 0 /\ v.total =< v.capacity \div v.sector
  /\ NtfsRecordSize(v) \in v.sector..2^20 /\ NtfsRecordSize(v) % v.sector = 0
  /\ NtfsTable(v) # <<>>

NtfsRaw(v, index) ==
  NtfsRecordOn(v, NtfsHostAt(v, NtfsTable(v)[1], index * NtfsRecordSize(v)))

(* normalizeAttributes(): the pieces of an attribute joined in order, a    *)
(* piece that is missing as a sparse run.                                  *)
NtfsJoinPiece(whole, piece) ==
  LET vcn == LengthOf([i \in 1..Len(whole.runs) |-> [len |-> whole.runs[i].length]])
      gap == IF piece.lowest > vcn THEN <<[lcn |-> -1, length |-> piece.lowest - vcn]>> ELSE <<>>
  IN  [whole EXCEPT !.runs = @ \o gap \o piece.runs, !.size = Larger(@, piece.size),
                    !.packed = @ \/ piece.packed]

NtfsNormalized(attrs) ==
  LET whole == SelectSeq(attrs, LAMBDA a : a.resident)
      pieces == SelectSeq(attrs, LAMBDA a : ~a.resident)
      key(a) == <<a.type, a.name, a.id>>
      firsts == {i \in 1..Len(pieces) : \A j \in 1..i - 1 : key(pieces[j]) # key(pieces[i])}
      joined(k) == LET ps == SortSeq(SelectSeq(pieces, LAMBDA a : key(a) = k),
                                     LAMBDA a, b : a.lowest < b.lowest)
                   IN  FoldLeft(NtfsJoinPiece, [ps[1] EXCEPT !.runs = <<>>], ps)
      order == SetToSortSeq(firsts, LAMBDA i, j : pieces[i].id < pieces[j].id)
  IN  whole \o [i \in 1..Len(order) |-> joined(key(pieces[order[i]]))]

(* mergeAttributeList(): the records the list names, each piece once.      *)
NtfsRecord(v, index) ==
  LET base == NtfsRaw(v, index)
      lists == SelectSeq(base[1].attrs, LAMBDA a : a.type = "list")
      refs == UNION {{lists[i].refs[k] : k \in 1..Len(lists[i].refs)} : i \in 1..Len(lists)} \ {index}
      order == SetToSortSeq(refs, LAMBDA a, b : a < b)
      named(found) == IF found = <<>> THEN <<>>
                      ELSE SelectSeq(found[1].attrs, LAMBDA a : a.type # "list")
      extra == FlattenSeq([i \in 1..Len(order) |-> named(NtfsRaw(v, order[i]))])
      key(a) == <<a.type, a.name, a.id, a.lowest>>
      add(attrs, a) == IF \E i \in 1..Len(attrs) : key(attrs[i]) = key(a) THEN attrs
                       ELSE Append(attrs, a)
  IN  IF base = <<>> THEN <<>>
      ELSE <<[base[1] EXCEPT !.attrs = NtfsNormalized(FoldLeft(add, @, extra))]>>

-----------------------------------------------------------------------------
(* Directories.                                                            *)

(* parseIndexNode(): names in the DOS space, metafiles and links to self   *)
(* and parent are not shown.                                               *)
NtfsNodeEntries(entries) ==
  LET shown == SelectSeq(entries, LAMBDA e : ~e.dos /\ ~e.meta /\ e.name \notin {"", ".", ".."})
  IN  [i \in 1..Len(shown) |-> [name |-> shown[i].name, first |-> shown[i].ref,
                                dir |-> shown[i].dir, size |-> shown[i].size]]

(* readDirectory(): the root node and every block of the allocation, used  *)
(* or not; an entry found twice is kept once.                              *)
NtfsEntries(v, record) ==
  LET root == NtfsFindAttr(record, "root", "$I30")
      alloc == NtfsFindAttr(record, "allocation", "$I30")
      block == root[1].block
      count == IF alloc = <<>> \/ block < v.sector \/ block % v.sector # 0 THEN 0
               ELSE Smaller(LengthOf(NtfsParts(v, alloc[1].runs)), alloc[1].size) \div block
      found == NtfsNodeEntries(root[1].entries) \o
               FlattenSeq([i \in 1..count |->
                 NtfsNodeEntries(At(v.blocks, NtfsHostAt(v, alloc[1], (i - 1) * block), <<>>))])
      add(kept, e) == IF \E i \in 1..Len(kept) : kept[i].first = e.first /\ Fold(kept[i].name) = Fold(e.name)
                      THEN kept ELSE Append(kept, e)
  IN  IF root = <<>> \/ ~root[1].resident THEN <<>> ELSE FoldLeft(add, <<>>, found)

NtfsRoot(v) == [name |-> "", first |-> 5]
NtfsIsDirectory(v, index) == \E record \in ToSet(NtfsRecord(v, index)) : record.directory
NtfsFind(entries, name) == FirstWhere(entries, LAMBDA e : Fold(e.name) = Fold(name))

NtfsListing(entries) ==
  [i \in 1..Len(entries) |-> [name |-> entries[i].name, dir |-> entries[i].dir,
                              size |-> IF entries[i].dir THEN 0 ELSE entries[i].size]]

(* openFile(): the unnamed data, unless it is compressed.                  *)
NtfsReads(v, node, pos) ==
  LET unnamed(record) == IF record = <<>> THEN <<>> ELSE NtfsFindAttr(record[1], "data", "")
      at(data) == IF data = <<>> \/ data[1].packed THEN Nothing
                  ELSE IF ~data[1].resident THEN NtfsHostAt(v, data[1], pos)
                  ELSE IF pos \in 0..data[1].size - 1 THEN data[1].at + pos ELSE Nothing
  IN  at(unnamed(NtfsRecord(v, node.first)))
=============================================================================
