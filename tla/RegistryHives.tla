----------------------------- MODULE RegistryHives -----------------------------
(***************************************************************************)
(* The registry hive reader (fs/RegistryHiveReader.cpp): keys and values   *)
(* in cells that name each other by index, lists of subkeys in lists of    *)
(* lists, and data too large for a cell in segments.                       *)
(*                                                                         *)
(* `cells` maps an index to the cell there: its kind and what it holds, a  *)
(* cell in use whose size fits the hive.  A cell of data has its length.   *)
(***************************************************************************)
EXTENDS Filesystems

HiveStart == 4096

(* rawCell() and what it is taken for.                                     *)
Cell(v, index, kinds) ==
  IF index \in 0..v.length - 1 /\ index \in DOMAIN v.cells
  THEN SelectSeq(<<v.cells[index]>>, LAMBDA c : c.kind \in kinds) ELSE <<>>

HiveAccepts(v) ==
  /\ v.capacity >= HiveStart + 32 /\ v.signed /\ v.root >= 0 /\ v.length > 0
  /\ HiveStart + v.length =< v.capacity + 4096
  /\ Cell(v, v.root, {"nk"}) # <<>>

(* collectSubKeyIndexes(): a list of keys, or a list of lists; one that    *)
(* cannot be read fails the whole.                                         *)
HiveListStart(index) == Walk(<<[list |-> index, depth |-> 0]>>)

HiveListTurn(v, w) ==
  LET here == Head(w.todo)
      cell == Cell(v, here.list, {"lf", "lh", "ri"})
      below == [i \in 1..Len(cell[1].items) |-> [list |-> cell[1].items[i], depth |-> here.depth + 1]]
  IN  IF here.depth > 8 \/ cell = <<>> THEN Failed(w)
      ELSE IF cell[1].kind = "ri" THEN [w EXCEPT !.todo = below \o Tail(@)]
      ELSE Gather(Skipped(w), cell[1].items)

(* The walk over the subkeys of a key.                                     *)
HiveKeyStart(v, node) ==
  LET key == Cell(v, node.first, {"nk"})
  IN  IF key = <<>> THEN Walk(<<>>) ELSE HiveListStart(key[1].subkeys)

(* keyForPath(): a list that fails holds no keys.                          *)
HiveKeys(v, w) ==
  LET indices == IF w.ok THEN SelectSeq(w.out, LAMBDA i : Cell(v, i, {"nk"}) # <<>>) ELSE <<>>
  IN  [i \in 1..Len(indices) |-> [name |-> v.cells[indices[i]].name, dir |-> TRUE,
                                  first |-> indices[i], size |-> 0]]

(* valueIndexes() and parseValue().                                        *)
HiveValues(v, node) ==
  LET key == Cell(v, node.first, {"nk"})[1]
      list == Cell(v, key.values, {"data"})
      indices == IF key.valueCount =< 0 \/ list = <<>> \/ key.valueCount > Len(list[1].items) THEN <<>>
                 ELSE SubSeq(list[1].items, 1, key.valueCount)
      good == SelectSeq(indices, LAMBDA i : Cell(v, i, {"vk"}) # <<>>)
  IN  [i \in 1..Len(good) |-> v.cells[good[i]]]

(* readValueData(): up to four bytes in the value itself; a cell; or the   *)
(* segments that a "db" cell lists, each whole but the last.  `at` is the  *)
(* byte of the hive a part starts at; -3 - i stands for byte i of an       *)
(* inline value.                                                           *)
HiveCellPart(v, index, room) ==
  Part(HiveStart + index + 4, Smaller(v.cells[index].len, room))

HiveSegments(v, items, len) ==
  LET take(s, i) ==
        IF ~s.ok \/ s.got >= len THEN s
        ELSE IF Cell(v, i, {"data"}) = <<>> THEN [s EXCEPT !.ok = FALSE]
        ELSE LET part == HiveCellPart(v, i, len - s.got)
             IN  [s EXCEPT !.parts = Append(@, part), !.got = @ + part.len]
  IN  FoldLeft(take, [parts |-> <<>>, got |-> 0, ok |-> TRUE], items)

(* The data as a sequence of one, none when it cannot be read.             *)
HiveData(v, value) ==
  LET cell == Cell(v, value.data, {"data", "db"})
      list == Cell(v, cell[1].list, {"data"})
      found == HiveSegments(v, SubSeq(list[1].items, 1, cell[1].segments), value.len)
  IN  IF value.len = 0 THEN <<<<>>>>
      ELSE IF value.inline THEN <<<<Part(HiveStart + value.self + 8 + 4, Smaller(value.len, 4))>>>>
      ELSE IF cell = <<>> THEN <<>>
      ELSE IF cell[1].kind = "data" THEN <<<<HiveCellPart(v, value.data, value.len)>>>>
      ELSE IF list = <<>> \/ Len(list[1].items) < cell[1].segments THEN <<>>
      ELSE IF found.ok /\ found.got = value.len THEN <<found.parts>> ELSE <<>>

HiveRoot(v) == [name |-> "", dir |-> TRUE, first |-> v.root]
HiveFind(keys, name) == FirstWhere(keys, LAMBDA e : Fold(e.name) = Fold(name))

(* list(): the subkeys if the key says it has some, and the values whose   *)
(* data can be read.  The size shown is that of the data.                  *)
HiveListing(v, node, w) ==
  LET keys == IF Cell(v, node.first, {"nk"})[1].subkeyCount > 0 THEN HiveKeys(v, w) ELSE <<>>
      values == SelectSeq(HiveValues(v, node), LAMBDA c : HiveData(v, c) # <<>>)
      items == [i \in 1..Len(keys) |-> [name |-> keys[i].name, dir |-> TRUE, size |-> 0]]
               \o [i \in 1..Len(values) |-> [name |-> "@" \o values[i].name, dir |-> FALSE,
                                             size |-> LengthOf(HiveData(v, values[i])[1])]]
  IN  SortSeq(items, LAMBDA a, b : \/ a.dir /\ ~b.dir
                                   \/ a.dir = b.dir /\ NameRank[a.name] < NameRank[b.name])

(* openFile() of the value of a key: the first of that name, read or not.  *)
HiveReads(v, node, name, pos) ==
  LET hit == FirstWhere(HiveValues(v, node), LAMBDA c : Fold("@" \o c.name) = Fold(name))
  IN  IF hit = <<>> \/ HiveData(v, hit[1]) = <<>> THEN Nothing
      ELSE HostAt(HiveData(v, hit[1])[1], LengthOf(HiveData(v, hit[1])[1]), pos)
=============================================================================
