----------------------------- MODULE Filesystems ------------------------------
(***************************************************************************)
(* What the filesystem readers of opener/fs share: the walk over a         *)
(* volume's metadata that every one of them makes, the stores a file's     *)
(* content is made of, and names.                                          *)
(*                                                                         *)
(* A volume is a record of its metadata as the reader decodes it: fields   *)
(* of the superblock as numbers, tables and nodes as functions of their    *)
(* address.  A name is a string; LowerCase folds the ones that have case,  *)
(* NameRank is their order.                                                *)
(***************************************************************************)
EXTENDS Integers, Sequences, FiniteSets, SequencesExt

CONSTANTS LowerCase, NameRank

Fold(name) == IF name \in DOMAIN LowerCase THEN LowerCase[name] ELSE name

Smaller(a, b) == IF a < b THEN a ELSE b
Larger(a, b) == IF a < b THEN b ELSE a
UpTo(a, unit) == ((a + unit - 1) \div unit) * unit

(* What lies at an address, when anything does.                            *)
At(table, a, default) == IF a \in DOMAIN table THEN table[a] ELSE default

(* A loop or a recursion under way: what is still to be visited, first     *)
(* thing first, what was visited, and what was gathered.  One that fails   *)
(* gathers nothing more.                                                   *)
Walk(todo) == [todo |-> todo, seen |-> {}, out |-> <<>>, ok |-> TRUE]
Stopped(w) == [w EXCEPT !.todo = <<>>]
Failed(w) == [w EXCEPT !.todo = <<>>, !.ok = FALSE]
Skipped(w) == [w EXCEPT !.todo = Tail(@)]
Gather(w, items) == [w EXCEPT !.out = @ \o items]
(* The node at hand was visited; its children come before the rest.        *)
Visited(w, key, children) ==
  [w EXCEPT !.todo = children \o Tail(@), !.seen = @ \cup {key}]

(* A loop that is over when the turns left nothing to visit.               *)
WholeWalk(w, Turn(_)) ==
  LET after[n \in Nat] == IF n = 0 THEN w ELSE Turn(after[n - 1])
      from[n \in Nat] == IF after[n].todo = <<>> THEN after[n] ELSE from[n + 1]
  IN  from[0]

-----------------------------------------------------------------------------
(* The elements of a sequence at some of its places, in their order.       *)
Kept(s, places) ==
  LET upto[n \in 0..Len(s)] ==
        IF n = 0 THEN <<>> ELSE IF n \in places THEN Append(upto[n - 1], s[n]) ELSE upto[n - 1]
  IN  upto[Len(s)]
Keeping(s, Test(_)) == Kept(s, {i \in 1..Len(s) : Test(s[i])})

(* One list of several.                                                    *)
Concatenated(lists) ==
  LET upto[n \in 0..Len(lists)] == IF n = 0 THEN <<>> ELSE upto[n - 1] \o lists[n]
  IN  upto[Len(lists)]

(* std::sort of the places 1..n, where `before` holds the pairs of places  *)
(* whose first comes before the second: each is put behind those that it   *)
(* does not come before.                                                   *)
Insert(order, i, before) ==
  LET behind == Cardinality({k \in 1..Len(order) : <<i, order[k]>> \notin before})
  IN  [k \in 1..Len(order) + 1 |->
        IF k =< behind THEN order[k] ELSE IF k = behind + 1 THEN i ELSE order[k - 1]]
Order(n, before) ==
  LET upto[k \in 0..n] == IF k = 0 THEN <<>> ELSE Insert(upto[k - 1], k, before)
  IN  upto[n]
Sorted(s, Before(_, _)) ==
  LET places == 1..Len(s)
      order == Order(Len(s), {p \in places \X places : Before(s[p[1]], s[p[2]])})
  IN  [k \in places |-> s[order[k]]]

-----------------------------------------------------------------------------
(* A content is a sequence of parts: bytes of the image from `at` on,      *)
(* Zeros, or Nothing that can be read.  HostAt is the image byte that a    *)
(* position of it shows; past the parts there is Nothing.                  *)
Zeros == -2
Nothing == -1
Part(at, len) == [at |-> at, len |-> len]

StartsOf(parts) ==
  LET ends[i \in 0..Len(parts)] == IF i = 0 THEN 0 ELSE ends[i - 1] + parts[i].len
  IN  [i \in 1..Len(parts) + 1 |-> ends[i - 1]]

LengthOf(parts) == StartsOf(parts)[Len(parts) + 1]

HostAt(parts, size, pos) ==
  LET starts == StartsOf(parts)
      here == {i \in 1..Len(parts) : starts[i] =< pos /\ pos < starts[i + 1]}
  IN  IF pos < 0 \/ pos >= size \/ here = {} THEN Nothing
      ELSE LET i == CHOOSE i \in here : TRUE
           IN  IF parts[i].at \in {Zeros, Nothing} THEN parts[i].at ELSE parts[i].at + (pos - starts[i])

(* As much of the parts as a store of a size shows.                        *)
CutTo(parts, size) ==
  [i \in 1..Len(parts) |->
    Part(parts[i].at, Larger(0, Smaller(parts[i].len, size - StartsOf(parts)[i])))]

(* The first entry whose name is the one wanted, under a reader's own      *)
(* notion of sameness.                                                     *)
FirstWhere(entries, Test(_)) ==
  LET hits == {i \in 1..Len(entries) : Test(entries[i])}
  IN  IF hits = {} THEN <<>> ELSE <<entries[CHOOSE i \in hits : \A j \in hits : i =< j]>>
=============================================================================
