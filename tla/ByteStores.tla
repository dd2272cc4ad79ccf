------------------------------ MODULE ByteStores ------------------------------
(***************************************************************************)
(* The positioned byte stores every reader, disk image and lazy member of  *)
(* the opener is built from: a client reads a range of a store composed    *)
(* from parts (a window, raw optical sectors, a concatenation, stripes).   *)
(*                                                                         *)
(* A part is any IByteStore: it holds the first `held' bytes of the        *)
(* capacity it announces (fewer when the image is cut short, none when the *)
(* pointer is null) and answers any nonempty prefix of what is asked and   *)
(* held, as the interface says.  A store is a record with the fields of    *)
(* every class; the ones a class lacks are 0.  Positions and parts count   *)
(* from 0, as in the code.                                                 *)
(***************************************************************************)
EXTENDS Integers

CONSTANTS
  Byte,                 \* what a position may hold; 0 is the implicit byte
  Stores,               \* the composed stores a client may read
  RawSector,            \* kRawSectorSize and kLogicalSectorSize
  UserSector,
  IntMax,               \* the largest value of an int
  Positions, Counts     \* the requests a client may make

Kinds == {"memory", "sub", "optical", "concat", "striped"}

Part(p) ==
  /\ p.capacity \in Nat /\ p.held \in 0..p.capacity
  /\ p.data \in [0..p.held - 1 -> Byte]

(* The constructors of ConcatStore and StripedStore: where each part       *)
(* starts, and the total, for parts of the given capacities.               *)
Layout(s) ==
  /\ s.starts[0] = 0
  /\ \A k \in 0..s.n - 2 : s.starts[k + 1] = s.starts[k] + s.parts[k].capacity
  /\ \A j, k \in 0..s.n - 1 : j < k => s.starts[j] + s.parts[j].capacity =< s.starts[k]
  /\ s.total = s.starts[s.n - 1] + s.parts[s.n - 1].capacity

Store(s) ==
  /\ s.kind \in Kinds
  /\ s.n \in Nat \ {0} /\ \A k \in 0..s.n - 1 : Part(s.parts[k])
  /\ s.kind \in {"memory", "sub", "optical"} => s.n = 1
  /\ s.kind = "memory" => s.parts[0].held = s.parts[0].capacity
  /\ s.start \in Nat /\ s.length \in Nat /\ s.stripe \in Nat /\ s.total \in Nat
  /\ s.kind = "optical" => s.prefix \in 0..RawSector - UserSector
  /\ s.starts \in [0..s.n - 1 -> Nat] /\ Layout(s)

ASSUME ByteStoresAssumption ==
  /\ 0 \in Byte
  /\ UserSector \in Nat \ {0} /\ RawSector \in Nat /\ UserSector =< RawSector
  /\ IntMax \in Nat /\ Positions \subseteq Int /\ Counts \subseteq Int
  /\ \A s \in Stores : Store(s)

VARIABLES
  store, through,       \* the store read, and which function reads it
  pos, count,           \* what the client asked
  dst, done,            \* its buffer, and the bytes finished reads put there
  pc,                   \* where the call is
  want, produced,       \* of the read under way
  lo, hi                \* of locate's search; then lo is idx

call == <<store, through, pos, count>>
read == <<want, produced, lo, hi>>
vars == <<call, dst, done, pc, read>>

Least(a, b) == IF a < b THEN a ELSE b

(* static_cast<int> of a 64-bit length.                                    *)
AsInt(n) == ((n + IntMax + 1) % (2 * (IntMax + 1))) - (IntMax + 1)

Capacity(s) ==
  CASE s.kind = "memory"  -> s.parts[0].capacity
    [] s.kind = "sub"     -> s.length
    [] s.kind = "optical" -> (s.parts[0].capacity \div RawSector) * UserSector
    [] OTHER              -> s.total

(* How many bytes a part may answer to a read of n bytes at position a.    *)
Answers(p, a, n) ==
  IF a < 0 \/ n =< 0 \/ a >= p.held THEN {0} ELSE 1..Least(n, p.held - a)

(* Mutant of UnitOf: the stripe is not divided among the parts.            *)
UnitOfOnePart(s, logical) ==
  IF s.kind = "optical"
    THEN LET sector == logical \div UserSector
             offset == logical - sector * UserSector
         IN  [part |-> 0, at |-> sector * RawSector + s.prefix + offset,
              rest |-> UserSector - offset]
    ELSE LET stripe == logical \div s.stripe
             offset == logical - stripe * s.stripe
         IN  [part |-> stripe % s.n, at |-> stripe * s.stripe + offset,
              rest |-> s.stripe - offset]

(* Where the optical and striped loops look for a logical byte, and the    *)
(* bytes up to the end of its sector or stripe.                            *)
UnitOf(s, logical) ==
  IF s.kind = "optical"
    THEN LET sector == logical \div UserSector
             offset == logical - sector * UserSector
         IN  [part |-> 0, at |-> sector * RawSector + s.prefix + offset,
              rest |-> UserSector - offset]
    ELSE LET stripe == logical \div s.stripe
             offset == logical - stripe * s.stripe
         IN  [part |-> stripe % s.n, at |-> (stripe \div s.n) * s.stripe + offset,
              rest |-> s.stripe - offset]

-----------------------------------------------------------------------------
NothingRead == want = 0 /\ produced = 0 /\ lo = 0 /\ hi = 0

Init ==
  /\ store \in Stores /\ through = "read" /\ pos = 0 /\ count = 0
  /\ dst = [x \in {} |-> 0] /\ done = 0 /\ pc = "idle" /\ NothingRead

Ask(s, p, n, size, how) ==
  /\ pc = "idle"
  /\ store' = s /\ through' = how /\ pos' = p /\ count' = n
  /\ dst' = [x \in 0..size - 1 |-> 0] /\ done' = 0
  /\ UNCHANGED read

(* readRange: the range is clamped to the store, the buffer is filled with *)
(* zeros, and readExactly gets its length as an int.                       *)
ReadRange(s, p, c) ==
  LET n == IF p < 0 \/ p >= Capacity(s) \/ c =< 0 THEN 0 ELSE Least(c, Capacity(s) - p)
  IN  /\ Ask(s, p, AsInt(n), n, "readExactly")
      /\ pc' = IF AsInt(n) > 0 THEN "enter" ELSE "done"

(* A reader calls read itself, with any position and count.                *)
ReadOnce(s, p, c) == Ask(s, p, c, c, "read") /\ pc' = "enter"

(* Mutant of Enter: each read asks for the whole count again.              *)
EnterWholeCount ==
  LET at == pos + done
      nothing == \/ at < 0 \/ count =< 0 \/ at >= Capacity(store)
                 \/ store.kind = "striped" /\ store.stripe = 0
  IN  /\ pc = "enter"
      /\ pc' = IF nothing THEN "back" ELSE IF store.kind = "concat" THEN "locate" ELSE "loop"
      /\ want' = IF nothing THEN 0 ELSE Least(count, Capacity(store) - at)
      /\ produced' = 0 /\ lo' = 0 /\ hi' = store.n
      /\ UNCHANGED <<call, dst, done>>

(* The prologue of read: nothing past the end, and no more than the rest.  *)
Enter ==
  LET at == pos + done
      left == count - done
      nothing == \/ at < 0 \/ left =< 0 \/ at >= Capacity(store)
                 \/ store.kind = "striped" /\ store.stripe = 0
  IN  /\ pc = "enter"
      /\ pc' = IF nothing THEN "back" ELSE IF store.kind = "concat" THEN "locate" ELSE "loop"
      /\ want' = IF nothing THEN 0 ELSE Least(left, Capacity(store) - at)
      /\ produced' = 0 /\ lo' = 0 /\ hi' = store.n
      /\ UNCHANGED <<call, dst, done>>

(* Mutant of Locate: the search ends on the part after the one it found.   *)
LocateNext ==
  LET mid == (lo + hi) \div 2
  IN  /\ pc = "locate"
      /\ IF lo + 1 < hi
           THEN /\ IF store.starts[mid] =< pos + done
                     THEN lo' = mid /\ hi' = hi
                     ELSE hi' = mid /\ lo' = lo
                /\ pc' = pc
           ELSE pc' = "loop" /\ lo' = hi /\ hi' = hi
      /\ UNCHANGED <<call, dst, done, want, produced>>

(* One round of locate's binary search.                                    *)
Locate ==
  LET mid == (lo + hi) \div 2
  IN  /\ pc = "locate"
      /\ IF lo + 1 < hi
           THEN /\ IF store.starts[mid] =< pos + done
                     THEN lo' = mid /\ hi' = hi
                     ELSE hi' = mid /\ lo' = lo
                /\ pc' = pc
           ELSE pc' = "loop" /\ UNCHANGED <<lo, hi>>
      /\ UNCHANGED <<call, dst, done, want, produced>>

(* k bytes of a part arrive behind those already there.                    *)
Copy(p, a, k) ==
  LET from == done + produced
  IN  /\ dst' = [x \in DOMAIN dst |-> IF x \in from..from + k - 1
                                        THEN p.data[a + (x - from)] ELSE dst[x]]
      /\ produced' = produced + k /\ want' = want - k

(* MemoryStore, ExternalStore and ZeroStore copy from their own bytes.     *)
FromMemory ==
  /\ pc = "loop" /\ store.kind = "memory"
  /\ Copy(store.parts[0], pos + done, want) /\ pc' = "back"
  /\ UNCHANGED <<call, done, lo, hi>>

(* SubStore asks its parent once.                                          *)
FromWindow ==
  /\ pc = "loop" /\ store.kind = "sub"
  /\ \E k \in Answers(store.parts[0], store.start + pos + done, want) :
       Copy(store.parts[0], store.start + pos + done, k)
  /\ pc' = "back"
  /\ UNCHANGED <<call, done, lo, hi>>

(* Mutant of FromUnit: a turn takes the whole unit, not what is wanted.    *)
FromWholeUnit ==
  /\ pc = "loop" /\ store.kind \in {"optical", "striped"} /\ want > 0
  /\ LET u == UnitOf(store, pos + done + produced)
         p == store.parts[u.part]
     IN  \E k \in Answers(p, u.at, u.rest) :
           /\ Copy(p, u.at, k)
           /\ pc' = IF k = 0 THEN "back" ELSE "loop"
  /\ UNCHANGED <<call, done, lo, hi>>

(* One turn of the optical and striped loops, never across a unit.         *)
FromUnit ==
  /\ pc = "loop" /\ store.kind \in {"optical", "striped"} /\ want > 0
  /\ LET u == UnitOf(store, pos + done + produced)
         p == store.parts[u.part]
     IN  \E k \in Answers(p, u.at, Least(u.rest, want)) :
           /\ Copy(p, u.at, k)
           /\ pc' = IF k = 0 THEN "back" ELSE "loop"
  /\ UNCHANGED <<call, done, lo, hi>>

(* Mutant of FromConcat: a part that answers nothing is asked again.       *)
FromConcatStays ==
  /\ pc = "loop" /\ store.kind = "concat" /\ want > 0 /\ lo < store.n
  /\ LET p == store.parts[lo]
         within == pos + done + produced - store.starts[lo]
     IN  \E k \in Answers(p, within, want) :
           /\ Copy(p, within, k)
           /\ lo' = IF k > 0 /\ within + k >= p.capacity THEN lo + 1 ELSE lo
  /\ UNCHANGED <<call, done, pc, hi>>

(* One turn of ConcatStore's loop: the part answers, or its end moves the  *)
(* loop to the next one.                                                   *)
FromConcat ==
  /\ pc = "loop" /\ store.kind = "concat" /\ want > 0 /\ lo < store.n
  /\ LET p == store.parts[lo]
         within == pos + done + produced - store.starts[lo]
     IN  \E k \in Answers(p, within, want) :
           /\ Copy(p, within, k)
           /\ lo' = IF k = 0 \/ within + k >= p.capacity THEN lo + 1 ELSE lo
  /\ UNCHANGED <<call, done, pc, hi>>

LoopEnds ==
  /\ pc = "loop" /\ store.kind \in {"optical", "striped", "concat"}
  /\ want = 0 \/ (store.kind = "concat" /\ lo = store.n)
  /\ pc' = "back"
  /\ UNCHANGED <<call, dst, done, read>>

(* Mutant of Back: readExactly does not go on after a short answer.        *)
BackAtOnce ==
  /\ pc = "back" /\ pc' = "done"
  /\ done' = done + produced
  /\ dst' = [x \in DOMAIN dst |-> IF x \in done + produced..count - 1 THEN 0 ELSE dst[x]]
  /\ want' = 0 /\ produced' = 0 /\ lo' = 0 /\ hi' = 0
  /\ UNCHANGED call

(* read returns.  readExactly goes on until it has the count or a read     *)
(* gives nothing; then the rest of the buffer is zeros.                    *)
Back ==
  LET ends == through = "read" \/ produced = 0 \/ done + produced >= count
  IN  /\ pc = "back"
      /\ done' = done + produced
      /\ dst' = IF through = "readExactly" /\ produced = 0
                  THEN [x \in DOMAIN dst |-> IF x \in done..count - 1 THEN 0 ELSE dst[x]]
                  ELSE dst
      /\ pc' = IF ends THEN "done" ELSE "enter"
      /\ want' = 0 /\ produced' = 0 /\ lo' = 0 /\ hi' = 0
      /\ UNCHANGED call

(* The client takes the buffer.                                            *)
Return ==
  /\ pc = "done" /\ pc' = "idle"
  /\ pos' = 0 /\ count' = 0 /\ through' = "read"
  /\ dst' = [x \in {} |-> 0] /\ done' = 0
  /\ UNCHANGED <<store, read>>

Step == Enter \/ Locate \/ FromMemory \/ FromWindow \/ FromUnit \/ FromConcat \/ LoopEnds \/ Back

Next ==
  \/ \E s \in Stores, p \in Positions, c \in Counts : ReadRange(s, p, c) \/ ReadOnce(s, p, c)
  \/ Step
  \/ Return

(* A call runs to its end: the loops are straight code on one thread.      *)
Spec == Init /\ [][Next]_vars /\ WF_vars(Step)

-----------------------------------------------------------------------------
(* Byte a of part k is byte i of the store: what a window, user data, a    *)
(* concatenation and stripes mean, said from the part's side.              *)
Stands(s, k, a, i) ==
  \/ s.kind = "memory" /\ i = a
  \/ s.kind = "sub" /\ i = a - s.start /\ i \in 0..s.length - 1
  \/ s.kind = "concat" /\ i = s.starts[k] + a
  \/ /\ s.kind = "optical"
     /\ \E sector \in 0..a, offset \in 0..UserSector - 1 :
          a = sector * RawSector + s.prefix + offset /\ i = sector * UserSector + offset
  \/ /\ s.kind = "striped"
     /\ \E row \in 0..a, offset \in 0..s.stripe - 1 :
          a = row * s.stripe + offset /\ i = (row * s.n + k) * s.stripe + offset

IsByte(s, i, b) ==
  \E k \in 0..s.n - 1 : \E a \in 0..s.parts[k].held - 1 :
    Stands(s, k, a, i) /\ b = s.parts[k].data[a]

(* Every byte a window or a composition needs is there, and stripes are    *)
(* even: the images the code does not have to guess about.                 *)
Intact(s) ==
  /\ s.kind = "sub" => s.start + s.length =< s.parts[0].held
  /\ s.kind # "sub" => \A k \in 0..s.n - 1 : s.parts[k].held = s.parts[k].capacity
  /\ s.kind = "striped" =>
       \E rows \in 0..s.total :
         s.stripe > 0 /\ \A k \in 0..s.n - 1 : s.parts[k].capacity = rows * s.stripe

-----------------------------------------------------------------------------
TypeOK ==
  /\ store \in Stores /\ through \in {"readExactly", "read"} /\ pos \in Int /\ count \in Int
  /\ DOMAIN dst \subseteq Nat /\ dst \in [DOMAIN dst -> Byte]
  /\ done \in Nat /\ produced \in Nat /\ want \in Nat
  /\ pc \in {"idle", "enter", "locate", "loop", "back", "done"}
  /\ lo \in 0..store.n /\ hi \in 0..store.n

(* A read never writes past the client's buffer, however many turns and    *)
(* short answers it is put together from (dst + done, dst + produced).     *)
NeverOverruns == 0..done + produced + want - 1 \subseteq DOMAIN dst

(* What a read reports as produced are the bytes that stand at the         *)
(* positions asked for, across parts, sectors and stripes: never a byte of *)
(* a neighbour, of a sector header, or of the right part one place off.    *)
(* It holds for damaged stores as well.                                    *)
NeverMisplaced ==
  \A x \in 0..done + produced - 1 : x \in DOMAIN dst /\ IsByte(store, pos + x, dst[x])

(* A composition of parts that answer is a part that answers: read gives   *)
(* something whenever there is something, so that composed stores nest and *)
(* readExactly does not take a short answer for the end.                   *)
AnswersWhenItHolds ==
  pc = "back" /\ Intact(store) /\ pos + done \in 0..Capacity(store) - 1 /\ count > done
    => produced > 0

(* The buffer a client of readRange takes holds each byte of the range, or *)
(* 0 where the store holds nothing, whatever its part boundaries, for a    *)
(* range an int can count.                                                 *)
RangeHolds ==
  pc = "done" /\ through = "readExactly" =>
    \A x \in DOMAIN dst :
      /\ \A b \in Byte : IsByte(store, pos + x, b) => dst[x] = b
      /\ (\A b \in Byte : ~IsByte(store, pos + x, b)) => dst[x] = 0

IntactRangeHolds == Intact(store) /\ (\A x \in DOMAIN dst : x < IntMax) => RangeHolds

(* A call comes back: the loops end for every store and every sequence of  *)
(* short answers.                                                          *)
ReadEnds == pc = "enter" ~> pc = "done"
=============================================================================
