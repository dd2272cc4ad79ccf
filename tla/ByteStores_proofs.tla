--------------------------- MODULE ByteStores_proofs ---------------------------
(***************************************************************************)
(* Theorems about the byte stores, for any stores, requests and width of   *)
(* an int: whatever a read puts in the client's buffer fits in it and is   *)
(* the byte that stands there; and of an intact store, a read answers and  *)
(* a range is read whole.                                                  *)
(***************************************************************************)
EXTENDS ByteStores, TLAPS, WellFoundedInduction

-----------------------------------------------------------------------------
(* Arithmetic the provers need said.                                       *)
LEMMA ProductType ==
  ASSUME NEW i \in Nat, NEW d \in Nat
  PROVE  i * d \in Nat
  OBVIOUS

LEMMA ProductGrows ==
  ASSUME NEW i \in Nat, NEW d \in Nat \ {0}
  PROVE  i * d \in Nat /\ i =< i * d
<1>1. i * d = i + i * (d - 1)
  OBVIOUS
<1>2. i * (d - 1) \in Nat
  <2>1. d - 1 \in Nat
    OBVIOUS
  <2> QED
    BY <2>1, ProductType
<1> QED
  BY <1>1, <1>2

LEMMA EqualRests ==
  ASSUME NEW a \in Int, NEW b \in Int, NEW c \in Int, NEW d \in Int, NEW e \in Int, b + c = d + e
  PROVE  a + b + c = a + d + e
  OBVIOUS

(* A length becomes an int that is no longer.                              *)
LEMMA AsIntShortens ==
  ASSUME NEW n \in Nat
  PROVE  AsInt(n) \in Int /\ AsInt(n) =< n
<1> DEFINE width == 2 * (IntMax + 1)
           shifted == n + IntMax + 1
<1>1. width \in Nat \ {0} /\ shifted \in Nat
  BY ByteStoresAssumption
<1> HIDE DEF width, shifted
<1>2. shifted % width \in Nat /\ shifted \div width \in Nat
      /\ shifted = (shifted \div width) * width + (shifted % width)
  BY <1>1
<1>3. (shifted \div width) * width \in Nat
  BY <1>1, <1>2, ProductType
<1>4. shifted % width =< shifted
  BY <1>1, <1>2, <1>3
<1> QED
  BY <1>1, <1>2, <1>4, ByteStoresAssumption DEF AsInt, width, shifted

-----------------------------------------------------------------------------
(* What a store in use is made of.                                         *)
LEMMA StoreFields ==
  ASSUME NEW s \in Stores
  PROVE  /\ s.kind \in Kinds /\ s.n \in Nat \ {0}
         /\ s.kind \in {"memory", "sub", "optical"} => s.n = 1
         /\ s.start \in Nat /\ s.length \in Nat /\ s.stripe \in Nat
         /\ s.kind = "optical" => s.prefix \in Nat
         /\ \A k \in 0..s.n - 1 :
              /\ s.parts[k].capacity \in Nat
              /\ s.parts[k].held \in Nat /\ s.parts[k].held =< s.parts[k].capacity
              /\ \A a \in 0..s.parts[k].held - 1 : s.parts[k].data[a] \in Byte
              /\ s.starts[k] \in Nat
         /\ s.kind = "memory" => s.parts[0].held = s.parts[0].capacity
         /\ Capacity(s) \in Int
<1>1. Store(s)
  BY ByteStoresAssumption
<1>2. /\ s.kind \in Kinds /\ s.n \in Nat \ {0}
      /\ s.kind \in {"memory", "sub", "optical"} => s.n = 1
      /\ s.start \in Nat /\ s.length \in Nat /\ s.stripe \in Nat /\ s.total \in Nat
      /\ s.kind = "optical" => s.prefix \in Nat
      /\ s.kind = "memory" => s.parts[0].held = s.parts[0].capacity
      /\ \A k \in 0..s.n - 1 : Part(s.parts[k]) /\ s.starts[k] \in Nat
  BY <1>1 DEF Store
<1>3. ASSUME NEW k \in 0..s.n - 1
      PROVE  /\ s.parts[k].capacity \in Nat
             /\ s.parts[k].held \in Nat /\ s.parts[k].held =< s.parts[k].capacity
             /\ \A a \in 0..s.parts[k].held - 1 : s.parts[k].data[a] \in Byte
  <2> DEFINE p == s.parts[k]
  <2>1. /\ p.capacity \in Nat /\ p.held \in 0..p.capacity
        /\ p.data \in [0..p.held - 1 -> Byte]
    BY <1>2 DEF Part
  <2> HIDE DEF p
  <2>2. p.held \in Nat /\ p.held =< p.capacity
    BY <2>1
  <2>3. \A a \in 0..p.held - 1 : p.data[a] \in Byte
    BY <2>1
  <2> QED
    BY <2>1, <2>2, <2>3 DEF p
<1>4. 0 \in 0..s.n - 1
  BY <1>2
<1>5. Capacity(s) \in Int
  <2>1. s.parts[0].capacity \in Nat
    BY <1>3, <1>4
  <2>2. s.parts[0].capacity \div RawSector \in Nat
    BY <2>1, ByteStoresAssumption
  <2>3. (s.parts[0].capacity \div RawSector) * UserSector \in Nat
    BY <2>2, ByteStoresAssumption, ProductType
  <2> QED
    BY <1>2, <2>1, <2>3 DEF Capacity, Kinds
<1> QED
  BY <1>2, <1>3, <1>5

(* The optical and striped loops look where the bytes stand, up to the end *)
(* of the sector or stripe.                                                *)
LEMMA UnitIsRight ==
  ASSUME NEW s \in Stores, NEW logical \in Nat,
         s.kind = "optical" \/ (s.kind = "striped" /\ s.stripe > 0)
  PROVE  LET u == UnitOf(s, logical)
         IN  /\ u.part \in 0..s.n - 1 /\ u.at \in Nat /\ u.rest \in Nat \ {0}
             /\ \A t \in 0..u.rest - 1 : Stands(s, u.part, u.at + t, logical + t)
<1>1. CASE s.kind = "optical"
  <2> DEFINE sector == logical \div UserSector
             offset == logical - sector * UserSector
  <2>1. /\ sector \in Nat /\ offset \in 0..UserSector - 1
        /\ logical = sector * UserSector + offset
    BY ByteStoresAssumption
  <2>2. s.n = 1 /\ s.prefix \in Nat
    BY <1>1, StoreFields
  <2>3. RawSector \in Nat \ {0} /\ UserSector \in Nat \ {0}
    BY ByteStoresAssumption
  <2>4. sector * RawSector \in Nat /\ sector =< sector * RawSector
    BY <2>1, <2>3, ProductGrows
  <2>5. UnitOf(s, logical) =
          [part |-> 0, at |-> sector * RawSector + s.prefix + offset,
           rest |-> UserSector - offset]
    BY <1>1 DEF UnitOf
  <2> HIDE DEF sector, offset
  <2>6. ASSUME NEW t \in 0..UserSector - offset - 1
        PROVE  Stands(s, 0, sector * RawSector + s.prefix + offset + t, logical + t)
    <3>1. sector \in 0..(sector * RawSector + s.prefix + offset + t)
      BY <2>1, <2>2, <2>3, <2>4
    <3>2. offset + t \in 0..UserSector - 1
      BY <2>1, <2>3
    <3>3. sector * RawSector + s.prefix + offset + t = sector * RawSector + s.prefix + (offset + t)
      BY <2>1, <2>2, <2>4
    <3>4. logical + t = sector * UserSector + (offset + t)
      <4>1. sector * UserSector \in Nat
        BY <2>1, <2>3, ProductType
      <4> QED
        BY <2>1, <4>1
    <3> QED
      BY <1>1, <3>1, <3>2, <3>3, <3>4 DEF Stands
  <2>7. 0 \in 0..s.n - 1 /\ sector * RawSector + s.prefix + offset \in Nat
        /\ UserSector - offset \in Nat \ {0}
    BY <2>1, <2>2, <2>3, <2>4
  <2> QED
    BY <2>5, <2>6, <2>7
<1>2. CASE s.kind = "striped" /\ s.stripe > 0
  <2> DEFINE stripe == logical \div s.stripe
             offset == logical - stripe * s.stripe
             row == stripe \div s.n
             part == stripe % s.n
  <2>1. s.stripe \in Nat \ {0} /\ s.n \in Nat \ {0}
    BY <1>2, StoreFields
  <2>2. /\ stripe \in Nat /\ offset \in 0..s.stripe - 1
        /\ logical = stripe * s.stripe + offset
    <3> DEFINE d == s.stripe
    <3>1. d \in Nat \ {0}
      BY <2>1
    <3> HIDE DEF d
    <3>2. /\ logical \div d \in Nat /\ logical - (logical \div d) * d \in 0..d - 1
          /\ logical = (logical \div d) * d + (logical - (logical \div d) * d)
      BY <3>1
    <3> QED
      BY <3>2 DEF d
  <2>3. row \in Nat /\ part \in 0..s.n - 1 /\ stripe = row * s.n + part
    <3> DEFINE d == s.n
    <3>1. d \in Nat \ {0} /\ stripe \in Nat
      BY <2>1, <2>2
    <3> HIDE DEF d, stripe
    <3>2. /\ stripe \div d \in Nat /\ stripe % d \in 0..d - 1
          /\ stripe = (stripe \div d) * d + (stripe % d)
      BY <3>1
    <3> QED
      BY <3>2 DEF d
  <2>4. row * s.stripe \in Nat /\ row =< row * s.stripe
    BY <2>1, <2>3, ProductGrows
  <2>5. UnitOf(s, logical) =
          [part |-> part, at |-> row * s.stripe + offset, rest |-> s.stripe - offset]
    BY <1>2 DEF UnitOf
  <2> HIDE DEF stripe, offset, row, part
  <2>6. ASSUME NEW t \in 0..s.stripe - offset - 1
        PROVE  Stands(s, part, row * s.stripe + offset + t, logical + t)
    <3>1. row \in 0..(row * s.stripe + offset + t)
      BY <2>1, <2>2, <2>3, <2>4
    <3>2. offset + t \in 0..s.stripe - 1
      BY <2>1, <2>2
    <3>3. row * s.stripe + offset + t = row * s.stripe + (offset + t)
      BY <2>2, <2>4
    <3>4. logical + t = (row * s.n + part) * s.stripe + (offset + t)
      <4>1. stripe * s.stripe \in Nat
        BY <2>1, <2>2, ProductType
      <4>2. logical + t = stripe * s.stripe + (offset + t)
        BY <2>2, <4>1
      <4> QED
        BY <2>3, <4>2
    <3> QED
      BY <1>2, <3>1, <3>2, <3>3, <3>4 DEF Stands
  <2>7. row * s.stripe + offset \in Nat /\ s.stripe - offset \in Nat \ {0}
    BY <2>1, <2>2, <2>4
  <2> QED
    BY <2>3, <2>5, <2>6, <2>7
<1> QED
  BY <1>1, <1>2

-----------------------------------------------------------------------------
(* The inductive invariant.  A read stays inside the store and inside what *)
(* is left of the client's buffer.                                         *)
Fits ==
  /\ 0..count - 1 \subseteq DOMAIN dst
  /\ done + produced + want > 0 => done + produced + want =< count

Inside ==
  pc \in {"locate", "loop"} =>
    /\ pos + done \in Nat /\ pos + done + produced + want =< Capacity(store)
    /\ store.kind = "striped" => store.stripe > 0
    /\ store.kind \in {"memory", "sub"} => produced = 0

Resting ==
  /\ pc \in {"idle", "enter", "done"} => want = 0 /\ produced = 0 /\ lo = 0 /\ hi = 0
  /\ pc = "idle" => done = 0

Inv == TypeOK /\ Fits /\ Inside /\ Resting /\ NeverMisplaced

(* How many bytes a part may answer: none, or some it holds.               *)
LEMMA AnswersType ==
  ASSUME NEW s \in Stores, NEW i \in 0..s.n - 1, NEW a \in Int, NEW n \in Nat,
         NEW k \in Answers(s.parts[i], a, n)
  PROVE  /\ k \in Nat /\ k =< n
         /\ \A t \in 0..k - 1 : a + t \in 0..s.parts[i].held - 1
<1>1. s.parts[i].held \in Nat
  BY StoreFields
<1> QED
  BY <1>1 DEF Answers, Least

(* Bytes copied behind right ones, from where they stand, are right.       *)
LEMMA CopyIsRight ==
  ASSUME TypeOK, Fits, NeverMisplaced, UNCHANGED <<store, pos, count, done>>,
         NEW i \in 0..store.n - 1, NEW a \in Int, NEW k \in Nat, k =< want,
         Copy(store.parts[i], a, k),
         \A t \in 0..k - 1 :
           /\ a + t \in 0..store.parts[i].held - 1
           /\ Stands(store, i, a + t, pos + done + produced + t)
  PROVE  /\ DOMAIN dst' = DOMAIN dst /\ dst' \in [DOMAIN dst -> Byte]
         /\ produced' \in Nat /\ want' \in Nat /\ produced' + want' = produced + want
         /\ Fits' /\ NeverMisplaced'
<1> DEFINE p == store.parts[i]
           from == done + produced
           Copied(x) == IF x \in from..from + k - 1 THEN p.data[a + (x - from)] ELSE dst[x]
<1>1. /\ dst' = [x \in DOMAIN dst |-> Copied(x)]
      /\ produced' = produced + k /\ want' = want - k
  BY DEF Copy
<1>2. /\ done \in Nat /\ produced \in Nat /\ want \in Nat /\ from \in Nat /\ pos \in Int
      /\ count \in Int /\ store \in Stores
      /\ DOMAIN dst \subseteq Nat /\ dst \in [DOMAIN dst -> Byte]
  BY DEF TypeOK
<1>3. ASSUME NEW x \in from..from + k - 1
      PROVE  /\ x \in DOMAIN dst /\ Copied(x) \in Byte
             /\ IsByte(store, pos + x, Copied(x))
  <2> DEFINE t == x - from
  <2>1. t \in 0..k - 1 /\ pos + done + produced + t = pos + x /\ x \in Nat
    BY <1>2
  <2>2. a + t \in 0..p.held - 1 /\ Stands(store, i, a + t, pos + x)
    BY <2>1
  <2>3. p.data[a + t] \in Byte
    BY <1>2, <2>2, StoreFields
  <2>4. IsByte(store, pos + x, p.data[a + t])
    BY <2>2 DEF IsByte
  <2>5. x \in DOMAIN dst
    BY <1>2, <2>1 DEF Fits
  <2> QED
    BY <2>3, <2>4, <2>5
<1>4. DOMAIN dst' = DOMAIN dst /\ dst' \in [DOMAIN dst -> Byte]
  BY <1>1, <1>2, <1>3
<1>5. produced' \in Nat /\ want' \in Nat /\ produced' + want' = produced + want
  BY <1>1, <1>2
<1>6. Fits'
  BY <1>2, <1>4, <1>5 DEF Fits
<1>7. NeverMisplaced'
  <2> SUFFICES ASSUME NEW x \in 0..done + produced' - 1
               PROVE  x \in DOMAIN dst' /\ IsByte(store, pos + x, dst'[x])
    BY DEF NeverMisplaced
  <2>1. CASE x \in from..from + k - 1
    BY <1>1, <1>3, <2>1
  <2>2. CASE x \notin from..from + k - 1
    <3>1. x \in 0..done + produced - 1
      BY <1>1, <1>2, <2>2
    <3>2. x \in DOMAIN dst /\ IsByte(store, pos + x, dst[x])
      BY <3>1 DEF NeverMisplaced
    <3> QED
      BY <1>1, <2>2, <3>2
  <2> QED
    BY <2>1, <2>2
<1> QED
  BY <1>4, <1>5, <1>6, <1>7

-----------------------------------------------------------------------------
LEMMA InitInv == Init => Inv
<1> SUFFICES ASSUME Init PROVE Inv
  OBVIOUS
<1>1. store.n \in Nat \ {0}
  BY StoreFields DEF Init
<1>2. TypeOK
  BY <1>1 DEF Init, NothingRead, TypeOK
<1>3. Fits /\ Inside /\ Resting
  BY DEF Init, NothingRead, Fits, Inside, Resting
<1>4. NeverMisplaced
  BY DEF Init, NothingRead, NeverMisplaced
<1> QED
  BY <1>2, <1>3, <1>4 DEF Inv

(* A client's request starts with an empty read and a buffer of its size.  *)
LEMMA AskInv ==
  ASSUME Inv, NEW s \in Stores, NEW p \in Int, NEW n \in Int, NEW size \in Int,
         NEW how \in {"readExactly", "read"}, n =< size, Ask(s, p, n, size, how), pc' \in {"enter", "done"}
  PROVE  Inv'
<1>1. /\ store' = s /\ through' = how /\ pos' = p /\ count' = n /\ done' = 0
      /\ dst' = [x \in 0..size - 1 |-> 0]
      /\ want' = 0 /\ produced' = 0 /\ lo' = 0 /\ hi' = 0
  BY DEF Ask, read, Inv, Resting
<1>2. s.n \in Nat \ {0}
  BY StoreFields
<1>3. TypeOK'
  BY <1>1, <1>2, ByteStoresAssumption DEF TypeOK
<1>4. Fits' /\ Inside' /\ Resting'
  BY <1>1 DEF Fits, Inside, Resting
<1>5. NeverMisplaced'
  BY <1>1 DEF NeverMisplaced
<1> QED
  BY <1>3, <1>4, <1>5 DEF Inv

LEMMA ReadRangeInv ==
  ASSUME Inv, NEW s \in Stores, NEW p \in Positions, NEW c \in Counts, ReadRange(s, p, c)
  PROVE  Inv'
<1> DEFINE n == IF p < 0 \/ p >= Capacity(s) \/ c =< 0 THEN 0 ELSE Least(c, Capacity(s) - p)
<1>1. p \in Int /\ c \in Int /\ Capacity(s) \in Int
  BY StoreFields, ByteStoresAssumption
<1>2. n \in Nat
  BY <1>1 DEF Least
<1>3. AsInt(n) \in Int /\ AsInt(n) =< n
  BY <1>2, AsIntShortens
<1>4. Ask(s, p, AsInt(n), n, "readExactly") /\ pc' \in {"enter", "done"}
  BY DEF ReadRange
<1> HIDE DEF n
<1> QED
  BY <1>1, <1>2, <1>3, <1>4, AskInv

LEMMA ReadOnceInv ==
  ASSUME Inv, NEW s \in Stores, NEW p \in Positions, NEW c \in Counts, ReadOnce(s, p, c)
  PROVE  Inv'
<1>1. p \in Int /\ c \in Int
  BY ByteStoresAssumption
<1>2. Ask(s, p, c, c, "read") /\ pc' \in {"enter", "done"}
  BY DEF ReadOnce
<1> QED
  BY <1>1, <1>2, AskInv

LEMMA EnterInv == Inv /\ Enter => Inv'
<1> SUFFICES ASSUME Inv, Enter PROVE Inv'
  OBVIOUS
<1> DEFINE at == pos + done
           left == count - done
           nothing == \/ at < 0 \/ left =< 0 \/ at >= Capacity(store)
                      \/ store.kind = "striped" /\ store.stripe = 0
<1>1. /\ store \in Stores /\ pos \in Int /\ count \in Int /\ done \in Nat
      /\ produced = 0 /\ want = 0
  BY DEF Inv, TypeOK, Resting, Enter
<1>2. /\ Capacity(store) \in Int /\ store.n \in Nat \ {0} /\ store.stripe \in Nat
  BY <1>1, StoreFields
<1>3. /\ pc' \in {"back", "locate", "loop"} /\ (pc' # "back" => ~nothing)
      /\ want' = IF nothing THEN 0 ELSE Least(left, Capacity(store) - at)
      /\ produced' = 0 /\ lo' = 0 /\ hi' = store.n
      /\ UNCHANGED <<store, through, pos, count, dst, done>>
  BY DEF Enter, call
<1>4. want' \in Nat /\ (want' > 0 => done + want' =< count)
      /\ (~nothing => at + want' =< Capacity(store))
  BY <1>1, <1>2, <1>3 DEF Least
<1>5. TypeOK'
  BY <1>2, <1>3, <1>4 DEF Inv, TypeOK
<1>6. Fits'
  BY <1>1, <1>3, <1>4 DEF Inv, Fits
<1>7. Inside'
  BY <1>1, <1>2, <1>3, <1>4 DEF Inside
<1>8. Resting'
  BY <1>3 DEF Resting
<1>9. NeverMisplaced'
  BY <1>1, <1>3 DEF Inv, NeverMisplaced
<1> QED
  BY <1>5, <1>6, <1>7, <1>8, <1>9 DEF Inv

LEMMA LocateInv == Inv /\ Locate => Inv'
<1> SUFFICES ASSUME Inv, Locate PROVE Inv'
  OBVIOUS
<1>1. /\ pc = "locate" /\ pc' \in {"locate", "loop"} /\ store \in Stores
      /\ UNCHANGED <<store, through, pos, count, dst, done, want, produced>>
  BY DEF Locate, call, Inv, TypeOK
<1>2. store.n \in Nat \ {0}
  BY <1>1, StoreFields
<1>3. lo' \in 0..store.n /\ hi' \in 0..store.n
  BY <1>2 DEF Locate, Inv, TypeOK
<1>4. TypeOK' /\ Fits' /\ NeverMisplaced' /\ Resting'
  BY <1>1, <1>3 DEF Inv, TypeOK, Fits, NeverMisplaced, Resting
<1>5. Inside'
  BY <1>1 DEF Inv, Inside
<1> QED
  BY <1>4, <1>5 DEF Inv

(* What CopyIsRight gives an action of the loop that leaves the rest alone. *)
LEMMA CopyInv ==
  ASSUME Inv, pc = "loop", pc' \in {"loop", "back"}, UNCHANGED <<call, done, hi>>,
         lo' \in 0..store.n,
         NEW i \in 0..store.n - 1, NEW a \in Int, NEW k \in Nat, k =< want,
         Copy(store.parts[i], a, k),
         \A t \in 0..k - 1 :
           /\ a + t \in 0..store.parts[i].held - 1
           /\ Stands(store, i, a + t, pos + done + produced + t),
         pc' = "loop" => store.kind \notin {"memory", "sub"}
  PROVE  Inv'
<1>1. /\ UNCHANGED <<store, through, pos, count, done, hi>>
      /\ TypeOK /\ Fits /\ NeverMisplaced
  BY DEF call, Inv
<1>2. /\ DOMAIN dst' = DOMAIN dst /\ dst' \in [DOMAIN dst -> Byte]
      /\ produced' \in Nat /\ want' \in Nat /\ produced' + want' = produced + want
      /\ Fits' /\ NeverMisplaced'
  BY <1>1, CopyIsRight
<1>3. TypeOK'
  BY <1>1, <1>2 DEF TypeOK
<1>4. Inside'
  <2>1. store \in Stores /\ pos \in Int /\ done \in Nat /\ produced \in Nat /\ want \in Nat
    BY <1>1 DEF TypeOK
  <2>2. Capacity(store) \in Int
    BY <2>1, StoreFields
  <2>3. /\ pos + done \in Nat /\ pos + done + produced + want =< Capacity(store)
        /\ store.kind = "striped" => store.stripe > 0
    BY DEF Inv, Inside
  <2>4. pos' + done' + produced' + want' =< Capacity(store')
    <3>1. store' = store /\ pos' = pos /\ done' = done
      BY <1>1
    <3>2. Capacity(store') = Capacity(store)
      BY <3>1 DEF Capacity
    <3>3. produced' \in Nat /\ want' \in Nat /\ produced' + want' = produced + want
      BY <1>2
    <3>4. pos + done + produced' + want' = pos + done + produced + want
      <4>1. pos + done \in Int /\ produced' \in Int /\ want' \in Int
            /\ produced \in Int /\ want \in Int
        BY <2>1, <3>3
      <4> QED
        BY <3>3, <4>1, EqualRests
    <3> QED
      BY <2>3, <3>1, <3>2, <3>4
  <2>5. pos' + done' \in Nat /\ (store'.kind = "striped" => store'.stripe > 0)
    BY <1>1, <2>3
  <2>6. pc' \in {"locate", "loop"} => store'.kind \notin {"memory", "sub"}
    BY <1>1
  <2> QED
    BY <2>4, <2>5, <2>6 DEF Inside
<1>5. Resting'
  BY DEF Resting
<1> QED
  BY <1>2, <1>3, <1>4, <1>5 DEF Inv

LEMMA FromMemoryInv == Inv /\ FromMemory => Inv'
<1> SUFFICES ASSUME Inv, FromMemory PROVE Inv'
  OBVIOUS
<1>1. /\ pc = "loop" /\ pc' = "back" /\ store.kind = "memory"
      /\ Copy(store.parts[0], pos + done, want) /\ UNCHANGED <<call, done, hi>> /\ lo' = lo
  BY DEF FromMemory
<1>2. /\ store \in Stores /\ pos \in Int /\ done \in Nat /\ want \in Nat
      /\ lo \in 0..store.n
      /\ pos + done \in Nat /\ pos + done + produced + want =< Capacity(store) /\ produced = 0
  BY <1>1 DEF Inv, TypeOK, Inside
<1>3. /\ store.n = 1 /\ store.parts[0].held = Capacity(store) /\ Capacity(store) \in Int
  BY <1>1, <1>2, StoreFields DEF Capacity
<1>4. ASSUME NEW t \in 0..want - 1
      PROVE  /\ pos + done + t \in 0..store.parts[0].held - 1
             /\ Stands(store, 0, pos + done + t, pos + done + produced + t)
  BY <1>1, <1>2, <1>3 DEF Stands
<1>5. pos + done \in Int /\ 0 \in 0..store.n - 1 /\ want =< want
  BY <1>2, <1>3
<1> QED
  BY <1>1, <1>2, <1>4, <1>5, CopyInv

LEMMA FromWindowInv == Inv /\ FromWindow => Inv'
<1> SUFFICES ASSUME Inv, FromWindow PROVE Inv'
  OBVIOUS
<1> DEFINE a == store.start + pos + done
<1>1. PICK k \in Answers(store.parts[0], a, want) : Copy(store.parts[0], a, k)
  BY DEF FromWindow
<1>2. /\ pc = "loop" /\ pc' = "back" /\ store.kind = "sub"
      /\ UNCHANGED <<call, done, hi>> /\ lo' = lo
  BY DEF FromWindow
<1>3. /\ store \in Stores /\ pos \in Int /\ done \in Nat /\ want \in Nat
      /\ lo \in 0..store.n
      /\ pos + done \in Nat /\ pos + done + produced + want =< Capacity(store) /\ produced = 0
  BY <1>2 DEF Inv, TypeOK, Inside
<1>4. /\ store.n = 1 /\ store.start \in Nat /\ store.length = Capacity(store)
      /\ Capacity(store) \in Int
  BY <1>2, <1>3, StoreFields DEF Capacity
<1>5. a \in Int /\ 0 \in 0..store.n - 1
  BY <1>3, <1>4
<1>6. /\ k \in Nat /\ k =< want
      /\ \A t \in 0..k - 1 : a + t \in 0..store.parts[0].held - 1
  BY <1>1, <1>3, <1>5, AnswersType
<1>7. ASSUME NEW t \in 0..k - 1
      PROVE  Stands(store, 0, a + t, pos + done + produced + t)
  <2>1. pos + done + produced + t = a + t - store.start
    BY <1>3, <1>4
  <2>2. pos + done + produced + t \in 0..store.length - 1
    BY <1>3, <1>4, <1>6
  <2> HIDE DEF a
  <2> QED
    BY <1>2, <1>3, <1>4, <1>5, <1>6, <2>1, <2>2 DEF Stands
<1> HIDE DEF a
<1> QED
  BY <1>1, <1>2, <1>3, <1>5, <1>6, <1>7, CopyInv

LEMMA FromUnitInv == Inv /\ FromUnit => Inv'
<1> SUFFICES ASSUME Inv, FromUnit PROVE Inv'
  OBVIOUS
<1> DEFINE logical == pos + done + produced
           u == UnitOf(store, logical)
           p == store.parts[u.part]
           n == Least(u.rest, want)
<1>1. PICK k \in Answers(p, u.at, n) : Copy(p, u.at, k) /\ pc' = IF k = 0 THEN "back" ELSE "loop"
  BY DEF FromUnit
<1>2. /\ pc = "loop" /\ store.kind \in {"optical", "striped"}
      /\ UNCHANGED <<call, done, hi>> /\ lo' = lo
  BY DEF FromUnit
<1>3. /\ store \in Stores /\ pos + done \in Nat /\ produced \in Nat /\ want \in Nat
      /\ lo \in 0..store.n /\ (store.kind = "striped" => store.stripe > 0)
  BY <1>2 DEF Inv, TypeOK, Inside
<1>4. logical \in Nat
  BY <1>3
<1>5. /\ u.part \in 0..store.n - 1 /\ u.at \in Nat /\ u.rest \in Nat \ {0}
      /\ \A t \in 0..u.rest - 1 : Stands(store, u.part, u.at + t, logical + t)
  <2> HIDE DEF logical
  <2> QED
    BY <1>2, <1>3, <1>4, UnitIsRight
<1> HIDE DEF u
<1>6. n \in Nat /\ n =< want /\ n =< u.rest
  BY <1>3, <1>5 DEF Least
<1> HIDE DEF n
<1>7. /\ k \in Nat /\ k =< n
      /\ \A t \in 0..k - 1 : u.at + t \in 0..p.held - 1
  BY <1>1, <1>3, <1>5, <1>6, AnswersType
<1>8. \A t \in 0..k - 1 : Stands(store, u.part, u.at + t, logical + t)
  BY <1>5, <1>6, <1>7
<1>9. k =< want /\ pc' \in {"loop", "back"} /\ u.at \in Int
  BY <1>1, <1>3, <1>5, <1>6, <1>7
<1> QED
  BY <1>1, <1>2, <1>3, <1>5, <1>7, <1>8, <1>9, CopyInv

LEMMA FromConcatInv == Inv /\ FromConcat => Inv'
<1> SUFFICES ASSUME Inv, FromConcat PROVE Inv'
  OBVIOUS
<1> DEFINE p == store.parts[lo]
           within == pos + done + produced - store.starts[lo]
<1>1. PICK k \in Answers(p, within, want) :
        /\ Copy(p, within, k)
        /\ lo' = IF k = 0 \/ within + k >= p.capacity THEN lo + 1 ELSE lo
  BY DEF FromConcat
<1>2. /\ pc = "loop" /\ pc' = "loop" /\ store.kind = "concat" /\ lo < store.n
      /\ UNCHANGED <<call, done, hi>>
  BY DEF FromConcat
<1>3. /\ store \in Stores /\ pos \in Int /\ done \in Nat /\ produced \in Nat /\ want \in Nat
      /\ lo \in 0..store.n
  BY DEF Inv, TypeOK
<1>4. store.n \in Nat \ {0} /\ lo \in 0..store.n - 1
  BY <1>2, <1>3, StoreFields
<1>5. store.starts[lo] \in Nat
  BY <1>3, <1>4, StoreFields
<1>6. within \in Int /\ lo' \in 0..store.n
  BY <1>1, <1>3, <1>4, <1>5
<1>7. /\ k \in Nat /\ k =< want
      /\ \A t \in 0..k - 1 : within + t \in 0..p.held - 1
  <2> HIDE DEF within
  <2> QED
    BY <1>1, <1>3, <1>4, <1>6, AnswersType
<1>8. ASSUME NEW t \in 0..k - 1
      PROVE  Stands(store, lo, within + t, pos + done + produced + t)
  <2>1. pos + done + produced + t = store.starts[lo] + (within + t)
    BY <1>3, <1>5, <1>7
  <2> QED
    BY <1>2, <2>1 DEF Stands
<1> HIDE DEF within
<1> QED
  BY <1>1, <1>2, <1>4, <1>6, <1>7, <1>8, CopyInv

LEMMA LoopEndsInv == Inv /\ LoopEnds => Inv'
  BY DEF LoopEnds, call, read, Inv, TypeOK, Fits, Inside, Resting, NeverMisplaced

LEMMA BackInv == Inv /\ Back => Inv'
<1> SUFFICES ASSUME Inv, Back PROVE Inv'
  OBVIOUS
<1>1. /\ UNCHANGED <<store, through, pos, count>> /\ done' = done + produced
      /\ pc' \in {"done", "enter"} /\ want' = 0 /\ produced' = 0 /\ lo' = 0 /\ hi' = 0
      /\ DOMAIN dst' = DOMAIN dst
      /\ \A x \in DOMAIN dst : dst'[x] = dst[x] \/ (dst'[x] = 0 /\ x >= done /\ produced = 0)
      /\ dst' = [x \in DOMAIN dst |-> dst'[x]]
  BY DEF Back, call, Inv, TypeOK
<1>2. /\ store \in Stores /\ pos \in Int /\ count \in Int
      /\ done \in Nat /\ produced \in Nat /\ want \in Nat
      /\ DOMAIN dst \subseteq Nat /\ dst \in [DOMAIN dst -> Byte]
  BY DEF Inv, TypeOK
<1>3. store.n \in Nat \ {0}
  BY <1>2, StoreFields
<1>4. TypeOK'
  <2>1. dst' \in [DOMAIN dst' -> Byte]
    BY <1>1, <1>2, ByteStoresAssumption
  <2> QED
    BY <1>1, <1>2, <1>3, <2>1 DEF Inv, TypeOK
<1>5. Fits' /\ Inside' /\ Resting'
  BY <1>1, <1>2 DEF Inv, Fits, Inside, Resting
<1>6. NeverMisplaced'
  <2> SUFFICES ASSUME NEW x \in 0..done + produced - 1
               PROVE  x \in DOMAIN dst /\ IsByte(store, pos + x, dst'[x])
    BY <1>1, <1>2 DEF NeverMisplaced
  <2>1. x \in DOMAIN dst /\ IsByte(store, pos + x, dst[x])
    BY DEF Inv, NeverMisplaced
  <2>2. dst'[x] = dst[x]
    BY <1>1, <1>2, <2>1
  <2> QED
    BY <2>1, <2>2
<1> QED
  BY <1>4, <1>5, <1>6 DEF Inv

LEMMA ReturnInv == Inv /\ Return => Inv'
<1> SUFFICES ASSUME Inv, Return PROVE Inv'
  OBVIOUS
<1>1. /\ store' = store /\ through' = "read" /\ pos' = 0 /\ count' = 0 /\ done' = 0
      /\ dst' = [x \in {} |-> 0] /\ pc' = "idle"
      /\ want' = 0 /\ produced' = 0 /\ lo' = 0 /\ hi' = 0
  BY DEF Return, read, Inv, Resting
<1>2. TypeOK'
  <2>1. store \in Stores
    BY DEF Inv, TypeOK
  <2>2. store.n \in Nat
    BY <2>1, StoreFields
  <2> QED
    BY <1>1, <2>1, <2>2 DEF TypeOK
<1>3. Fits' /\ Inside' /\ Resting' /\ NeverMisplaced'
  BY <1>1 DEF Fits, Inside, Resting, NeverMisplaced
<1> QED
  BY <1>2, <1>3 DEF Inv

(* Every reachable state satisfies the inductive invariant.                *)
THEOREM Safety == Spec => []Inv
<1>1. Inv /\ [Next]_vars => Inv'
  <2> SUFFICES ASSUME Inv, [Next]_vars PROVE Inv'
    OBVIOUS
  <2>1. CASE \E s \in Stores, p \in Positions, c \in Counts : ReadRange(s, p, c) \/ ReadOnce(s, p, c)
    BY <2>1, ReadRangeInv, ReadOnceInv
  <2>2. CASE Step
    BY <2>2, EnterInv, LocateInv, FromMemoryInv, FromWindowInv, FromUnitInv, FromConcatInv,
       LoopEndsInv, BackInv DEF Step
  <2>3. CASE Return
    BY <2>3, ReturnInv
  <2>4. CASE UNCHANGED vars
    BY <2>4 DEF vars, call, read, Inv, TypeOK, Fits, Inside, Resting, NeverMisplaced
  <2> QED
    BY <2>1, <2>2, <2>3, <2>4 DEF Next
<1> QED
  BY InitInv, <1>1, PTL DEF Spec

(* The state is of its type: the loops' counters stay where the code's     *)
(* unsigned and signed integers agree.                                     *)
THEOREM TypeCorrect == Spec => []TypeOK
  BY Safety, PTL DEF Inv

(* read and readExactly never write past the buffer they were given, for   *)
(* any composition of stores and any short answers (DiscStore.h).          *)
THEOREM NoOverrun == Spec => []NeverOverruns
<1>1. Inv => NeverOverruns
  BY DEF Inv, TypeOK, Fits, NeverOverruns
<1> QED
  BY <1>1, Safety, PTL

(* A byte a read reports is the byte that stands at the position asked,    *)
(* whatever the composition, damaged or not.                               *)
THEOREM BytesAreRight == Spec => []NeverMisplaced
  BY Safety, PTL DEF Inv

-----------------------------------------------------------------------------
(* A smaller factor leaves room for one more of the other.                 *)
LEMMA ProductLess ==
  ASSUME NEW q \in Nat, NEW r \in Nat, NEW d \in Nat, q < r
  PROVE  q * d \in Nat /\ r * d \in Nat /\ q * d + d =< r * d
<1> DEFINE e == r - q - 1
<1>1. e \in Nat /\ r = q + 1 + e
  OBVIOUS
<1> HIDE DEF e
<1>2. q * d \in Nat /\ e * d \in Nat /\ r * d \in Nat
  BY <1>1, ProductType
<1>3. (q + 1 + e) * d = q * d + d + e * d
  BY <1>1, <1>2
<1> QED
  BY <1>1, <1>2, <1>3

(* A quotient is below a bound when the number is below the bound's multiple. *)
LEMMA QuotientBelow ==
  ASSUME NEW a \in Nat, NEW d \in Nat \ {0}, NEW b \in Nat, a < b * d
  PROVE  a \div d \in Nat /\ a \div d < b
<1> DEFINE q == a \div d
<1>1. q \in Nat /\ q * d =< a
  OBVIOUS
<1> HIDE DEF q
<1>2. ASSUME b =< q PROVE FALSE
  <2>1. CASE b = q
    BY <1>1, <2>1
  <2>2. CASE b < q
    BY <1>1, <2>2, ProductLess
  <2> QED
    BY <1>1, <1>2, <2>1, <2>2
<1>3. q < b
  BY <1>1, <1>2
<1> QED
  BY <1>1, <1>3 DEF q

(* Every nonempty set of naturals has a least member.                      *)
LEMMA LeastMember ==
  ASSUME NEW S, S \subseteq Nat, S # {}
  PROVE  \E m \in S : \A x \in S : m =< x
<1>1. PICK m \in S : \A x \in S : ~ (<<x, m>> \in OpToRel(<, Nat))
  BY WFMin, NatLessThanWellFounded
<1>2. ASSUME NEW x \in S, x < m PROVE <<x, m>> \in OpToRel(<, Nat)
  <2>1. x \in Nat /\ m \in Nat /\ x < m
    BY <1>2
  <2> QED
    BY <2>1 DEF OpToRel
<1>3. \A x \in S : ~ (x < m)
  BY <1>1, <1>2
<1>4. \A x \in S : x \in Nat /\ m \in Nat
  OBVIOUS
<1> QED
  BY <1>3, <1>4

(* Parts of one size start at its multiples.                               *)
LEMMA EvenStarts ==
  ASSUME NEW s \in Stores, NEW c \in Nat, \A k \in 0..s.n - 1 : s.parts[k].capacity = c
  PROVE  s.total = s.n * c
<1> DEFINE wrong == {k \in 0..s.n - 1 : s.starts[k] # k * c}
<1>1. /\ s.n \in Nat \ {0} /\ s.starts[0] = 0
      /\ \A k \in 0..s.n - 2 : s.starts[k + 1] = s.starts[k] + s.parts[k].capacity
      /\ s.total = s.starts[s.n - 1] + s.parts[s.n - 1].capacity
  BY ByteStoresAssumption DEF Store, Layout
<1>2. ASSUME wrong # {} PROVE FALSE
  <2>1. PICK m \in wrong : \A x \in wrong : m =< x
    <3>1. wrong \subseteq Nat
      BY <1>1
    <3> HIDE DEF wrong
    <3> QED
      BY <1>2, <3>1, LeastMember
  <2>2. m \in 0..s.n - 1 /\ s.starts[m] # m * c
    BY <2>1
  <2>3. m # 0
    BY <1>1, <2>2
  <2>4. m - 1 \in 0..s.n - 2 /\ m - 1 \notin wrong
    BY <1>1, <2>1, <2>2, <2>3
  <2>5. s.starts[m - 1] = (m - 1) * c
    BY <1>1, <2>4
  <2>6. s.starts[(m - 1) + 1] = s.starts[m - 1] + c
    BY <1>1, <2>4
  <2>7. s.starts[m] = (m - 1) * c + c
    <3>1. (m - 1) + 1 = m
      BY <2>2
    <3> QED
      BY <2>5, <2>6, <3>1
  <2>8. (m - 1) * c + c = m * c
    BY <2>2
  <2> QED
    BY <2>2, <2>7, <2>8
<1>3. s.n - 1 \in 0..s.n - 1 /\ s.n - 1 \notin wrong
  BY <1>1, <1>2
<1>4. s.starts[s.n - 1] = (s.n - 1) * c
  BY <1>3
<1>5. (s.n - 1) * c + c = s.n * c
  BY <1>1
<1> QED
  BY <1>1, <1>3, <1>4, <1>5

-----------------------------------------------------------------------------
(* The part of an intact store that is asked for a byte holds it.          *)
LEMMA UnitIsHeld ==
  ASSUME NEW s \in Stores, Intact(s), s.kind \in {"optical", "striped"},
         NEW i \in 0..Capacity(s) - 1
  PROVE  LET u == UnitOf(s, i) IN u.at < s.parts[u.part].held
<1>1. /\ s.n \in Nat \ {0} /\ s.stripe \in Nat
      /\ \A k \in 0..s.n - 1 : s.parts[k].capacity \in Nat /\ s.parts[k].held = s.parts[k].capacity
      /\ Capacity(s) \in Int
  BY StoreFields DEF Intact
<1>2. i \in Nat /\ i < Capacity(s)
  BY <1>1
<1>3. CASE s.kind = "optical"
  <2> DEFINE cap == s.parts[0].capacity
             sectors == cap \div RawSector
             sector == i \div UserSector
             offset == i - sector * UserSector
  <2>1. UserSector \in Nat \ {0} /\ RawSector \in Nat \ {0}
        /\ s.prefix \in Nat /\ s.prefix =< RawSector - UserSector
    <3>1. UserSector \in Nat \ {0} /\ RawSector \in Nat \ {0} /\ Store(s)
      BY ByteStoresAssumption
    <3> QED
      BY <1>3, <3>1 DEF Store
  <2>2. cap \in Nat /\ Capacity(s) = sectors * UserSector
    BY <1>1, <1>3 DEF Capacity
  <2>3. sectors \in Nat /\ sectors * RawSector =< cap
    <3> HIDE DEF cap
    <3> QED
      BY <2>1, <2>2
  <2> HIDE DEF cap, sectors
  <2>4. sector \in Nat /\ sector < sectors
    BY <1>2, <2>1, <2>2, <2>3, QuotientBelow
  <2>5. offset \in 0..UserSector - 1
    BY <1>2, <2>1
  <2>6. UnitOf(s, i).at = sector * RawSector + s.prefix + offset /\ UnitOf(s, i).part = 0
    BY <1>3 DEF UnitOf
  <2> HIDE DEF sector, offset
  <2>7. sector * RawSector \in Nat /\ sector * RawSector + RawSector =< sectors * RawSector
        /\ sectors * RawSector \in Nat
    BY <2>1, <2>3, <2>4, ProductLess
  <2>8. sector * RawSector + s.prefix + offset < cap
    BY <2>1, <2>2, <2>3, <2>5, <2>7
  <2>9. s.parts[0].held = cap
    BY <1>1 DEF cap
  <2> QED
    BY <2>6, <2>8, <2>9
<1>4. CASE s.kind = "striped"
  <2>1. PICK rows \in 0..s.total :
          s.stripe > 0 /\ \A k \in 0..s.n - 1 : s.parts[k].capacity = rows * s.stripe
    BY <1>4 DEF Intact
  <2> DEFINE stripe == i \div s.stripe
             offset == i - stripe * s.stripe
             row == stripe \div s.n
  <2>2. rows \in Nat /\ s.stripe \in Nat \ {0}
    BY <1>1, <2>1, ByteStoresAssumption DEF Store
  <2>3. rows * s.stripe \in Nat /\ rows * s.n \in Nat
    BY <1>1, <2>2, ProductType
  <2>4. s.total = s.n * (rows * s.stripe)
    BY <2>1, <2>3, EvenStarts
  <2>5. Capacity(s) = (rows * s.n) * s.stripe
    <3>1. s.n * (rows * s.stripe) = (rows * s.n) * s.stripe
      BY <1>1, <2>2
    <3>2. Capacity(s) = s.total
      BY <1>4 DEF Capacity
    <3> QED
      BY <2>4, <3>1, <3>2
  <2>6. stripe \in Nat /\ stripe < rows * s.n
    BY <1>2, <2>2, <2>3, <2>5, QuotientBelow
  <2>7. row \in Nat /\ row < rows
    <3> HIDE DEF stripe
    <3> QED
      BY <1>1, <2>2, <2>6, QuotientBelow
  <2>8. offset \in 0..s.stripe - 1
    <3> DEFINE d == s.stripe
    <3>1. d \in Nat \ {0}
      BY <2>2
    <3> HIDE DEF d
    <3>2. i - (i \div d) * d \in 0..d - 1
      BY <1>2, <3>1
    <3> QED
      BY <3>2 DEF d
  <2>9. UnitOf(s, i).at = row * s.stripe + offset /\ UnitOf(s, i).part = stripe % s.n
    BY <1>4 DEF UnitOf
  <2>10. UnitOf(s, i).part \in 0..s.n - 1
    <3> HIDE DEF stripe
    <3> QED
      BY <1>1, <2>6, <2>9
  <2> HIDE DEF stripe, offset, row
  <2>11. row * s.stripe \in Nat /\ row * s.stripe + s.stripe =< rows * s.stripe
    BY <2>2, <2>7, ProductLess
  <2>12. row * s.stripe + offset < rows * s.stripe
    BY <2>2, <2>3, <2>8, <2>11
  <2> QED
    BY <1>1, <2>1, <2>9, <2>10, <2>12
<1> QED
  BY <1>3, <1>4

-----------------------------------------------------------------------------
(* The loop of a read of a byte an intact store holds is where that byte   *)
(* is: the search has it between its ends, and the part it ends on has it. *)
Searching ==
  pc = "locate" =>
    /\ lo < hi /\ store.starts[lo] =< pos + done
    /\ hi < store.n => pos + done < store.starts[hi]

Asking ==
  pc \in {"locate", "loop"} /\ produced = 0 /\ Intact(store) => want > 0

Found ==
  pc = "loop" /\ produced = 0 /\ store.kind = "concat" /\ Intact(store) =>
    /\ lo < store.n /\ store.starts[lo] =< pos + done
    /\ pos + done < store.starts[lo] + store.parts[lo].capacity

AnswerInv == Inv /\ Searching /\ Asking /\ Found /\ AnswersWhenItHolds

(* What a part that holds the byte asked for answers.                      *)
LEMMA HeldAnswers ==
  ASSUME NEW s \in Stores, NEW i \in 0..s.n - 1, NEW a \in Nat, a < s.parts[i].held,
         NEW n \in Nat \ {0}, NEW k \in Answers(s.parts[i], a, n)
  PROVE  k > 0
<1>1. s.parts[i].held \in Nat
  BY StoreFields
<1> QED
  BY <1>1 DEF Answers, Least

LEMMA LayoutOf ==
  ASSUME NEW s \in Stores
  PROVE  /\ s.n \in Nat \ {0} /\ s.starts[0] = 0 /\ s.total \in Nat
         /\ \A k \in 0..s.n - 1 : s.starts[k] \in Nat /\ s.parts[k].capacity \in Nat
         /\ \A k \in 0..s.n - 2 : s.starts[k + 1] = s.starts[k] + s.parts[k].capacity
         /\ s.total = s.starts[s.n - 1] + s.parts[s.n - 1].capacity
         /\ s.kind = "concat" => Capacity(s) = s.total
<1>1. Store(s)
  BY ByteStoresAssumption
<1>2. s.kind = "concat" => Capacity(s) = s.total
  BY DEF Capacity
<1> QED
  BY <1>1, <1>2, StoreFields DEF Store, Layout

LEMMA EnterAnswers == AnswerInv /\ Enter => AnswerInv'
<1> SUFFICES ASSUME AnswerInv, Enter PROVE AnswerInv'
  OBVIOUS
<1> DEFINE at == pos + done
           left == count - done
           nothing == \/ at < 0 \/ left =< 0 \/ at >= Capacity(store)
                      \/ store.kind = "striped" /\ store.stripe = 0
<1>1. Inv'
  BY EnterInv DEF AnswerInv
<1>2. /\ store \in Stores /\ pos \in Int /\ count \in Int /\ done \in Nat
  BY DEF AnswerInv, Inv, TypeOK
<1>3. /\ Capacity(store) \in Int /\ store.n \in Nat \ {0} /\ store.stripe \in Nat
      /\ store.starts[0] = 0
  BY <1>2, StoreFields, LayoutOf
<1>4. /\ pc' = IF nothing THEN "back" ELSE IF store.kind = "concat" THEN "locate" ELSE "loop"
      /\ want' = IF nothing THEN 0 ELSE Least(left, Capacity(store) - at)
      /\ produced' = 0 /\ lo' = 0 /\ hi' = store.n
      /\ UNCHANGED <<store, through, pos, count, dst, done>>
  BY DEF Enter, call
<1>5. ~nothing => want' > 0
  BY <1>2, <1>3, <1>4 DEF Least
<1>6. Searching' /\ Asking' /\ Found'
  BY <1>2, <1>3, <1>4, <1>5 DEF Searching, Asking, Found
<1>7. AnswersWhenItHolds'
  <2> SUFFICES ASSUME nothing, Intact(store), at \in 0..Capacity(store) - 1, count > done PROVE FALSE
    BY <1>4 DEF AnswersWhenItHolds
  <2> QED
    BY <1>2, <1>3 DEF Intact
<1> QED
  BY <1>1, <1>6, <1>7 DEF AnswerInv

LEMMA LocateAnswers == AnswerInv /\ Locate => AnswerInv'
<1> SUFFICES ASSUME AnswerInv, Locate PROVE AnswerInv'
  OBVIOUS
<1> DEFINE mid == (lo + hi) \div 2
           at == pos + done
<1>1. Inv' /\ pc = "locate"
  BY LocateInv DEF AnswerInv, Locate
<1>2. /\ store \in Stores /\ store.n \in Nat \ {0} /\ lo \in 0..store.n /\ hi \in 0..store.n
      /\ at \in Nat /\ produced \in Nat /\ want \in Nat
      /\ at + produced + want =< Capacity(store) /\ Capacity(store) \in Int
      /\ lo < hi /\ store.starts[lo] =< at /\ (hi < store.n => at < store.starts[hi])
  BY <1>1, StoreFields DEF AnswerInv, Inv, TypeOK, Inside, Searching
<1>3. UNCHANGED <<store, through, pos, count, dst, done, want, produced>>
  BY DEF Locate, call
<1>4. Asking'
  BY <1>1, <1>3 DEF Asking, AnswerInv
<1>5. CASE lo + 1 < hi
  <2>1. /\ pc' = "locate" /\ mid \in lo + 1..hi - 1 /\ mid \in 0..store.n - 1
        /\ IF store.starts[mid] =< at THEN lo' = mid /\ hi' = hi ELSE hi' = mid /\ lo' = lo
    BY <1>1, <1>2, <1>5 DEF Locate
  <2>2. store.starts[mid] \in Nat
    BY <1>2, <2>1, LayoutOf
  <2> HIDE DEF mid
  <2>3. Searching'
    BY <1>2, <1>3, <2>1, <2>2 DEF Searching
  <2> QED
    BY <1>1, <1>4, <2>1, <2>3 DEF AnswerInv, Found, AnswersWhenItHolds
<1>6. CASE ~ (lo + 1 < hi)
  <2>1. pc' = "loop" /\ lo' = lo /\ hi = lo + 1
    BY <1>2, <1>6 DEF Locate
  <2>2. lo \in 0..store.n - 1
    BY <1>2, <2>1
  <2>3. ASSUME produced = 0, Intact(store), store.kind = "concat"
        PROVE  at < store.starts[lo] + store.parts[lo].capacity
    <3>1. at < Capacity(store)
      BY <1>1, <1>2, <2>3 DEF AnswerInv, Asking
    <3>2. CASE hi < store.n
      <4>1. lo \in 0..store.n - 2
        BY <1>2, <2>1, <3>2
      <4> QED
        BY <1>2, <2>1, <3>2, <4>1, LayoutOf
    <3>3. CASE hi = store.n
      <4>1. lo = store.n - 1
        BY <1>2, <2>1, <3>3
      <4> QED
        BY <1>2, <2>3, <3>1, <4>1, LayoutOf
    <3>4. hi < store.n \/ hi = store.n
      BY <1>2
    <3> QED
      BY <3>2, <3>3, <3>4
  <2>4. Found'
    BY <1>2, <1>3, <2>1, <2>2, <2>3 DEF Found
  <2> QED
    BY <1>1, <1>4, <2>1, <2>4 DEF AnswerInv, Searching, AnswersWhenItHolds
<1> QED
  BY <1>5, <1>6

(* After a turn that answered, there is nothing left to show.              *)
LEMMA TurnAnswers ==
  ASSUME AnswerInv, Inv', pc = "loop", pc' \in {"loop", "back"}, UNCHANGED <<store, pos, count, done>>,
         NEW k \in Nat, produced' = produced + k,
         produced = 0 /\ Intact(store) => k > 0
  PROVE  AnswerInv'
<1>1. produced \in Nat
  BY DEF AnswerInv, Inv, TypeOK
<1>2. Intact(store) => produced' # 0 /\ produced' > 0
  BY <1>1
<1>3. Searching' /\ Asking' /\ Found' /\ AnswersWhenItHolds'
  BY <1>2 DEF Searching, Asking, Found, AnswersWhenItHolds
<1> QED
  BY <1>3 DEF AnswerInv

LEMMA FromMemoryAnswers == AnswerInv /\ FromMemory => AnswerInv'
<1> SUFFICES ASSUME AnswerInv, FromMemory PROVE AnswerInv'
  OBVIOUS
<1>1. Inv' /\ pc = "loop" /\ pc' = "back" /\ UNCHANGED <<store, pos, count, done>>
      /\ produced' = produced + want
  BY FromMemoryInv DEF AnswerInv, FromMemory, call, Copy
<1>2. want \in Nat /\ (produced = 0 /\ Intact(store) => want > 0)
  BY <1>1 DEF AnswerInv, Inv, TypeOK, Asking
<1> QED
  BY <1>1, <1>2, TurnAnswers

LEMMA FromWindowAnswers == AnswerInv /\ FromWindow => AnswerInv'
<1> SUFFICES ASSUME AnswerInv, FromWindow PROVE AnswerInv'
  OBVIOUS
<1> DEFINE a == store.start + pos + done
<1>1. PICK k \in Answers(store.parts[0], a, want) : Copy(store.parts[0], a, k)
  BY DEF FromWindow
<1>2. Inv' /\ pc = "loop" /\ pc' = "back" /\ UNCHANGED <<store, pos, count, done>>
      /\ produced' = produced + k /\ store.kind = "sub"
  BY <1>1, FromWindowInv DEF AnswerInv, FromWindow, call, Copy
<1>3. /\ store \in Stores /\ pos \in Int /\ done \in Nat /\ want \in Nat /\ produced = 0
      /\ pos + done \in Nat /\ pos + done + produced + want =< Capacity(store)
  BY <1>2 DEF AnswerInv, Inv, TypeOK, Inside
<1>4. /\ store.n = 1 /\ store.start \in Nat /\ Capacity(store) = store.length
      /\ store.length \in Nat /\ store.parts[0].held \in Nat
  BY <1>2, <1>3, StoreFields DEF Capacity
<1>5. a \in Nat /\ 0 \in 0..store.n - 1
  BY <1>3, <1>4
<1>6. k \in Nat
  <2> HIDE DEF a
  <2> QED
    BY <1>1, <1>3, <1>5, AnswersType
<1>7. ASSUME Intact(store) PROVE k > 0
  <2>1. want > 0 /\ store.start + store.length =< store.parts[0].held
    BY <1>2, <1>3, <1>7 DEF AnswerInv, Asking, Intact
  <2>2. a < store.parts[0].held
    BY <1>3, <1>4, <2>1
  <2> HIDE DEF a
  <2> QED
    BY <1>1, <1>3, <1>5, <2>1, <2>2, HeldAnswers
<1> QED
  BY <1>2, <1>6, <1>7, TurnAnswers

LEMMA FromUnitAnswers == AnswerInv /\ FromUnit => AnswerInv'
<1> SUFFICES ASSUME AnswerInv, FromUnit PROVE AnswerInv'
  OBVIOUS
<1> DEFINE logical == pos + done + produced
           u == UnitOf(store, logical)
           p == store.parts[u.part]
           n == Least(u.rest, want)
<1>1. PICK k \in Answers(p, u.at, n) : Copy(p, u.at, k) /\ pc' = IF k = 0 THEN "back" ELSE "loop"
  BY DEF FromUnit
<1>2. Inv' /\ pc = "loop" /\ pc' \in {"loop", "back"} /\ UNCHANGED <<store, pos, count, done>>
      /\ produced' = produced + k /\ store.kind \in {"optical", "striped"}
  BY <1>1, FromUnitInv DEF AnswerInv, FromUnit, call, Copy
<1>3. /\ store \in Stores /\ pos + done \in Nat /\ produced \in Nat /\ want \in Nat \ {0}
      /\ (store.kind = "striped" => store.stripe > 0)
      /\ pos + done + produced + want =< Capacity(store) /\ Capacity(store) \in Int
  BY <1>2, StoreFields DEF AnswerInv, Inv, TypeOK, Inside, FromUnit
<1>4. logical \in 0..Capacity(store) - 1 /\ logical \in Nat
  BY <1>3
<1> HIDE DEF logical
<1>5. u.part \in 0..store.n - 1 /\ u.at \in Nat /\ u.rest \in Nat \ {0}
  BY <1>2, <1>3, <1>4, UnitIsRight
<1>6. Intact(store) => u.at < p.held
  BY <1>2, <1>3, <1>4, UnitIsHeld
<1> HIDE DEF u
<1>7. n \in Nat \ {0}
  BY <1>3, <1>5 DEF Least
<1> HIDE DEF n
<1>8. k \in Nat
  <2>1. u.at \in Int /\ n \in Nat
    BY <1>5, <1>7
  <2> QED
    BY <1>1, <1>3, <1>5, <2>1, AnswersType
<1>9. Intact(store) => k > 0
  BY <1>1, <1>3, <1>5, <1>6, <1>7, HeldAnswers
<1> QED
  BY <1>2, <1>8, <1>9, TurnAnswers

LEMMA FromConcatAnswers == AnswerInv /\ FromConcat => AnswerInv'
<1> SUFFICES ASSUME AnswerInv, FromConcat PROVE AnswerInv'
  OBVIOUS
<1> DEFINE p == store.parts[lo]
           within == pos + done + produced - store.starts[lo]
<1>1. PICK k \in Answers(p, within, want) : Copy(p, within, k)
  BY DEF FromConcat
<1>2. Inv' /\ pc = "loop" /\ pc' = "loop" /\ UNCHANGED <<store, pos, count, done>>
      /\ produced' = produced + k /\ store.kind = "concat" /\ lo < store.n
  BY <1>1, FromConcatInv DEF AnswerInv, FromConcat, call, Copy
<1>3. /\ store \in Stores /\ pos + done \in Nat /\ produced \in Nat /\ want \in Nat \ {0}
      /\ lo \in 0..store.n - 1 /\ store.starts[lo] \in Nat
  BY <1>2, StoreFields DEF AnswerInv, Inv, TypeOK, Inside, FromConcat
<1>4. within \in Int
  BY <1>3
<1>5. k \in Nat
  <2> HIDE DEF within
  <2> QED
    BY <1>1, <1>3, <1>4, AnswersType
<1>6. ASSUME produced = 0, Intact(store) PROVE k > 0
  <2>1. /\ store.starts[lo] =< pos + done
        /\ pos + done < store.starts[lo] + store.parts[lo].capacity
    BY <1>2, <1>6 DEF AnswerInv, Found
  <2>2. p.capacity \in Nat /\ p.held = p.capacity
    BY <1>2, <1>3, <1>6, StoreFields DEF Intact
  <2>3. within \in Nat /\ within < p.held
    BY <1>3, <1>6, <2>1, <2>2
  <2> HIDE DEF within
  <2> QED
    BY <1>1, <1>3, <2>3, HeldAnswers
<1> QED
  BY <1>2, <1>5, <1>6, TurnAnswers

LEMMA LoopEndsAnswers == AnswerInv /\ LoopEnds => AnswerInv'
<1> SUFFICES ASSUME AnswerInv, LoopEnds PROVE AnswerInv'
  OBVIOUS
<1>1. /\ Inv' /\ pc = "loop" /\ pc' = "back"
      /\ UNCHANGED <<store, through, pos, count, dst, done, want, produced, lo, hi>>
      /\ want = 0 \/ (store.kind = "concat" /\ lo = store.n)
  BY LoopEndsInv DEF AnswerInv, LoopEnds, call, read
<1>2. produced \in Nat /\ want \in Nat /\ lo \in Int
  BY DEF AnswerInv, Inv, TypeOK
<1>3. Intact(store) => produced # 0
  <2> SUFFICES ASSUME Intact(store), produced = 0 PROVE FALSE
    OBVIOUS
  <2>1. want > 0
    BY <1>1 DEF AnswerInv, Asking
  <2>2. store.kind = "concat" => lo < store.n
    BY <1>1 DEF AnswerInv, Found
  <2> QED
    BY <1>1, <1>2, <2>1, <2>2
<1> QED
  BY <1>1, <1>2, <1>3 DEF AnswerInv, Searching, Asking, Found, AnswersWhenItHolds

(* A step that leaves the loop has nothing to show.                        *)
LEMMA OutsideAnswers ==
  ASSUME Inv', pc' \notin {"locate", "loop", "back"}
  PROVE  AnswerInv'
  BY DEF AnswerInv, Searching, Asking, Found, AnswersWhenItHolds

LEMMA InitAnswers == Init => AnswerInv
  BY InitInv DEF Init, AnswerInv, Searching, Asking, Found, AnswersWhenItHolds

LEMMA NextAnswers == AnswerInv /\ [Next]_vars => AnswerInv'
<1> SUFFICES ASSUME AnswerInv, [Next]_vars PROVE AnswerInv'
  OBVIOUS
<1>1. CASE \E s \in Stores, p \in Positions, c \in Counts : ReadRange(s, p, c) \/ ReadOnce(s, p, c)
  <2>1. Inv'
    BY <1>1, ReadRangeInv, ReadOnceInv DEF AnswerInv
  <2>2. pc' \in {"enter", "done"}
    BY <1>1 DEF ReadRange, ReadOnce
  <2> QED
    BY <2>1, <2>2, OutsideAnswers
<1>2. CASE Step
  <2>1. CASE Back
    <3>1. Inv' /\ pc' \in {"done", "enter"}
      BY <2>1, BackInv DEF AnswerInv, Back
    <3> QED
      BY <3>1, OutsideAnswers
  <2> QED
    BY <1>2, <2>1, EnterAnswers, LocateAnswers, FromMemoryAnswers, FromWindowAnswers,
       FromUnitAnswers, FromConcatAnswers, LoopEndsAnswers DEF Step
<1>3. CASE Return
  <2>1. Inv' /\ pc' = "idle"
    BY <1>3, ReturnInv DEF AnswerInv, Return
  <2> QED
    BY <2>1, OutsideAnswers
<1>4. CASE UNCHANGED vars
  BY <1>4 DEF vars, call, read, AnswerInv, Inv, TypeOK, Fits, Inside, Resting, NeverMisplaced,
     Searching, Asking, Found, AnswersWhenItHolds
<1> QED
  BY <1>1, <1>2, <1>3, <1>4 DEF Next

(* A composition of parts that answer is a part that answers: read of an   *)
(* intact store gives something for every position inside it (DiscStore.h). *)
THEOREM CompositionsAnswer == Spec => []AnswersWhenItHolds
<1>1. AnswerInv => AnswersWhenItHolds
  BY DEF AnswerInv
<1> QED
  BY InitAnswers, NextAnswers, <1>1, PTL DEF Spec

-----------------------------------------------------------------------------
(* A quotient and a rest are told by their number.                         *)
LEMMA DivisionIsUnique ==
  ASSUME NEW q \in Nat, NEW r \in Nat, NEW d \in Nat, NEW x \in 0..d - 1, NEW y \in 0..d - 1,
         q * d + x = r * d + y
  PROVE  q = r /\ x = y
<1>1. q * d \in Nat /\ r * d \in Nat
  BY ProductType
<1>2. ASSUME q < r PROVE FALSE
  BY <1>1, <1>2, ProductLess
<1>3. ASSUME r < q PROVE FALSE
  BY <1>1, <1>3, ProductLess
<1>4. q = r
  BY <1>2, <1>3
<1> QED
  BY <1>1, <1>4

(* A position is one byte of one part.                                     *)
LEMMA StandsOnce ==
  ASSUME NEW s \in Stores, NEW i,
         NEW k \in 0..s.n - 1, NEW a \in 0..s.parts[k].held - 1, Stands(s, k, a, i),
         NEW m \in 0..s.n - 1, NEW b \in 0..s.parts[m].held - 1, Stands(s, m, b, i)
  PROVE  k = m /\ a = b
<1>1. /\ s.kind \in Kinds /\ s.n \in Nat \ {0}
      /\ s.kind \in {"memory", "sub", "optical"} => s.n = 1
      /\ s.start \in Nat /\ s.stripe \in Nat
      /\ \A j \in 0..s.n - 1 :
           /\ s.parts[j].capacity \in Nat /\ s.parts[j].held \in Nat
           /\ s.parts[j].held =< s.parts[j].capacity /\ s.starts[j] \in Nat
  BY StoreFields
<1>2. a \in Nat /\ b \in Nat
  BY <1>1
<1>3. CASE s.kind \in {"memory", "sub"}
  <2>1. k = 0 /\ m = 0
    BY <1>1, <1>3
  <2>2. CASE s.kind = "memory"
    BY <2>1, <2>2 DEF Stands
  <2>3. CASE s.kind = "sub"
    <3>1. i = a - s.start /\ i = b - s.start
      BY <2>3 DEF Stands
    <3> QED
      BY <1>1, <1>2, <2>1, <3>1
  <2> QED
    BY <1>3, <2>2, <2>3
<1>4. CASE s.kind = "concat"
  <2>1. i = s.starts[k] + a /\ i = s.starts[m] + b
    BY <1>4 DEF Stands
  <2>2. \A j, l \in 0..s.n - 1 : j < l => s.starts[j] + s.parts[j].capacity =< s.starts[l]
    BY ByteStoresAssumption DEF Store, Layout
  <2>3. a < s.parts[k].capacity /\ b < s.parts[m].capacity
    BY <1>1
  <2>4. ASSUME k < m PROVE FALSE
    BY <1>1, <1>2, <2>1, <2>2, <2>3, <2>4
  <2>5. ASSUME m < k PROVE FALSE
    BY <1>1, <1>2, <2>1, <2>2, <2>3, <2>5
  <2>6. k = m
    BY <1>1, <2>4, <2>5
  <2> QED
    BY <1>1, <1>2, <2>1, <2>6
<1>5. CASE s.kind = "optical"
  <2>1. k = 0 /\ m = 0
    BY <1>1, <1>5
  <2>2. PICK q \in 0..a, x \in 0..UserSector - 1 :
          a = q * RawSector + s.prefix + x /\ i = q * UserSector + x
    BY <1>5 DEF Stands
  <2>3. PICK r \in 0..b, y \in 0..UserSector - 1 :
          b = r * RawSector + s.prefix + y /\ i = r * UserSector + y
    BY <1>5 DEF Stands
  <2>4. q \in Nat /\ r \in Nat /\ UserSector \in Nat
    BY <1>2, ByteStoresAssumption
  <2>5. q = r /\ x = y
    BY <2>2, <2>3, <2>4, DivisionIsUnique
  <2> QED
    BY <2>1, <2>2, <2>3, <2>5
<1>6. CASE s.kind = "striped"
  <2>1. PICK q \in 0..a, x \in 0..s.stripe - 1 :
          a = q * s.stripe + x /\ i = (q * s.n + k) * s.stripe + x
    BY <1>6 DEF Stands
  <2>2. PICK r \in 0..b, y \in 0..s.stripe - 1 :
          b = r * s.stripe + y /\ i = (r * s.n + m) * s.stripe + y
    BY <1>6 DEF Stands
  <2>3. q \in Nat /\ r \in Nat /\ q * s.n \in Nat /\ r * s.n \in Nat
    BY <1>1, <1>2, ProductType
  <2>4. q * s.n + k \in Nat /\ r * s.n + m \in Nat
    BY <1>1, <2>3
  <2>5. q * s.n + k = r * s.n + m /\ x = y
    <3> DEFINE u == q * s.n + k
               v == r * s.n + m
    <3>1. u \in Nat /\ v \in Nat /\ u * s.stripe + x = v * s.stripe + y
      BY <2>1, <2>2, <2>4
    <3> HIDE DEF u, v
    <3>2. u = v /\ x = y
      BY <1>1, <3>1, DivisionIsUnique
    <3> QED
      BY <3>2 DEF u, v
  <2>6. q = r /\ k = m
    BY <1>1, <2>3, <2>5, DivisionIsUnique
  <2> QED
    BY <2>1, <2>2, <2>5, <2>6
<1> QED
  BY <1>1, <1>3, <1>4, <1>5, <1>6 DEF Kinds

LEMMA ByteIsOne ==
  ASSUME NEW s \in Stores, NEW i, NEW b, NEW c, IsByte(s, i, b), IsByte(s, i, c)
  PROVE  b = c
<1>1. PICK k \in 0..s.n - 1 : \E a \in 0..s.parts[k].held - 1 :
        Stands(s, k, a, i) /\ b = s.parts[k].data[a]
  BY DEF IsByte
<1>2. PICK m \in 0..s.n - 1 : \E a \in 0..s.parts[m].held - 1 :
        Stands(s, m, a, i) /\ c = s.parts[m].data[a]
  BY DEF IsByte
<1>3. PICK x \in 0..s.parts[k].held - 1 : Stands(s, k, x, i) /\ b = s.parts[k].data[x]
  BY <1>1
<1>4. PICK y \in 0..s.parts[m].held - 1 : Stands(s, m, y, i) /\ c = s.parts[m].data[y]
  BY <1>2
<1>5. k = m /\ x = y
  BY <1>3, <1>4, StandsOnce
<1> QED
  BY <1>3, <1>4, <1>5

-----------------------------------------------------------------------------
(* readExactly was asked for the whole of a range an int can count, which  *)
(* lies in the store, and gives up on an intact store only at its end.     *)
Small == \A x \in DOMAIN dst : x < IntMax

Asked ==
  through = "readExactly" /\ pc # "idle" /\ Small =>
    /\ DOMAIN dst = 0..count - 1
    /\ count > 0 => pos \in Nat /\ pos + count =< Capacity(store)

Finished ==
  through = "readExactly" /\ pc = "done" /\ Small /\ Intact(store) => done >= count

RangeInv == AnswerInv /\ Asked /\ Finished

(* A length that an int holds is not changed by the cast.                  *)
LEMMA AsIntKeeps ==
  ASSUME NEW n \in Nat, n =< IntMax
  PROVE  AsInt(n) = n
<1> DEFINE width == 2 * (IntMax + 1)
           shifted == n + IntMax + 1
<1>1. width \in Nat \ {0} /\ shifted \in 0..width - 1 /\ IntMax \in Nat
  BY ByteStoresAssumption
<1> HIDE DEF width, shifted
<1>2. shifted % width = shifted
  BY <1>1
<1> QED
  BY <1>1, <1>2 DEF AsInt, width, shifted

LEMMA ReadRangeAsks ==
  ASSUME RangeInv, NEW s \in Stores, NEW p \in Positions, NEW c \in Counts, ReadRange(s, p, c)
  PROVE  Asked' /\ Finished'
<1> DEFINE n == IF p < 0 \/ p >= Capacity(s) \/ c =< 0 THEN 0 ELSE Least(c, Capacity(s) - p)
<1>1. p \in Int /\ c \in Int /\ Capacity(s) \in Int /\ IntMax \in Nat
  BY StoreFields, ByteStoresAssumption
<1>2. n \in Nat /\ (n > 0 => p \in Nat /\ p + n =< Capacity(s))
  BY <1>1 DEF Least
<1>3. /\ store' = s /\ through' = "readExactly" /\ pos' = p /\ count' = AsInt(n) /\ done' = 0
      /\ dst' = [x \in 0..n - 1 |-> 0]
      /\ pc' = IF AsInt(n) > 0 THEN "enter" ELSE "done"
  BY DEF ReadRange, Ask
<1> HIDE DEF n
<1>4. ASSUME Small' PROVE count' = n
  <2>1. n > 0 => n - 1 \in DOMAIN dst'
    BY <1>2, <1>3
  <2>2. n =< IntMax
    BY <1>1, <1>2, <1>4, <2>1 DEF Small
  <2> QED
    BY <1>2, <1>3, <2>2, AsIntKeeps
<1>5. Asked'
  BY <1>2, <1>3, <1>4 DEF Asked
<1>6. Finished'
  <2> SUFFICES ASSUME Small', pc' = "done" PROVE done' >= count'
    BY DEF Finished
  <2> QED
    BY <1>2, <1>3, <1>4
<1> QED
  BY <1>5, <1>6

(* A step of a read leaves what was asked alone.                           *)
LEMMA StepAsks ==
  ASSUME RangeInv, UNCHANGED call, DOMAIN dst' = DOMAIN dst, pc # "idle", pc' # "done"
  PROVE  Asked' /\ Finished'
<1>1. Small' <=> Small
  BY DEF Small
<1>2. Capacity(store') = Capacity(store)
  BY DEF call
<1> QED
  BY <1>1, <1>2 DEF RangeInv, Asked, Finished, call

LEMMA BackAsks ==
  ASSUME RangeInv, Back
  PROVE  Asked' /\ Finished'
<1>1. /\ UNCHANGED <<store, through, pos, count>> /\ done' = done + produced /\ pc = "back"
      /\ pc' = IF through = "read" \/ produced = 0 \/ done + produced >= count
                 THEN "done" ELSE "enter"
      /\ DOMAIN dst' = DOMAIN dst
  BY DEF Back, call
<1>2. /\ store \in Stores /\ pos \in Int /\ count \in Int /\ done \in Nat /\ produced \in Nat
  BY DEF RangeInv, AnswerInv, Inv, TypeOK
<1>3. Small' <=> Small
  BY <1>1 DEF Small
<1>4. Capacity(store') = Capacity(store) /\ Capacity(store) \in Int
  BY <1>1, <1>2, StoreFields
<1>5. Asked'
  BY <1>1, <1>3, <1>4 DEF RangeInv, Asked
<1>6. Finished'
  <2> SUFFICES ASSUME through = "readExactly", Small, Intact(store), produced = 0, count > done
               PROVE  FALSE
    BY <1>1, <1>2, <1>3 DEF Finished
  <2>1. pos \in Nat /\ pos + count =< Capacity(store)
    BY <1>1, <1>2 DEF RangeInv, Asked
  <2>2. pos + done \in 0..Capacity(store) - 1
    BY <1>2, <1>4, <2>1
  <2> QED
    BY <1>1, <1>2, <2>2 DEF RangeInv, AnswerInv, AnswersWhenItHolds
<1> QED
  BY <1>5, <1>6

LEMMA StepKeepsRange == RangeInv /\ Step => Asked' /\ Finished'
<1> SUFFICES ASSUME RangeInv, Step PROVE Asked' /\ Finished'
  OBVIOUS
<1>1. CASE Back
  BY <1>1, BackAsks
<1>2. CASE Enter
  BY <1>2, StepAsks DEF Enter
<1>3. CASE Locate
  BY <1>3, StepAsks DEF Locate
<1>4. CASE FromMemory
  BY <1>4, StepAsks DEF FromMemory, Copy
<1>5. CASE FromWindow
  BY <1>5, StepAsks DEF FromWindow, Copy
<1>6. CASE FromUnit
  <2>1. UNCHANGED call /\ DOMAIN dst' = DOMAIN dst /\ pc = "loop" /\ pc' \in {"back", "loop"}
    BY <1>6 DEF FromUnit, Copy
  <2> QED
    BY <2>1, StepAsks
<1>7. CASE FromConcat
  <2>1. UNCHANGED call /\ DOMAIN dst' = DOMAIN dst /\ pc = "loop" /\ pc' = "loop"
    BY <1>7 DEF FromConcat, Copy
  <2> QED
    BY <2>1, StepAsks
<1>8. CASE LoopEnds
  BY <1>8, StepAsks DEF LoopEnds
<1> QED
  BY <1>1, <1>2, <1>3, <1>4, <1>5, <1>6, <1>7, <1>8 DEF Step

LEMMA RangeIsHeld == RangeInv => IntactRangeHolds
<1> SUFFICES ASSUME RangeInv, Intact(store), Small, pc = "done", through = "readExactly",
                    NEW x \in DOMAIN dst
             PROVE  /\ \A b \in Byte : IsByte(store, pos + x, b) => dst[x] = b
                    /\ (\A b \in Byte : ~IsByte(store, pos + x, b)) => dst[x] = 0
  BY DEF IntactRangeHolds, RangeHolds, Small
<1>1. store \in Stores /\ dst[x] \in Byte /\ done \in Nat /\ produced \in Nat /\ count \in Int
  BY DEF RangeInv, AnswerInv, Inv, TypeOK
<1>2. x \in 0..count - 1 /\ done >= count
  BY DEF RangeInv, Asked, Finished
<1>3. x \in 0..done + produced - 1
  BY <1>1, <1>2
<1>4. IsByte(store, pos + x, dst[x])
  BY <1>3 DEF RangeInv, AnswerInv, Inv, NeverMisplaced
<1> QED
  BY <1>1, <1>4, ByteIsOne

(* readRange gives the whole range of an intact store, byte for byte, when *)
(* an int can count it (DiscStore.h).                                      *)
THEOREM RangesAreWhole == Spec => []IntactRangeHolds
<1>1. Init => RangeInv
  BY InitAnswers DEF Init, RangeInv, Asked, Finished
<1>2. RangeInv /\ [Next]_vars => RangeInv'
  <2> SUFFICES ASSUME RangeInv, [Next]_vars PROVE Asked' /\ Finished'
    BY NextAnswers DEF RangeInv
  <2>1. CASE \E s \in Stores, p \in Positions, c \in Counts : ReadRange(s, p, c)
    BY <2>1, ReadRangeAsks
  <2>2. CASE \E s \in Stores, p \in Positions, c \in Counts : ReadOnce(s, p, c)
    <3>1. through' = "read"
      BY <2>2 DEF ReadOnce, Ask
    <3> QED
      BY <3>1 DEF Asked, Finished
  <2>3. CASE Step
    BY <2>3, StepKeepsRange
  <2>4. CASE Return
    <3>1. pc' = "idle"
      BY <2>4 DEF Return
    <3> QED
      BY <3>1 DEF Asked, Finished
  <2>5. CASE UNCHANGED vars
    BY <2>5 DEF vars, call, read, RangeInv, Asked, Finished, Small
  <2> QED
    BY <2>1, <2>2, <2>3, <2>4, <2>5 DEF Next
<1> QED
  BY <1>1, <1>2, RangeIsHeld, PTL DEF Spec
=============================================================================
