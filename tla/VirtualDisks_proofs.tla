------------------------- MODULE VirtualDisks_proofs -------------------------
(***************************************************************************)
(* Theorems about reading virtual disks, for any images, any number of     *)
(* readers and requests, and any number of slots above one.                *)
(*                                                                         *)
(* CachesHoldTheImage is not inductive.  A slot that holds no table may    *)
(* stand under an offset it must answer for when its table is sought, and  *)
(* only a QCOW reader ever waits at "unpack", which keeps QcowUnpack from  *)
(* disturbing the grain of a streamOptimized VMDK.  CachesInv says so, and *)
(* AgesInv adds the clock: no slot is older than it, one at most as old.   *)
(*                                                                         *)
(* ReadsTheGuestDisk is not either.  ReadOK adds that a read under way has *)
(* room and bytes left on the disk, and BufferOK that a cluster it waits   *)
(* to unpack holds the bytes it will be asked for; KeptInside, that a VHD  *)
(* keeps no bitmap a second look would find outside the file.  A turn is   *)
(* then sound because the place it looks serves the disk, which            *)
(* DiskImages_proofs shows of each format.                                 *)
(***************************************************************************)
EXTENDS VirtualDisks, DiskImages_proofs, FiniteSetTheorems

(* A reader has a program counter, and waits to unpack a QCOW cluster only.*)
ReadersInv ==
  /\ DOMAIN reader = Readers
  /\ \A r \in Readers : "pc" \in DOMAIN reader[r]
                        /\ (reader[r].pc = "unpack" => disk.kind = "qcow")

SlotsShape ==
  /\ DOMAIN slots = 1..Slots
  /\ \A i \in 1..Slots : DOMAIN slots[i] = {"at", "age", "table"}

(* A slot in use holds the table its offset names, and no other slot does. *)
SlotsInv ==
  /\ \A i \in 1..Slots : IF slots[i].at = 0 THEN slots[i].table = NoBytes
                         ELSE slots[i].table = disk.tables[slots[i].at]
  /\ \A i, j \in 1..Slots : slots[i].table # NoBytes /\ slots[j].at = slots[i].at => i = j

UnitInv ==
  /\ disk.kind = "qcow" /\ unit.key # -1 => unit.bytes = disk.packs[unit.key]
  /\ disk.kind = "stream" /\ unit.key # -1 => unit.bytes = StreamBytes(disk, unit.key)

KeptInv ==
  /\ disk.kind = "vhd" => \A b \in DOMAIN kept : kept[b] = disk.bitmaps[b]
  /\ disk.kind = "dmg" => \A k \in DOMAIN kept : kept[k] = disk.packs[k]
  /\ disk.kind = "descriptor" => \A k \in DOMAIN kept :
       kept[k].key # -1 => kept[k].bytes = StreamBytes(disk.lines[k].image, kept[k].key)

CachesInv == ReadersInv /\ SlotsShape /\ (disk.kind = "qcow" => SlotsInv) /\ UnitInv /\ KeptInv

(* A table in a slot was used at some time, and no two at the same.        *)
AgesInv ==
  /\ l2Age \in Nat
  /\ \A i \in 1..Slots : slots[i].age \in 0..l2Age
  /\ \A i \in 1..Slots : slots[i].table # NoBytes => slots[i].age > 0
  /\ \A i, j \in 1..Slots :
       slots[i].age = l2Age /\ slots[j].age = l2Age /\ l2Age > 0 => i = j

-----------------------------------------------------------------------------
(* Putting bytes in the buffer leaves a reader at its next turn or done.   *)
LEMMA PutZerosPc ==
  ASSUME ReadersInv, NEW r \in Readers, NEW n, PutZeros(r, n), disk' = disk
  PROVE  ReadersInv'
<1>1. DOMAIN reader' = Readers
  BY DEF ReadersInv, PutZeros, Put
<1>2. \A q \in Readers : q # r => reader'[q] = reader[q]
  BY DEF ReadersInv, PutZeros, Put
<1>3. "pc" \in DOMAIN reader'[r] /\ reader'[r].pc \in {"done", "turn"}
  BY DEF ReadersInv, PutZeros, Put
<1> QED
  BY <1>1, <1>2, <1>3 DEF ReadersInv

(* So does putting bytes of an inflated unit.                              *)
LEMMA PutUnitPc ==
  ASSUME ReadersInv, NEW r \in Readers, NEW bytes, NEW at, NEW n, PutUnit(r, bytes, at, n),
         disk' = disk
  PROVE  ReadersInv'
<1>1. DOMAIN reader' = Readers
  BY DEF ReadersInv, PutUnit, Put
<1>2. \A q \in Readers : q # r => reader'[q] = reader[q]
  BY DEF ReadersInv, PutUnit, Put
<1>3. "pc" \in DOMAIN reader'[r] /\ reader'[r].pc \in {"done", "turn"}
  BY DEF ReadersInv, PutUnit, Put
<1> QED
  BY <1>1, <1>2, <1>3 DEF ReadersInv

(* So does a turn that needs no cache.                                     *)
LEMMA FetchPc ==
  ASSUME ReadersInv, NEW r \in Readers, NEW place, Fetch(r, place), disk' = disk
  PROVE  ReadersInv'
<1>1. CASE PutZeros(r, place.n)
  BY <1>1, PutZerosPc
<1>2. CASE Put(r, place.n, LAMBDA i : HostByte(place.base, place.held, place.at + i))
  <2>1. DOMAIN reader' = Readers
    BY <1>2 DEF ReadersInv, Put
  <2>2. \A q \in Readers : q # r => reader'[q] = reader[q]
    BY <1>2 DEF ReadersInv, Put
  <2>3. "pc" \in DOMAIN reader'[r] /\ reader'[r].pc \in {"done", "turn"}
    BY <1>2 DEF ReadersInv, Put
  <2> QED
    BY <2>1, <2>2, <2>3 DEF ReadersInv
<1>3. CASE reader' = [reader EXCEPT ![r].pc = "done"]
  BY <1>3 DEF ReadersInv
<1> QED
  BY <1>1, <1>2, <1>3 DEF Fetch

(* A QCOW turn leaves its reader there too, or waiting to unpack.          *)
LEMMA QcowFetchPc ==
  ASSUME ReadersInv, NEW r \in Readers, NEW table, QcowFetch(r, table), disk.kind = "qcow",
         disk' = disk
  PROVE  ReadersInv'
<1>1. PICK place \in {QcowPlace(disk, Guest(r), Left(r), table)} :
        \/ Fetch(r, place)
        \/ reader' = [reader EXCEPT ![r].pc = "unpack", ![r].place = place]
  BY DEF QcowFetch
<1>2. CASE Fetch(r, place)
  BY <1>2, FetchPc
<1>3. CASE reader' = [reader EXCEPT ![r].pc = "unpack", ![r].place = place]
  BY <1>3 DEF ReadersInv
<1> QED
  BY <1>1, <1>2, <1>3
-----------------------------------------------------------------------------
(* The caches are empty before anything is read.                           *)
LEMMA CachesInit ==
  ASSUME Init
  PROVE  CachesInv
<1>1. ReadersInv
  BY DEF Init, ReadersInv, Idle
<1>2. SlotsShape /\ SlotsInv
  BY DEF Init, SlotsShape, SlotsInv, EmptySlot
<1>3. UnitInv
  BY DEF Init, UnitInv, EmptyUnit
<1>4. KeptInv
  <2>1. DOMAIN kept = {}
    BY DEF Init, NoBytes
  <2> QED
    BY <2>1 DEF KeptInv
<1> QED
  BY <1>1, <1>2, <1>3, <1>4 DEF CachesInv

(* A step that leaves the caches alone has the readers to answer for. *)
LEMMA CachesUntouched ==
  ASSUME CachesInv, ReadersInv', UNCHANGED <<name, caches>>
  PROVE  CachesInv'
<1>1. disk' = disk /\ slots' = slots /\ unit' = unit /\ kept' = kept
  BY DEF disk, caches
<1>2. StreamBytes(disk, unit.key)' = StreamBytes(disk, unit.key)
  BY <1>1 DEF StreamBytes, StreamIndex
<1> QED
  BY <1>1, <1>2 DEF CachesInv, SlotsShape, SlotsInv, UnitInv, KeptInv

(* A step of the L2 cache leaves the other caches alone. *)
LEMMA UnitAndKeptUntouched ==
  ASSUME UnitInv, KeptInv, UNCHANGED <<name, unit, kept>>
  PROVE  UnitInv' /\ KeptInv'
<1>1. disk' = disk /\ unit' = unit /\ kept' = kept
  BY DEF disk
<1>2. StreamBytes(disk, unit.key)' = StreamBytes(disk, unit.key)
  BY <1>1 DEF StreamBytes, StreamIndex
<1> QED
  BY <1>1, <1>2 DEF UnitInv, KeptInv

(* The slot a table is found in. *)
LEMMA HitSlot ==
  ASSUME NEW at, Hits(at) # {}, Slots \in Nat
  PROVE  (CHOOSE i \in Hits(at) : \A j \in Hits(at) : i =< j) \in Hits(at)
<1> DEFINE First(i) == i \in Hits(at) /\ \A j \in Hits(at) : i =< j
<1>1. Hits(at) \subseteq Nat
  BY DEF Hits
<1>2. PICK i \in Hits(at) : \A j \in Hits(at) : ~ (<<j, i>> \in OpToRel(<, Nat))
  BY <1>1, WFMin, NatLessThanWellFounded
<1>3. First(i)
  <2>1. ASSUME NEW j \in Hits(at), j < i
        PROVE  <<j, i>> \in OpToRel(<, Nat)
    <3>1. j \in Nat /\ i \in Nat /\ j < i
      BY <1>1, <2>1
    <3> QED
      BY <3>1 DEF OpToRel
  <2>2. \A j \in Hits(at) : ~ (j < i)
    BY <1>2, <2>1
  <2>3. \A j \in Hits(at) : i =< j
    BY <1>1, <2>2
  <2> QED
    BY <2>3
<1>4. First(CHOOSE k : First(k))
  <2> HIDE DEF First
  <2> QED
    BY <1>3
<1>5. (CHOOSE k : First(k)) = (CHOOSE k \in Hits(at) : \A j \in Hits(at) : k =< j)
  OBVIOUS
<1> QED
  BY <1>4, <1>5

(* A hit changes the age of a slot, and neither its offset nor its table.  *)
LEMMA CachesHit ==
  ASSUME CachesInv, NEW r \in Readers, QcowHit(r)
  PROVE  CachesInv'
<1> DEFINE at == L2At(disk, Guest(r))
           i == CHOOSE i \in Hits(at) : \A j \in Hits(at) : i =< j
<1>1. disk' = disk /\ disk.kind = "qcow"
  BY DEF QcowHit, disk, Turning
<1>2. ReadersInv'
  <2>1. QcowFetch(r, slots[i].table)
    BY DEF QcowHit
  <2> QED
    BY <1>1, <2>1, QcowFetchPc DEF CachesInv
<1>3. i \in 1..Slots
  <2>1. Hits(at) # {}
    BY DEF QcowHit
  <2>2. i \in Hits(at)
    BY <2>1, HitSlot, SlotsAssumption
  <2> QED
    BY <2>2 DEF Hits
<1>4. slots' = [slots EXCEPT ![i].age = l2Age + 1]
  BY DEF QcowHit
<1> HIDE DEF i
<1>5. SlotsShape'
  BY <1>3, <1>4 DEF CachesInv, SlotsShape
<1>6. \A j \in 1..Slots : slots'[j].at = slots[j].at /\ slots'[j].table = slots[j].table
  BY <1>3, <1>4 DEF CachesInv, SlotsShape
<1>7. SlotsInv'
  BY <1>1, <1>6 DEF CachesInv, SlotsInv
<1>8. UnitInv' /\ KeptInv'
  BY UnitAndKeptUntouched DEF QcowHit, CachesInv
<1> QED
  BY <1>1, <1>2, <1>5, <1>7, <1>8 DEF CachesInv

(* A miss stores the table of an offset no slot answers for.               *)
LEMMA CachesMiss ==
  ASSUME CachesInv, NEW r \in Readers, QcowMiss(r)
  PROVE  CachesInv'
<1> DEFINE at == L2At(disk, Guest(r))
           table == disk.tables[at]
           new == [at |-> at, age |-> l2Age + 1, table |-> table]
<1>1. disk' = disk /\ disk.kind = "qcow"
  BY DEF QcowMiss, disk, Turning
<1>2. ReadersInv'
  <2>1. QcowFetch(r, table)
    BY DEF QcowMiss
  <2> QED
    BY <1>1, <2>1, QcowFetchPc DEF CachesInv
<1>3. at # 0 /\ Hits(at) = {} /\ slots' = [slots EXCEPT ![Victim] = new]
  BY DEF QcowMiss
<1> HIDE DEF at
<1>4. SlotsShape'
  BY <1>3 DEF CachesInv, SlotsShape
<1>5. \A i \in 1..Slots : slots'[i] = IF i = Victim THEN new ELSE slots[i]
  BY <1>3 DEF CachesInv, SlotsShape
<1>6. \A i \in 1..Slots : slots[i].at = at => slots[i].table = NoBytes /\ table = NoBytes
  <2>1. \A i \in 1..Slots : slots[i].at = at => slots[i].table = NoBytes
    BY <1>3 DEF Hits
  <2> QED
    BY <1>1, <1>3, <2>1 DEF CachesInv, SlotsInv
<1>7. \A i \in 1..Slots : IF slots'[i].at = 0 THEN slots'[i].table = NoBytes
                          ELSE slots'[i].table = disk.tables[slots'[i].at]
  BY <1>1, <1>3, <1>5 DEF CachesInv, SlotsInv
<1>8. ASSUME NEW i \in 1..Slots, NEW j \in 1..Slots,
             slots'[i].table # NoBytes, slots'[j].at = slots'[i].at
      PROVE  i = j
  <2>1. CASE i = Victim /\ j # Victim
    BY <1>5, <1>6, <1>8, <2>1
  <2>2. CASE i # Victim /\ j = Victim
    BY <1>5, <1>6, <1>8, <2>2
  <2>3. CASE i # Victim /\ j # Victim
    BY <1>1, <1>5, <1>8, <2>3 DEF CachesInv, SlotsInv
  <2> QED
    BY <2>1, <2>2, <2>3
<1>9. SlotsInv'
  BY <1>1, <1>7, <1>8 DEF SlotsInv
<1>10. UnitInv' /\ KeptInv'
  BY UnitAndKeptUntouched DEF QcowMiss, CachesInv
<1> QED
  BY <1>1, <1>2, <1>4, <1>9, <1>10 DEF CachesInv

(* Unpacking keeps the cluster under the key it was inflated from.         *)
LEMMA CachesUnpack ==
  ASSUME CachesInv, NEW r \in Readers, QcowUnpack(r)
  PROVE  CachesInv'
<1> DEFINE place == reader[r].place
           bytes == IF unit.key = place.key THEN unit.bytes ELSE disk.packs[place.key]
<1>1. disk' = disk /\ slots' = slots /\ kept' = kept
  BY DEF QcowUnpack, disk
<1>2. disk.kind = "qcow"
  BY DEF QcowUnpack, CachesInv, ReadersInv
<1>3. ReadersInv'
  <2>1. PutUnit(r, bytes, place.at, place.n)
    BY DEF QcowUnpack
  <2> HIDE DEF bytes, place
  <2> QED
    BY <1>1, <2>1, PutUnitPc DEF CachesInv
<1>4. UnitInv'
  <2>1. unit' = IF bytes = NoBytes THEN EmptyUnit ELSE [key |-> place.key, bytes |-> bytes]
    BY DEF QcowUnpack
  <2>2. place.key # -1 => bytes = disk.packs[place.key]
    BY <1>2 DEF CachesInv, UnitInv
  <2> QED
    BY <1>1, <1>2, <2>1, <2>2 DEF UnitInv, EmptyUnit
<1> QED
  BY <1>1, <1>2, <1>3, <1>4 DEF CachesInv, SlotsShape, SlotsInv, KeptInv

(* A bitmap is kept as it is in the file.                                  *)
LEMMA CachesVhd ==
  ASSUME CachesInv, NEW r \in Readers, VhdTurn(r)
  PROVE  CachesInv'
<1> DEFINE b == Guest(r) \div disk.block
           marked == IF ~VhdMaps(disk, b) THEN {}
                     ELSE IF b \in DOMAIN kept THEN kept[b] ELSE VhdBitmap(disk, b)
<1>1. disk' = disk /\ slots' = slots /\ unit' = unit /\ disk.kind = "vhd"
  BY DEF VhdTurn, disk, Turning
<1>2. ReadersInv'
  <2>1. PICK place \in {VhdPlace(disk, Guest(r), Left(r), marked)} : Fetch(r, place)
    BY DEF VhdTurn
  <2> QED
    BY <1>1, <2>1, FetchPc DEF CachesInv
<1>3. KeptInv'
  <2>1. CASE VhdMaps(disk, b) /\ VhdBitmapInside(disk, b)
    <3>1. kept' = Keep(kept, b, marked)
      BY <2>1 DEF VhdTurn
    <3>2. marked = disk.bitmaps[b]
      BY <1>1, <2>1 DEF CachesInv, KeptInv, VhdBitmap
    <3> HIDE DEF b, marked
    <3> QED
      BY <1>1, <3>1, <3>2 DEF CachesInv, KeptInv, Keep
  <2>2. CASE ~ (VhdMaps(disk, b) /\ VhdBitmapInside(disk, b))
    <3>1. kept' = kept
      BY <2>2 DEF VhdTurn
    <3> QED
      BY <1>1, <3>1 DEF CachesInv, KeptInv
  <2> QED
    BY <2>1, <2>2
<1> QED
  BY <1>1, <1>2, <1>3 DEF CachesInv, SlotsShape, UnitInv

(* The stores without caches leave them alone.                             *)
LEMMA CachesPlain ==
  ASSUME CachesInv, NEW r \in Readers, PlainTurn(r)
  PROVE  CachesInv'
<1>1. disk' = disk /\ UNCHANGED <<name, caches>>
  BY DEF PlainTurn, disk
<1>2. PICK place \in {PlainPlace(disk, Guest(r), Left(r))} : Fetch(r, place)
  BY DEF PlainTurn
<1>3. ReadersInv'
  BY <1>1, <1>2, FetchPc DEF CachesInv
<1> QED
  BY <1>1, <1>3, CachesUntouched

(* So does a cluster without a table.                                      *)
LEMMA CachesHole ==
  ASSUME CachesInv, NEW r \in Readers, QcowHole(r)
  PROVE  CachesInv'
<1>1. disk' = disk /\ UNCHANGED <<name, caches>>
  BY DEF QcowHole, disk
<1>2. ReadersInv'
  BY <1>1, PutZerosPc DEF CachesInv, QcowHole
<1> QED
  BY <1>1, <1>2, CachesUntouched

(* A grain is kept as its index names it, of no bytes if it is damaged.    *)
LEMMA CachesStream ==
  ASSUME CachesInv, NEW r \in Readers, StreamTurn(r)
  PROVE  CachesInv'
<1> DEFINE place == StreamPlace(disk, Guest(r), Left(r))
           bytes == IF unit.key = place.key THEN unit.bytes ELSE StreamBytes(disk, place.key)
<1>1. disk' = disk /\ slots' = slots /\ kept' = kept /\ disk.kind = "stream"
  BY DEF StreamTurn, disk, Turning
<1>2. unit' = [key |-> place.key, bytes |-> bytes]
  BY DEF StreamTurn
<1>3. ReadersInv'
  <2>1. PutUnit(r, unit'.bytes, place.at, place.n)
    BY DEF StreamTurn
  <2>2. PutUnit(r, bytes, place.at, place.n)
    <3> HIDE DEF bytes, place
    <3>1. unit'.bytes = bytes
      BY <1>2
    <3> QED
      BY <2>1, <3>1
  <2> HIDE DEF bytes, place
  <2> QED
    BY <1>1, <2>2, PutUnitPc DEF CachesInv
<1>4. UnitInv'
  <2>1. place.key # -1 => bytes = StreamBytes(disk, place.key)
    BY <1>1 DEF CachesInv, UnitInv
  <2> HIDE DEF bytes, place
  <2> QED
    BY <1>1, <1>2, <2>1 DEF UnitInv, StreamBytes
<1> QED
  BY <1>1, <1>3, <1>4 DEF CachesInv, SlotsShape, KeptInv

(* A run is kept only once it inflated.                                    *)
LEMMA CachesDmg ==
  ASSUME CachesInv, NEW r \in Readers, DmgTurn(r)
  PROVE  CachesInv'
<1>1. disk' = disk /\ slots' = slots /\ unit' = unit /\ disk.kind = "dmg"
  BY DEF DmgTurn, disk, Turning
<1>2. PICK place \in {DmgPlace(disk, Guest(r), Left(r))} :
        LET k == place.key
            bytes == IF k \in DOMAIN kept THEN kept[k] ELSE disk.packs[k]
        IN  \/ Fetch(r, place) /\ kept' = kept
            \/ /\ place.from = "unit" /\ bytes # NoBytes
               /\ PutUnit(r, bytes, place.at, place.n) /\ kept' = Keep(kept, k, bytes)
            \/ /\ place.from = "unit" /\ bytes = NoBytes
               /\ reader' = [reader EXCEPT ![r].pc = "done"] /\ kept' = kept
  BY DEF DmgTurn
<1> DEFINE k == place.key
           bytes == IF k \in DOMAIN kept THEN kept[k] ELSE disk.packs[k]
<1>3. bytes = disk.packs[k]
  BY <1>1 DEF CachesInv, KeptInv
<1> HIDE DEF bytes
<1>4. CASE Fetch(r, place) /\ kept' = kept
  <2>1. ReadersInv'
    BY <1>1, <1>4, FetchPc DEF CachesInv
  <2> QED
    BY <1>1, <1>4, <2>1 DEF CachesInv, SlotsShape, UnitInv, KeptInv
<1>5. CASE PutUnit(r, bytes, place.at, place.n) /\ kept' = Keep(kept, k, bytes)
  <2>1. ReadersInv'
    BY <1>1, <1>5, PutUnitPc DEF CachesInv
  <2>2. KeptInv'
    BY <1>1, <1>3, <1>5 DEF CachesInv, KeptInv, Keep
  <2> QED
    BY <1>1, <2>1, <2>2 DEF CachesInv, SlotsShape, UnitInv
<1>6. CASE reader' = [reader EXCEPT ![r].pc = "done"] /\ kept' = kept
  <2>1. ReadersInv'
    BY <1>1, <1>6 DEF CachesInv, ReadersInv
  <2> QED
    BY <1>1, <1>6, <2>1 DEF CachesInv, SlotsShape, UnitInv, KeptInv
<1> QED
  BY <1>2, <1>4, <1>5, <1>6 DEF bytes

(* The grain an extent keeps is one of that extent.                        *)
LEMMA CachesDescriptor ==
  ASSUME CachesInv, NEW r \in Readers, DescriptorTurn(r)
  PROVE  CachesInv'
<1> DEFINE k == ExtentAt(disk, Guest(r))
           last == IF k \in DOMAIN kept THEN kept[k] ELSE EmptyUnit
           Grain(f, key) == StreamBytes(disk.lines[f].image, key)
           Held(key) == IF last.key = key THEN last.bytes ELSE Grain(k, key)
<1>1. disk' = disk /\ slots' = slots /\ unit' = unit /\ disk.kind = "descriptor"
  BY DEF DescriptorTurn, disk, Turning
<1>2. PICK place \in {ExtentPlace(disk, Guest(r), Left(r))} :
        \/ Fetch(r, place) /\ kept' = kept
        \/ /\ place.from = "unit" /\ PutUnit(r, Held(place.key), place.at, place.n)
           /\ kept' = Keep(kept, k, [key |-> place.key, bytes |-> Held(place.key)])
  BY DEF DescriptorTurn
<1> DEFINE bytes == Held(place.key)
           new == [key |-> place.key, bytes |-> bytes]
<1>3. place.key # -1 => bytes = Grain(k, place.key)
  <2>1. last.key # -1 => last.bytes = Grain(k, last.key)
    BY <1>1 DEF CachesInv, KeptInv, EmptyUnit
  <2> HIDE DEF last, k, Grain
  <2> QED
    BY <2>1
<1>4. new.key = place.key /\ new.bytes = bytes
  OBVIOUS
<1>5. \/ Fetch(r, place) /\ kept' = kept
      \/ PutUnit(r, bytes, place.at, place.n) /\ kept' = Keep(kept, k, new)
  <2> HIDE DEF k, last, Grain
  <2> QED
    BY <1>2
<1> HIDE DEF bytes, k, last, new
<1>6. CASE Fetch(r, place) /\ kept' = kept
  <2>1. ReadersInv'
    BY <1>1, <1>6, FetchPc DEF CachesInv
  <2>2. KeptInv'
    BY <1>1, <1>6 DEF CachesInv, KeptInv
  <2> QED
    BY <1>1, <2>1, <2>2 DEF CachesInv, SlotsShape, UnitInv
<1>7. CASE PutUnit(r, bytes, place.at, place.n) /\ kept' = Keep(kept, k, new)
  <2>1. ReadersInv'
    BY <1>1, <1>7, PutUnitPc DEF CachesInv
  <2>2. \A f \in DOMAIN kept' : kept'[f].key # -1 => kept'[f].bytes = Grain(f, kept'[f].key)
    <3>1. \A f \in DOMAIN kept : kept[f].key # -1 => kept[f].bytes = Grain(f, kept[f].key)
      BY <1>1 DEF CachesInv, KeptInv
    <3>2. \A f \in DOMAIN kept' : kept'[f] = IF f = k THEN new ELSE kept[f]
      BY <1>7 DEF Keep
    <3>3. DOMAIN kept' = DOMAIN kept \cup {k}
      BY <1>7 DEF Keep
    <3> HIDE DEF Grain
    <3> QED
      BY <1>3, <1>4, <3>1, <3>2, <3>3
  <2>3. KeptInv'
    BY <1>1, <2>2 DEF KeptInv
  <2> QED
    BY <1>1, <2>1, <2>3 DEF CachesInv, SlotsShape, UnitInv
<1> QED
  BY <1>5, <1>6, <1>7

(* Opening, asking and returning leave the caches alone.                   *)
LEMMA CachesCalls ==
  ASSUME CachesInv,
         \/ Open
         \/ \E r \in Readers : Return(r) \/ \E p \in Positions, c \in Counts : Ask(r, p, c)
  PROVE  CachesInv'
<1>1. UNCHANGED <<name, caches>> /\ disk' = disk
  BY DEF Open, Return, Ask, disk
<1>2. CASE Open
  <2>1. ReadersInv'
    BY <1>1, <1>2 DEF Open, CachesInv, ReadersInv
  <2> QED
    BY <1>1, <2>1, CachesUntouched
<1>3. CASE \E r \in Readers : Return(r)
  <2>1. PICK r \in Readers : reader' = [reader EXCEPT ![r] = Idle]
    BY <1>3 DEF Return
  <2>2. "pc" \in DOMAIN Idle /\ Idle.pc = "idle"
    BY DEF Idle
  <2>3. ReadersInv'
    BY <1>1, <2>1, <2>2 DEF CachesInv, ReadersInv
  <2> QED
    BY <1>1, <2>3, CachesUntouched
<1>4. CASE \E r \in Readers : \E p \in Positions, c \in Counts : Ask(r, p, c)
  <2>1. PICK r \in Readers, p \in Positions, c \in Counts : Ask(r, p, c)
    BY <1>4
  <2>2. PICK want : reader' = [reader EXCEPT ![r] =
           [Idle EXCEPT !.pc = IF want > 0 THEN "turn" ELSE "done", !.pos = p, !.count = c,
                        !.want = want, !.dst = [i \in 0..c - 1 |-> 0]]]
    BY <2>1 DEF Ask
  <2>3. DOMAIN reader' = Readers /\ \A q \in Readers : q # r => reader'[q] = reader[q]
    BY <2>2 DEF CachesInv, ReadersInv
  <2>4. "pc" \in DOMAIN reader'[r] /\ reader'[r].pc \in {"turn", "done"}
    BY <2>2 DEF CachesInv, ReadersInv, Idle
  <2>5. ReadersInv'
    BY <1>1, <2>3, <2>4 DEF CachesInv, ReadersInv
  <2> QED
    BY <1>1, <2>5, CachesUntouched
<1> QED
  BY <1>2, <1>3, <1>4

(* Every step keeps the caches what the image holds.                       *)
LEMMA CachesNext ==
  ASSUME CachesInv, [Next]_vars
  PROVE  CachesInv'
<1>1. CASE UNCHANGED vars
  <2>1. UNCHANGED <<name, caches>> /\ disk' = disk /\ reader' = reader
    BY <1>1 DEF vars, caches, disk
  <2>2. ReadersInv'
    BY <2>1 DEF CachesInv, ReadersInv
  <2> QED
    BY <2>1, <2>2, CachesUntouched
<1>2. CASE Next
  <2>1. CASE Open \/ \E r \in Readers : Return(r) \/ \E p \in Positions, c \in Counts : Ask(r, p, c)
    BY <2>1, CachesCalls
  <2>2. ASSUME NEW r \in Readers,
               QcowHole(r) \/ QcowHit(r) \/ QcowMiss(r) \/ QcowUnpack(r)
        PROVE  CachesInv'
    BY <2>2, CachesHole, CachesHit, CachesMiss, CachesUnpack
  <2>3. ASSUME NEW r \in Readers,
               VhdTurn(r) \/ PlainTurn(r) \/ StreamTurn(r) \/ DescriptorTurn(r) \/ DmgTurn(r)
        PROVE  CachesInv'
    BY <2>3, CachesVhd, CachesPlain, CachesStream, CachesDescriptor, CachesDmg
  <2> QED
    BY <1>2, <2>1, <2>2, <2>3 DEF Next, Turn
<1> QED
  BY <1>1, <1>2

(* The strengthened invariant says what the run checks.                    *)
LEMMA CachesImplied ==
  ASSUME CachesInv
  PROVE  CachesHoldTheImage
<1>1. disk.kind = "qcow" => \A i \in 1..Slots : slots[i].table # NoBytes =>
        /\ slots[i].table = disk.tables[slots[i].at]
        /\ \A j \in 1..Slots : slots[j].at = slots[i].at => i = j
  BY DEF CachesInv, SlotsInv
<1> QED
  BY <1>1 DEF CachesInv, UnitInv, KeptInv, CachesHoldTheImage

(* Whatever images are mounted and whoever reads them, the L2 tables, the  *)
(* inflated clusters, grains and runs and the bitmaps the stores keep are  *)
(* those of the image under the key they are kept by (QcowDisk.cpp lookup  *)
(* and readCompressed, VhdDisk.cpp, VmdkDisk.cpp loadGrain, DmgDisk.cpp).  *)
THEOREM CachesCorrect == Spec => []CachesHoldTheImage
<1>1. Init => CachesInv
  BY CachesInit
<1>2. CachesInv /\ [Next]_vars => CachesInv'
  BY CachesNext
<1>3. CachesInv => CachesHoldTheImage
  BY CachesImplied
<1> QED
  BY <1>1, <1>2, <1>3, PTL DEF Spec

-----------------------------------------------------------------------------
(* The slot given up is the first of those least recently used. *)
LEMMA VictimIsOldest ==
  ASSUME AgesInv
  PROVE  /\ Victim \in 1..Slots
         /\ \A j \in 1..Slots : slots[Victim].age =< slots[j].age
<1> DEFINE Ages == {slots[i].age : i \in 1..Slots}
           Oldest(age) == {i \in 1..Slots : slots[i].age = age}
<1>1. Ages \subseteq Nat /\ Ages # {}
  BY SlotsAssumption DEF AgesInv
<1>2. PICK age \in Ages : \A a \in Ages : ~ (<<a, age>> \in OpToRel(<, Nat))
  <2> HIDE DEF Ages
  <2> QED
    BY <1>1, WFMin, NatLessThanWellFounded
<1>3. \A i \in 1..Slots : age =< slots[i].age
  <2>1. ASSUME NEW i \in 1..Slots, slots[i].age < age
        PROVE  <<slots[i].age, age>> \in OpToRel(<, Nat)
    <3>1. slots[i].age \in Nat /\ age \in Nat
      BY <1>1
    <3> QED
      BY <2>1, <3>1 DEF OpToRel
  <2>2. ASSUME NEW i \in 1..Slots
        PROVE  slots[i].age \in Ages /\ slots[i].age \in Nat /\ age \in Nat
    BY <1>1
  <2>3. ASSUME NEW i \in 1..Slots
        PROVE  ~ (slots[i].age < age)
    BY <1>2, <2>1, <2>2
  <2> HIDE DEF Ages
  <2> QED
    BY <2>2, <2>3
<1>4. Oldest(age) \subseteq Nat /\ Oldest(age) # {}
  BY SlotsAssumption
<1>5. PICK i \in Oldest(age) : \A j \in Oldest(age) : ~ (<<j, i>> \in OpToRel(<, Nat))
  <2> HIDE DEF Oldest
  <2> QED
    BY <1>4, WFMin, NatLessThanWellFounded
<1>6. \A j \in Oldest(age) : i =< j
  <2>1. ASSUME NEW j \in Oldest(age), j < i
        PROVE  <<j, i>> \in OpToRel(<, Nat)
    <3>1. j \in Nat /\ i \in Nat /\ j < i
      BY <1>4, <2>1
    <3> QED
      BY <3>1 DEF OpToRel
  <2>2. \A j \in Oldest(age) : j \in Nat /\ i \in Nat /\ ~ (j < i)
    BY <1>4, <1>5, <2>1
  <2> HIDE DEF Oldest
  <2> QED
    BY <2>2
<1> DEFINE IsVictim(k) == k \in 1..Slots /\ \A j \in 1..Slots :
             slots[k].age < slots[j].age \/ (slots[k].age = slots[j].age /\ k =< j)
<1>7. IsVictim(i)
  <2>1. i \in 1..Slots /\ slots[i].age = age
    OBVIOUS
  <2>2. ASSUME NEW j \in 1..Slots
        PROVE  age < slots[j].age \/ (age = slots[j].age /\ i =< j)
    <3>1. age \in Nat /\ slots[j].age \in Nat /\ age =< slots[j].age
      BY <1>1, <1>3
    <3>2. slots[j].age = age => i =< j
      BY <1>6
    <3> QED
      BY <3>1, <3>2
  <2> QED
    BY <2>1, <2>2
<1>8. Victim = CHOOSE k : IsVictim(k)
  BY DEF Victim
<1>9. IsVictim(Victim)
  <2> HIDE DEF IsVictim
  <2> QED
    BY <1>7, <1>8
<1>10. \A j \in 1..Slots : slots[Victim].age \in Nat /\ slots[j].age \in Nat
  BY <1>1, <1>9
<1> QED
  BY <1>9, <1>10

(* Setting the age of one slot to the next tick of the clock. *)
LEMMA AgesTick ==
  ASSUME AgesInv, NEW k \in 1..Slots, l2Age' = l2Age + 1, slots'[k].age = l2Age + 1,
         \A i \in 1..Slots : i # k => slots'[i] = slots[i]
  PROVE  AgesInv'
<1>1. l2Age \in Nat /\ l2Age' \in Nat /\ l2Age' > l2Age
  BY DEF AgesInv
<1>2. \A i \in 1..Slots : i # k => slots'[i].age \in 0..l2Age
  BY DEF AgesInv
<1>3. \A i \in 1..Slots : slots'[i].age \in 0..l2Age'
  BY <1>1, <1>2
<1>4. \A i \in 1..Slots : slots'[i].table # NoBytes => slots'[i].age > 0
  BY <1>1 DEF AgesInv
<1>5. \A i \in 1..Slots : slots'[i].age = l2Age' => i = k
  BY <1>1, <1>2
<1> QED
  BY <1>1, <1>3, <1>4, <1>5 DEF AgesInv

(* Only a hit and a miss move the clock, each with the slot it used.       *)
LEMMA AgesNext ==
  ASSUME CachesInv, AgesInv, [Next]_vars
  PROVE  AgesInv'
<1>1. CASE \E r \in Readers : QcowHit(r)
  <2>1. PICK r \in Readers : QcowHit(r)
    BY <1>1
  <2> DEFINE at == L2At(disk, Guest(r))
             i == CHOOSE i \in Hits(at) : \A j \in Hits(at) : i =< j
  <2>2. Hits(at) # {}
    BY <2>1 DEF QcowHit
  <2>3. i \in 1..Slots
    BY <2>2, HitSlot, SlotsAssumption DEF Hits
  <2>4. l2Age' = l2Age + 1 /\ slots' = [slots EXCEPT ![i].age = l2Age + 1]
    BY <2>1 DEF QcowHit
  <2> HIDE DEF i
  <2>5. slots'[i].age = l2Age + 1 /\ \A j \in 1..Slots : j # i => slots'[j] = slots[j]
    BY <2>3, <2>4 DEF CachesInv, SlotsShape
  <2> QED
    BY <2>3, <2>4, <2>5, AgesTick
<1>2. CASE \E r \in Readers : QcowMiss(r)
  <2>1. PICK r \in Readers : QcowMiss(r)
    BY <1>2
  <2> DEFINE at == L2At(disk, Guest(r))
             new == [at |-> at, age |-> l2Age + 1, table |-> disk.tables[at]]
  <2>2. l2Age' = l2Age + 1 /\ slots' = [slots EXCEPT ![Victim] = new]
    BY <2>1 DEF QcowMiss
  <2>3. new.age = l2Age + 1
    OBVIOUS
  <2> HIDE DEF new
  <2>4. Victim \in 1..Slots
    BY VictimIsOldest
  <2>5. slots'[Victim].age = l2Age + 1
        /\ \A j \in 1..Slots : j # Victim => slots'[j] = slots[j]
    BY <2>2, <2>3, <2>4 DEF CachesInv, SlotsShape
  <2> QED
    BY <2>2, <2>4, <2>5, AgesTick
<1>3. CASE UNCHANGED <<slots, l2Age>>
  BY <1>3 DEF AgesInv
<1>4. CASE Open \/ UNCHANGED vars
  BY <1>3, <1>4 DEF Open, vars, caches
<1>5. ASSUME NEW r \in Readers,
             \/ QcowHole(r) \/ QcowUnpack(r) \/ VhdTurn(r) \/ PlainTurn(r)
             \/ StreamTurn(r) \/ DescriptorTurn(r) \/ DmgTurn(r) \/ Return(r)
             \/ \E p \in Positions, c \in Counts : Ask(r, p, c)
      PROVE  UNCHANGED <<slots, l2Age>>
  BY <1>5 DEF QcowHole, QcowUnpack, VhdTurn, PlainTurn, StreamTurn, DescriptorTurn, DmgTurn,
                Return, Ask, caches
<1> QED
  BY <1>1, <1>2, <1>3, <1>4, <1>5 DEF Next, Turn

(* The slot given up by a miss is as old as any, so it is not the one used *)
(* last: another slot is at most as old, and only one is that old.         *)
LEMMA LastUsedStaysNext ==
  ASSUME CachesInv, AgesInv, Next, NEW i \in 1..Slots,
         slots[i].age = l2Age, slots[i].table # NoBytes
  PROVE  slots'[i].at = slots[i].at
<1>1. CASE \E r \in Readers : QcowHit(r)
  <2>1. PICK r \in Readers : QcowHit(r)
    BY <1>1
  <2>2. PICK k : slots' = [slots EXCEPT ![k].age = l2Age + 1]
    BY <2>1 DEF QcowHit
  <2> QED
    BY <2>2 DEF CachesInv, SlotsShape
<1>2. CASE \E r \in Readers : QcowMiss(r)
  <2>1. PICK r \in Readers : QcowMiss(r)
    BY <1>2
  <2>2. PICK new : slots' = [slots EXCEPT ![Victim] = new]
    BY <2>1 DEF QcowMiss
  <2>3. Victim # i
    <3>1. PICK j \in 1..Slots : j # i
      BY SlotsAssumption
    <3>2. slots[i].age > 0 /\ l2Age > 0
      BY DEF AgesInv
    <3>3. slots[j].age < l2Age
      BY <3>1, <3>2 DEF AgesInv
    <3>4. slots[Victim].age =< slots[j].age
      BY VictimIsOldest
    <3>5. slots[Victim].age \in Nat /\ slots[j].age \in Nat /\ l2Age \in Nat
      BY VictimIsOldest DEF AgesInv
    <3> QED
      BY <3>3, <3>4, <3>5
  <2> QED
    BY <2>2, <2>3 DEF CachesInv, SlotsShape
<1>3. CASE Open
  BY <1>3 DEF Open, caches
<1>4. ASSUME NEW r \in Readers,
             \/ QcowHole(r) \/ QcowUnpack(r) \/ VhdTurn(r) \/ PlainTurn(r)
             \/ StreamTurn(r) \/ DescriptorTurn(r) \/ DmgTurn(r) \/ Return(r)
             \/ \E p \in Positions, c \in Counts : Ask(r, p, c)
      PROVE  slots' = slots
  BY <1>4 DEF QcowHole, QcowUnpack, VhdTurn, PlainTurn, StreamTurn, DescriptorTurn, DmgTurn,
                Return, Ask, caches
<1> QED
  BY <1>1, <1>2, <1>3, <1>4 DEF Next, Turn

(* A table is never given up by the read after the one that used it,       *)
(* whatever the readers do in between: lookup replaces the slot of least   *)
(* age, and with two slots or more that is not the slot used last.         *)
THEOREM LastUsedTableIsKept == Spec => LastUsedTableStays
<1>1. Init => CachesInv /\ AgesInv
  <2>1. ASSUME Init
        PROVE  AgesInv
    BY <2>1 DEF Init, AgesInv, EmptySlot
  <2> QED
    BY <2>1, CachesInit
<1>2. CachesInv /\ AgesInv /\ [Next]_vars => CachesInv' /\ AgesInv'
  BY CachesNext, AgesNext
<1>3. CachesInv /\ AgesInv /\ [Next]_vars =>
        [\A i \in 1..Slots :
           slots[i].age = l2Age /\ slots[i].table # NoBytes => slots'[i].at = slots[i].at]_vars
  BY LastUsedStaysNext
<1> QED
  BY <1>1, <1>2, <1>3, PTL DEF Spec, LastUsedTableStays

-----------------------------------------------------------------------------
(* What an accepted image announces is a size, and none of it is nothing.  *)
LEMMA GuestSizeIs ==
  ASSUME NEW d, Typed(d), Accepts(d)
  PROVE  GuestSize(d) \in Int /\ (GuestSize(d) > 0 \/ d.kind = "dmg")
<1>1. Sector \in Nat \ {0} /\ FileTyped(d) /\ d.kind \in Kinds
  BY DiskImagesAssumption DEF Typed
<1>2. CASE d.kind = "qcow"
  BY <1>2 DEF Typed, Accepts, GuestSize, QcowTyped, QcowAccepts, QcowGeometryOK
<1>3. CASE d.kind = "vhd"
  BY <1>1, <1>3, VhdSizeIs DEF Typed, Accepts, GuestSize
<1>4. CASE d.kind = "vhdx"
  BY <1>4 DEF Typed, Accepts, GuestSize, VhdxTyped, VhdxAccepts, VhdxMetadataOK
<1>5. CASE d.kind = "vdi"
  BY <1>5 DEF Typed, Accepts, GuestSize, VdiTyped, VdiAccepts
<1>6. CASE d.kind = "parallels"
  <2>1. d.size \in Nat /\ d.size > 0 /\ GuestSize(d) = d.size * Sector
    BY <1>6 DEF Typed, Accepts, GuestSize, ParallelsTyped, ParallelsAccepts
  <2> QED
    BY <1>1, <2>1
<1>7. CASE d.kind = "sparse"
  <2>1. d.sectors \in Nat /\ d.sectors > 0 /\ GuestSize(d) = d.sectors * Sector
    BY <1>7 DEF Typed, Accepts, GuestSize, SparseTyped, SparseAccepts
  <2> QED
    BY <1>1, <2>1
<1>8. CASE d.kind = "stream"
  <2>1. d.sectors \in Nat /\ d.sectors > 0 /\ GuestSize(d) = d.sectors * Sector
    BY <1>8 DEF Typed, Accepts, GuestSize, StreamTyped, StreamAccepts
  <2> QED
    BY <1>1, <2>1
<1>9. CASE d.kind = "descriptor"
  <2>1. DescriptorTyped(d) /\ DescriptorAccepts(d) /\ GuestSize(d) = DescriptorSize(d)
    BY <1>9 DEF Typed, Accepts, GuestSize
  <2>2. DescriptorSize(d) > 0 /\ DescriptorSize(d) \in Nat
    BY <2>1, ExtentSizes, ExtentsReach DEF DescriptorSize
  <2> QED
    BY <2>1, <2>2
<1>10. CASE d.kind = "dmg"
  <2>1. d.sectors \in Int /\ GuestSize(d) = d.sectors * Sector
    BY <1>10 DEF Typed, GuestSize, DmgTyped
  <2> QED
    BY <1>1, <1>10, <2>1
<1> QED
  BY <1>1, <1>2, <1>3, <1>4, <1>5, <1>6, <1>7, <1>8, <1>9, <1>10 DEF Kinds

(* The grain tables of a sparse extent reach over all of its grains.       *)
LEMMA SparseMapped ==
  ASSUME NEW d, SparseTyped(d), SparseAccepts(d), NEW p \in Nat, p < d.sectors * Sector
  PROVE  p \div (Sector * d.grain * d.perTable) < GrainTables(d)
<1> DEFINE cover == d.grain * d.perTable
           span == Sector * d.grain * d.perTable
           T == GrainTables(d)
<1>1. /\ Sector \in Nat \ {0} /\ d.grain \in Nat \ {0} /\ d.perTable \in Nat \ {0}
      /\ d.sectors \in Nat
  BY DiskImagesAssumption DEF SparseTyped, SparseAccepts
<1>2. cover \in Nat \ {0} /\ span = cover * Sector /\ span \in Nat \ {0}
  BY <1>1
<1>3. T = CeilDiv(d.sectors, cover)
  BY DEF GrainTables
<1> HIDE DEF cover, span, T
<1>4. T \in Nat /\ d.sectors =< T * cover /\ T * cover \in Nat
  BY <1>1, <1>2, <1>3 DEF CeilDiv
<1>5. d.sectors * Sector =< (T * cover) * Sector /\ (T * cover) * Sector = T * span
  <2> DEFINE whole == T * cover
  <2>1. T * span = (T * cover) * Sector
    BY <1>1, <1>2, <1>4
  <2> HIDE DEF whole
  <2>2. d.sectors * Sector =< whole * Sector
    BY <1>1, <1>4 DEF whole
  <2> QED
    BY <2>1, <2>2 DEF whole
<1>6. p < T * span
  <2>1. d.sectors * Sector \in Int /\ T * span \in Int
    BY <1>1, <1>2, <1>4
  <2> QED
    BY <1>5, <2>1
<1>7. p \div span < T
  BY <1>2, <1>4, <1>6, DivBelow
<1> QED
  BY <1>7 DEF span, T

(* Opening an image is what its header and its tables say of it.           *)
MountInv ==
  /\ name \in DOMAIN Image /\ mounted \in {"no", "yes", "refused"}
  /\ mounted = "yes" => Accepts(disk)

(* An image is opened once, and no read changes it.                        *)
LEMMA MountStays ==
  ASSUME MountInv, [Next]_vars
  PROVE  MountInv'
<1>1. CASE Open
  BY <1>1 DEF Open, MountInv, disk
<1>2. CASE UNCHANGED <<name, mounted>>
  BY <1>2 DEF MountInv, disk
<1>3. ASSUME NEW r \in Readers, Turn(r) \/ \E p \in Positions, c \in Counts : Ask(r, p, c)
      PROVE  UNCHANGED <<name, mounted>>
  BY <1>3 DEF Turn, QcowHole, QcowHit, QcowMiss, QcowUnpack, VhdTurn, PlainTurn, StreamTurn,
              DescriptorTurn, DmgTurn, Return, Ask
<1> QED
  BY <1>1, <1>2, <1>3 DEF Next, vars

(* The mounted image is one of the images.                                 *)
LEMMA DiskTyped ==
  ASSUME MountInv
  PROVE  Typed(disk)
  BY ImagesAssumption DEF MountInv, disk

(* What was checked on opening maps every byte, kind by kind.              *)
LEMMA AcceptedIsMapped ==
  ASSUME MountInv
  PROVE  MountedDiskIsMapped
<1> SUFFICES ASSUME mounted = "yes" PROVE MountedDiskIsMapped
  BY DEF MountedDiskIsMapped
<1>1. Typed(disk) /\ Accepts(disk)
  BY DiskTyped DEF MountInv
<1> DEFINE d == disk
<1> HIDE DEF d
<1>2. GuestSize(d) \in Int /\ (GuestSize(d) > 0 \/ d.kind = "dmg")
  BY <1>1, GuestSizeIs DEF d
<1>3. ASSUME NEW p \in 0..GuestSize(d) - 1, d.kind = "qcow"
      PROVE  (p \div d.cluster) \div L2Entries(d) < L1Size(d)
  <2>1. FileTyped(d) /\ QcowTyped(d) /\ QcowAccepts(d) /\ p \in Nat /\ p < d.size
    BY <1>1, <1>2, <1>3 DEF Typed, Accepts, GuestSize, d
  <2>2. L1Size(d) \in Int /\ (p \div d.cluster) \div L2Entries(d) \in 0..L1Size(d) - 1
    BY <2>1, QcowMapped
  <2> QED
    BY <2>2
<1>4. ASSUME NEW p \in 0..GuestSize(d) - 1, d.kind = "vhdx"
      PROVE  VhdxIndex(d, p \div d.block) \in 0..VhdxRegion(d).batEntries - 1
  <2>1. VhdxTyped(d) /\ VhdxAccepts(d) /\ p \in Nat /\ p < d.size /\ d.size \in Nat
    BY <1>1, <1>2, <1>4 DEF Typed, Accepts, GuestSize, d, VhdxTyped
  <2>2. d.block \in Nat \ {0}
    BY <2>1 DEF VhdxTyped, VhdxAccepts, VhdxMetadataOK
  <2>3. p \div d.block \in Nat /\ p \div d.block < VhdxBlocks(d)
    BY <2>1, <2>2, DivModOf, CeilDivCovers DEF VhdxBlocks
  <2> QED
    BY <2>1, <2>3, VhdxEntryInside
<1>5. ASSUME NEW p \in 0..GuestSize(d) - 1, d.kind = "sparse"
      PROVE  p \div (Sector * d.grain * d.perTable) < GrainTables(d)
  <2>1. SparseTyped(d) /\ SparseAccepts(d) /\ p \in Nat /\ p < d.sectors * Sector
    BY <1>1, <1>2, <1>5 DEF Typed, Accepts, GuestSize, d
  <2> QED
    BY <2>1, SparseMapped
<1> QED
  BY <1>2, <1>3, <1>4, <1>5 DEF MountedDiskIsMapped, d

(* The sizes checked when an image is opened, rounded up as the code       *)
(* rounds them, give every byte of the disk its entry in the tables that   *)
(* were loaded: for every image, size of cluster, of table and of chunk    *)
(* (QcowDisk.cpp validateCommonHeader, VhdDisk.cpp readBat, VmdkDisk.cpp). *)
THEOREM MountedDisksAreMapped == Spec => []MountedDiskIsMapped
<1>1. Init => MountInv
  BY DEF Init, MountInv
<1>2. MountInv /\ [Next]_vars => MountInv'
  BY MountStays
<1>3. MountInv => MountedDiskIsMapped
  BY AcceptedIsMapped
<1> QED
  BY <1>1, <1>2, <1>3, PTL DEF Spec

-----------------------------------------------------------------------------
(* Reads under way.  A read that goes on asks for bytes the disk has and   *)
(* has room for them; one that waits to unpack a cluster knows which.      *)
(* Stores other than QCOW's are read by one reader at a time, and a bitmap *)
(* is kept only where it lies in the file.                                 *)
ReadOK(rd) ==
  /\ DOMAIN rd = {"pc", "pos", "count", "want", "produced", "dst", "place"}
  /\ rd.pc \in {"idle", "turn", "unpack", "done"}
  /\ rd.want \in Nat /\ rd.produced \in 0..rd.want /\ Bytes(rd.dst)
  /\ rd.pc \in {"turn", "unpack"} =>
       /\ mounted = "yes" /\ rd.produced < rd.want /\ rd.want =< rd.count
       /\ rd.pos \in Nat /\ rd.pos + rd.want =< GuestSize(disk)
       /\ rd.count \in Nat /\ DOMAIN rd.dst = 0..rd.count - 1
  /\ rd.pc = "unpack" =>
       /\ disk.kind = "qcow" /\ rd.place.n \in 1..rd.want - rd.produced
       /\ rd.place.key \in Nat /\ rd.place.at \in Nat /\ Bytes(disk.packs[rd.place.key])

ReadsOK == DOMAIN reader = Readers /\ \A r \in Readers : ReadOK(reader[r])

(* What a read has put in its buffer, and what it is about to unpack.      *)
BufferOK(rd) ==
  /\ \A i \in 0..rd.produced - 1 : rd.dst[i] = disk.guest[rd.pos + i]
  /\ rd.pc = "done" /\ rd.produced < rd.want => disk.guest[rd.pos + rd.produced] = -1
  /\ rd.pc = "unpack" =>
       \A i \in 0..rd.place.n - 1 :
         disk.guest[rd.pos + rd.produced + i] = UnitByte(disk.packs[rd.place.key], rd.place.at + i)

BuffersOK == \A r \in Readers : BufferOK(reader[r])

(* What a turn of reader r does to the reads: both stay right.             *)
Sound == ReadsOK' /\ (Written(disk) /\ BuffersOK => BuffersOK')

(* A turn puts n bytes in the buffer of r, whatever they come from.        *)
ChunkOf(place, bytes) == [i \in 0..place.n - 1 |-> ByteAt(place, bytes, i)]

Advances(r, n, chunk) ==
  LET rd == reader[r]
      done == rd.produced
  IN  reader' = [reader EXCEPT ![r] =
        [rd EXCEPT !.produced = done + n,
                   !.pc = IF done + n = rd.want THEN "done" ELSE "turn",
                   !.dst = [i \in DOMAIN rd.dst |->
                             IF i \in done..done + n - 1 THEN chunk[i - done] ELSE rd.dst[i]],
                   !.place = Place]]

(* The next byte a turn may produce, and how many.                         *)
LEMMA TurnAsks ==
  ASSUME ReadsOK, MountInv, NEW r \in Readers, reader[r].pc \in {"turn", "unpack"}
  PROVE  /\ Guest(r) \in Nat /\ Left(r) \in Nat \ {0} /\ Guest(r) + Left(r) =< GuestSize(disk)
         /\ mounted = "yes" /\ Typed(disk) /\ Accepts(disk) /\ FileTyped(disk)
<1> DEFINE rd == reader[r]
<1>1. ReadOK(rd)
  BY DEF ReadsOK
<1>2. Typed(disk) /\ Accepts(disk) /\ FileTyped(disk)
  BY <1>1, DiskTyped DEF ReadOK, MountInv, Typed
<1>3. GuestSize(disk) \in Int
  BY <1>2, GuestSizeIs
<1>4. Guest(r) = rd.pos + rd.produced /\ Left(r) = rd.want - rd.produced
  BY DEF Guest, Left
<1>5. /\ mounted = "yes" /\ rd.want \in Nat /\ rd.produced \in Nat /\ rd.produced < rd.want
      /\ rd.pos \in Nat /\ rd.pos + rd.want =< GuestSize(disk)
  BY <1>1 DEF ReadOK
<1> HIDE DEF rd
<1> QED
  BY <1>2, <1>3, <1>4, <1>5

(* The reads of the others go on as they were.                             *)
LEMMA OthersStay ==
  ASSUME ReadsOK, NEW r \in Readers, NEW new, reader' = [reader EXCEPT ![r] = new],
         UNCHANGED <<name, mounted>>, ReadOK(new),
         Written(disk) /\ BuffersOK => BufferOK(new)
  PROVE  Sound
<1>1. disk' = disk /\ mounted' = mounted
  BY DEF disk
<1>2. DOMAIN reader' = Readers /\ reader'[r] = new
      /\ \A q \in Readers : q # r => reader'[q] = reader[q]
  BY DEF ReadsOK
<1>3. ASSUME NEW q \in Readers PROVE ReadOK(reader[q])'
  <2>1. ReadOK(reader'[q])
    BY <1>2 DEF ReadsOK
  <2> QED
    BY <1>1, <2>1 DEF ReadOK, GuestSize, VhdSize, VhdFixed, VhdFooter, Bytes
<1>4. ASSUME Written(disk), BuffersOK, NEW q \in Readers PROVE BufferOK(reader[q])'
  <2>1. BufferOK(reader'[q])
    BY <1>2, <1>4 DEF BuffersOK
  <2> QED
    BY <1>1, <2>1 DEF BufferOK
<1> QED
  BY <1>2, <1>3, <1>4 DEF Sound, ReadsOK, BuffersOK

(* A chunk of what the guest disk has next is put in the buffer.           *)
LEMMA AdvanceIsSound ==
  ASSUME ReadsOK, MountInv, NEW r \in Readers, reader[r].pc \in {"turn", "unpack"},
         NEW n \in 1..Left(r), NEW chunk \in [0..n - 1 -> Nat], Advances(r, n, chunk),
         UNCHANGED <<name, mounted>>,
         Written(disk) /\ BuffersOK => \A i \in 0..n - 1 : disk.guest[Guest(r) + i] = chunk[i]
  PROVE  Sound
<1> DEFINE rd == reader[r]
           done == rd.produced
           dst == [i \in DOMAIN rd.dst |-> IF i \in done..done + n - 1 THEN chunk[i - done]
                                           ELSE rd.dst[i]]
           pc == IF done + n = rd.want THEN "done" ELSE "turn"
           new == [rd EXCEPT !.produced = done + n, !.pc = pc, !.dst = dst, !.place = Place]
<1>1. ReadOK(rd) /\ reader' = [reader EXCEPT ![r] = new]
  BY DEF ReadsOK, Advances
<1>2. /\ done \in Nat /\ rd.want \in Nat /\ done + n =< rd.want /\ n \in Nat \ {0}
      /\ rd.want =< rd.count /\ rd.count \in Nat /\ DOMAIN rd.dst = 0..rd.count - 1
      /\ Bytes(rd.dst) /\ rd.pos \in Nat /\ rd.pos + rd.want =< GuestSize(disk)
      /\ mounted = "yes" /\ Guest(r) = rd.pos + done
  BY <1>1 DEF ReadOK, Left, Guest
<1>3. /\ DOMAIN new = {"pc", "pos", "count", "want", "produced", "dst", "place"}
      /\ new.produced = done + n /\ new.pc = pc /\ new.dst = dst
      /\ new.pos = rd.pos /\ new.count = rd.count /\ new.want = rd.want
  BY <1>1 DEF ReadOK
<1>4. DOMAIN dst = 0..rd.count - 1
      /\ \A i \in 0..rd.count - 1 : dst[i] = IF i \in done..done + n - 1 THEN chunk[i - done]
                                             ELSE rd.dst[i]
  BY <1>2
<1> HIDE DEF new, dst, rd
<1>5. Bytes(dst)
  <2>1. ASSUME NEW i \in 0..rd.count - 1 PROVE dst[i] \in Nat
    <3>1. CASE i \in done..done + n - 1
      <4>1. i - done \in 0..n - 1
        <5>1. i \in Int /\ done \in Int /\ n \in Int /\ done =< i /\ i =< done + n - 1
          BY <1>2, <3>1
        <5> HIDE DEF done
        <5> QED
          BY <5>1
      <4>2. chunk[i - done] \in Nat
        BY <4>1
      <4> QED
        BY <1>4, <3>1, <4>2
    <3>2. CASE i \notin done..done + n - 1
      BY <1>2, <1>4, <3>2 DEF Bytes
    <3> QED
      BY <3>1, <3>2
  <2> QED
    BY <1>4, <2>1 DEF Bytes
<1>6. ReadOK(new)
  <2>1. pc \in {"done", "turn"} /\ (pc = "turn" => done + n # rd.want)
    OBVIOUS
  <2>2. done + n \in 0..rd.want /\ (pc = "turn" => done + n < rd.want)
    BY <1>2, <2>1
  <2> HIDE DEF pc
  <2> QED
    BY <1>2, <1>3, <1>4, <1>5, <2>1, <2>2 DEF ReadOK
<1>7. ASSUME Written(disk), BuffersOK
      PROVE  BufferOK(new)
  <2>1. ASSUME NEW i \in 0..done + n - 1
        PROVE  dst[i] = disk.guest[rd.pos + i]
    <3>1. i \in 0..rd.count - 1
      BY <1>2
    <3>2. CASE i \in done..done + n - 1
      <4>1. i - done \in 0..n - 1 /\ Guest(r) + (i - done) = rd.pos + i
        BY <1>2, <3>2
      <4>2. disk.guest[Guest(r) + (i - done)] = chunk[i - done]
        BY <1>7, <4>1
      <4> QED
        BY <1>4, <3>1, <3>2, <4>1, <4>2
    <3>3. CASE i \notin done..done + n - 1
      <4>1. i \in 0..done - 1
        BY <1>2, <3>3
      <4>2. rd.dst[i] = disk.guest[rd.pos + i]
        BY <1>7, <4>1 DEF BuffersOK, BufferOK, rd
      <4> QED
        BY <1>4, <3>1, <3>3, <4>2
    <3> QED
      BY <3>2, <3>3
  <2>2. pc # "unpack" /\ (pc = "done" => done + n = rd.want)
    OBVIOUS
  <2> HIDE DEF pc, done
  <2>3. ASSUME NEW i \in 0..new.produced - 1
        PROVE  new.dst[i] = disk.guest[new.pos + i]
    <3>1. i \in 0..done + n - 1
      <4>1. new.produced = done + n /\ done \in Int /\ n \in Int
        BY <1>2, <1>3
      <4> QED
        BY <4>1
    <3>2. dst[i] = disk.guest[rd.pos + i]
      BY <2>1, <3>1
    <3> QED
      BY <1>3, <3>2
  <2>4. new.pc = "done" => ~ (new.produced < new.want)
    BY <1>2, <1>3, <2>2
  <2>5. new.pc # "unpack"
    BY <1>3, <2>2
  <2> QED
    BY <2>3, <2>4, <2>5 DEF BufferOK
<1> QED
  BY <1>1, <1>6, <1>7, OthersStay

(* A read that ends before a byte the image has lost.                      *)
LEMMA StopIsSound ==
  ASSUME ReadsOK, NEW r \in Readers, reader[r].pc = "turn",
         reader' = [reader EXCEPT ![r].pc = "done"], UNCHANGED <<name, mounted>>,
         Written(disk) /\ BuffersOK => disk.guest[Guest(r)] = -1
  PROVE  Sound
<1> DEFINE rd == reader[r]
           new == [rd EXCEPT !.pc = "done"]
<1>1. ReadOK(rd) /\ reader' = [reader EXCEPT ![r] = new]
  BY DEF ReadsOK
<1>2. /\ DOMAIN new = {"pc", "pos", "count", "want", "produced", "dst", "place"}
      /\ new.produced = rd.produced /\ new.pc = "done" /\ new.dst = rd.dst
      /\ new.pos = rd.pos /\ new.count = rd.count /\ new.want = rd.want
  BY <1>1 DEF ReadOK
<1> HIDE DEF new
<1>3. ReadOK(new)
  BY <1>1, <1>2 DEF ReadOK
<1>4. ASSUME Written(disk), BuffersOK
      PROVE  BufferOK(new)
  <2>1. BufferOK(rd) /\ disk.guest[rd.pos + rd.produced] = -1
    BY <1>4 DEF BuffersOK, Guest
  <2> QED
    BY <1>2, <2>1 DEF BufferOK
<1> QED
  BY <1>1, <1>3, <1>4, OthersStay

(* A turn that puts what its place serves in the buffer, or ends the read. *)
LEMMA TurnIsSound ==
  ASSUME ReadsOK, MountInv, NEW r \in Readers, reader[r].pc \in {"turn", "unpack"},
         NEW place, NEW bytes, PlaceOK(place, Left(r)),
         place.from = "unit" => Bytes(bytes),
         \/ place.from # "nowhere" /\ Advances(r, place.n, ChunkOf(place, bytes))
         \/ /\ place.from = "nowhere" /\ reader[r].pc = "turn"
            /\ reader' = [reader EXCEPT ![r].pc = "done"],
         UNCHANGED <<name, mounted>>,
         Written(disk) /\ BuffersOK => Shows(place, bytes, disk.guest, Guest(r))
  PROVE  Sound
<1>1. CASE place.from # "nowhere"
  <2> DEFINE n == place.n
             chunk == ChunkOf(place, bytes)
  <2>1. n \in 1..Left(r)
    BY <1>1 DEF PlaceOK
  <2>2. ASSUME NEW i \in 0..n - 1 PROVE ByteAt(place, bytes, i) \in Nat
    <3>1. CASE place.from = "zeros"
      BY <3>1 DEF ByteAt
    <3>2. CASE place.from = "file"
      <4>1. /\ place.base \in Nat /\ place.held \in Nat /\ place.at + i \in Int
            /\ ByteAt(place, bytes, i) = HostByte(place.base, place.held, place.at + i)
        BY <2>1, <3>2 DEF PlaceOK, ByteAt
      <4> QED
        BY <4>1 DEF HostByte
    <3>3. CASE place.from = "unit"
      BY <3>3 DEF ByteAt, UnitByte, Bytes
    <3> QED
      BY <1>1, <3>1, <3>2, <3>3 DEF PlaceOK
  <2>3. chunk \in [0..n - 1 -> Nat]
    BY <2>2 DEF ChunkOf
  <2>4. Written(disk) /\ BuffersOK => \A i \in 0..n - 1 : disk.guest[Guest(r) + i] = chunk[i]
    BY <1>1 DEF Shows, ChunkOf
  <2>5. Advances(r, n, chunk)
    BY <1>1
  <2> HIDE DEF n, chunk
  <2> QED
    BY <2>1, <2>3, <2>4, <2>5, AdvanceIsSound
<1>2. CASE place.from = "nowhere"
  <2>1. Written(disk) /\ BuffersOK => disk.guest[Guest(r)] = -1
    BY <1>2 DEF Shows
  <2> QED
    BY <1>2, <2>1, StopIsSound
<1> QED
  BY <1>1, <1>2

(* The three ways the model puts a chunk in the buffer.                    *)
LEMMA ZerosAdvance ==
  ASSUME NEW r \in Readers, NEW place, place.from = "zeros", place.n \in Nat, NEW bytes,
         PutZeros(r, place.n), reader[r].produced \in Nat
  PROVE  Advances(r, place.n, ChunkOf(place, bytes))
<1> DEFINE rd == reader[r]
           done == rd.produced
           n == place.n
           chunk == ChunkOf(place, bytes)
<1>1. \A i \in 0..n - 1 : chunk[i] = 0
  BY DEF ChunkOf, ByteAt
<1> HIDE DEF chunk
<1>2. [i \in DOMAIN rd.dst |-> IF i \in done..done + n - 1 THEN 0 ELSE rd.dst[i]]
        = [i \in DOMAIN rd.dst |-> IF i \in done..done + n - 1 THEN chunk[i - done] ELSE rd.dst[i]]
  <2>1. \A i \in done..done + n - 1 : i - done \in 0..n - 1
    OBVIOUS
  <2> QED
    BY <1>1, <2>1
<1> QED
  BY <1>2 DEF PutZeros, Put, Advances, chunk

(* Bytes of an inflated unit are such a chunk,                             *)
LEMMA UnitAdvances ==
  ASSUME NEW r \in Readers, NEW place, place.from = "unit", place.n \in Nat, NEW bytes,
         PutUnit(r, bytes, place.at, place.n), reader[r].produced \in Nat
  PROVE  Advances(r, place.n, ChunkOf(place, bytes))
<1> DEFINE rd == reader[r]
           done == rd.produced
           n == place.n
           at == place.at
           chunk == ChunkOf(place, bytes)
<1>1. \A i \in 0..n - 1 : chunk[i] = UnitByte(bytes, at + i)
  BY DEF ChunkOf, ByteAt
<1> HIDE DEF chunk
<1>2. [i \in DOMAIN rd.dst |-> IF i \in done..done + n - 1 THEN UnitByte(bytes, at + (i - done))
                               ELSE rd.dst[i]]
        = [i \in DOMAIN rd.dst |-> IF i \in done..done + n - 1 THEN chunk[i - done] ELSE rd.dst[i]]
  <2>1. \A i \in done..done + n - 1 : i - done \in 0..n - 1
    OBVIOUS
  <2> QED
    BY <1>1, <2>1
<1> QED
  BY <1>2 DEF PutUnit, Put, Advances, chunk

(* and so are bytes of the file.                                           *)
LEMMA FileAdvances ==
  ASSUME NEW r \in Readers, NEW place, place.from = "file", place.n \in Nat, NEW bytes,
         Put(r, place.n, LAMBDA i : HostByte(place.base, place.held, place.at + i)),
         reader[r].produced \in Nat
  PROVE  Advances(r, place.n, ChunkOf(place, bytes))
<1> DEFINE rd == reader[r]
           done == rd.produced
           n == place.n
           chunk == ChunkOf(place, bytes)
<1>1. \A i \in 0..n - 1 : chunk[i] = HostByte(place.base, place.held, place.at + i)
  BY DEF ChunkOf, ByteAt
<1> HIDE DEF chunk
<1>2. [i \in DOMAIN rd.dst |-> IF i \in done..done + n - 1
                                 THEN HostByte(place.base, place.held, place.at + (i - done))
                                 ELSE rd.dst[i]]
        = [i \in DOMAIN rd.dst |-> IF i \in done..done + n - 1 THEN chunk[i - done] ELSE rd.dst[i]]
  <2>1. \A i \in done..done + n - 1 : i - done \in 0..n - 1
    OBVIOUS
  <2> QED
    BY <1>1, <2>1
<1> QED
  BY <1>2 DEF Put, Advances, chunk

(* A turn that needs no cache is sound when its place serves the disk.     *)
LEMMA FetchIsSound ==
  ASSUME ReadsOK, MountInv, NEW r \in Readers, reader[r].pc = "turn",
         NEW place, PlaceOK(place, Left(r)), place.from # "unit", Fetch(r, place),
         UNCHANGED <<name, mounted>>,
         Written(disk) /\ BuffersOK => Shows(place, NoBytes, disk.guest, Guest(r))
  PROVE  Sound
<1>1. reader[r].produced \in Nat
  BY DEF ReadsOK, ReadOK
<1>2. place.from # "nowhere" => place.n \in Nat
  BY DEF PlaceOK
<1>3. \/ place.from # "nowhere" /\ Advances(r, place.n, ChunkOf(place, NoBytes))
      \/ place.from = "nowhere" /\ reader' = [reader EXCEPT ![r].pc = "done"]
  <2>1. CASE place.from = "zeros" /\ PutZeros(r, place.n)
    BY <1>1, <1>2, <2>1, ZerosAdvance
  <2>2. CASE place.from = "file"
             /\ Put(r, place.n, LAMBDA i : HostByte(place.base, place.held, place.at + i))
    BY <1>1, <1>2, <2>2, FileAdvances
  <2>3. CASE place.from = "nowhere" /\ reader' = [reader EXCEPT ![r].pc = "done"]
    BY <2>3
  <2> QED
    BY <2>1, <2>2, <2>3 DEF Fetch
<1> QED
  BY <1>3, TurnIsSound

(* Bytes of an inflated unit are put in the buffer.                        *)
LEMMA UnitIsSound ==
  ASSUME ReadsOK, MountInv, NEW r \in Readers, reader[r].pc \in {"turn", "unpack"},
         NEW place, PlaceOK(place, Left(r)), place.from = "unit", NEW bytes, Bytes(bytes),
         PutUnit(r, bytes, place.at, place.n), UNCHANGED <<name, mounted>>,
         Written(disk) /\ BuffersOK => Shows(place, bytes, disk.guest, Guest(r))
  PROVE  Sound
<1>1. reader[r].produced \in Nat
  BY DEF ReadsOK, ReadOK
<1>2. place.n \in Nat
  BY DEF PlaceOK
<1>3. Advances(r, place.n, ChunkOf(place, bytes))
  BY <1>1, <1>2, UnitAdvances
<1> QED
  BY <1>3, TurnIsSound

-----------------------------------------------------------------------------
(* A cluster without a table.                                              *)
LEMMA HoleIsSound ==
  ASSUME ReadsOK, MountInv, NEW r \in Readers, QcowHole(r)
  PROVE  Sound
<1> DEFINE d == disk
           p == Guest(r)
           n == Left(r)
           m == Least(n, d.cluster - (p % d.cluster))
           place == Zeros(m)
<1>1. reader[r].pc = "turn" /\ d.kind = "qcow" /\ L2At(d, p) = 0 /\ UNCHANGED <<name, mounted>>
      /\ PutZeros(r, m)
  BY DEF QcowHole, Turning
<1>2. /\ p \in Nat /\ n \in Nat \ {0} /\ p + n =< d.size
      /\ FileTyped(d) /\ QcowTyped(d) /\ QcowAccepts(d)
  BY <1>1, TurnAsks DEF GuestSize, Typed, Accepts
<1>3. Written(d) => QcowWritten(d)
  BY <1>1 DEF Written
<1> HIDE DEF d, p, n
<1>4. m \in 1..n /\ (QcowWritten(d) => \A x \in 0..m - 1 : d.guest[p + x] = 0)
  BY <1>1, <1>2, QcowHoleServes
<1> HIDE DEF m
<1>5. /\ PlaceOK(place, n) /\ place.from = "zeros" /\ place.n = m
      /\ Written(d) => Shows(place, NoBytes, d.guest, p)
  BY <1>2, <1>3, <1>4, ZerosShow, PlacesSay
<1> HIDE DEF place
<1>6. Advances(r, place.n, ChunkOf(place, NoBytes))
  <2>1. reader[r].produced \in Nat /\ place.n \in Nat
    BY <1>4, <1>5 DEF ReadsOK, ReadOK
  <2> QED
    BY <1>1, <1>5, <2>1, ZerosAdvance
<1> QED
  BY <1>1, <1>5, <1>6, TurnIsSound DEF d, p, n

(* A cluster found through its table, be it read or left for unpacking.    *)
LEMMA QcowFetchIsSound ==
  ASSUME ReadsOK, MountInv, NEW r \in Readers, Turning(r, {"qcow"}), L2At(disk, Guest(r)) # 0,
         QcowFetch(r, disk.tables[L2At(disk, Guest(r))]), UNCHANGED <<name, mounted>>
  PROVE  Sound
<1> DEFINE d == disk
           p == Guest(r)
           n == Left(r)
           place == QcowPlace(d, p, n, d.tables[L2At(d, p)])
           bytes == d.packs[place.key]
<1>1. reader[r].pc = "turn" /\ d.kind = "qcow"
  BY DEF Turning
<1>2. /\ p \in Nat /\ n \in Nat \ {0} /\ p + n =< d.size
      /\ FileTyped(d) /\ QcowTyped(d) /\ QcowAccepts(d) /\ mounted = "yes"
  BY <1>1, TurnAsks DEF GuestSize, Typed, Accepts
<1>3. Written(d) => QcowWritten(d)
  BY <1>1 DEF Written
<1>4. \/ Fetch(r, place)
      \/ place.from = "unit" /\ reader' = [reader EXCEPT ![r].pc = "unpack", ![r].place = place]
  BY DEF QcowFetch
<1>5. /\ PlaceOK(place, n) /\ place.from # "nowhere" /\ (place.from = "unit" => Bytes(bytes))
      /\ QcowWritten(d) => Shows(place, bytes, d.guest, p)
  <2> HIDE DEF d, p, n
  <2>1. L2At(d, p) # 0
    BY DEF d, p
  <2> QED
    BY <1>2, <2>1, QcowServes
<1> HIDE DEF place
<1>6. CASE Fetch(r, place)
  <2>1. place.from # "unit"
    BY <1>6 DEF Fetch
  <2>2. Shows(place, bytes, d.guest, p) => Shows(place, NoBytes, d.guest, p)
    <3> HIDE DEF bytes
    <3>1. place.from \in {"zeros", "file", "nowhere"}
      BY <1>5, <2>1 DEF PlaceOK
    <3>2. place.from # "nowhere" =>
            \A i : ByteAt(place, bytes, i) = ByteAt(place, NoBytes, i)
      BY <3>1 DEF ByteAt
    <3> QED
      BY <3>1, <3>2 DEF Shows
  <2> QED
    BY <1>1, <1>3, <1>5, <1>6, <2>1, <2>2, FetchIsSound
<1>7. CASE place.from = "unit" /\ reader' = [reader EXCEPT ![r].pc = "unpack", ![r].place = place]
  <2> DEFINE rd == reader[r]
             new == [rd EXCEPT !.pc = "unpack", !.place = place]
  <2>1. ReadOK(rd) /\ reader' = [reader EXCEPT ![r] = new]
    BY <1>7 DEF ReadsOK
  <2>2. /\ DOMAIN new = {"pc", "pos", "count", "want", "produced", "dst", "place"}
        /\ new.produced = rd.produced /\ new.pc = "unpack" /\ new.dst = rd.dst
        /\ new.pos = rd.pos /\ new.count = rd.count /\ new.want = rd.want /\ new.place = place
    BY <2>1 DEF ReadOK
  <2> HIDE DEF new
  <2>3. /\ place.n \in 1..rd.want - rd.produced /\ place.key \in Nat /\ place.at \in Nat
        /\ Bytes(bytes)
    BY <1>5, <1>7 DEF PlaceOK, Left
  <2>4. ReadOK(new)
    BY <1>1, <2>1, <2>2, <2>3 DEF ReadOK
  <2>5. ASSUME Written(disk), BuffersOK
        PROVE  BufferOK(new)
    <3>1. BufferOK(rd)
      BY <2>5 DEF BuffersOK
    <3>2. \A i \in 0..place.n - 1 :
            d.guest[rd.pos + rd.produced + i] = UnitByte(bytes, place.at + i)
      BY <1>3, <1>5, <1>7, <2>5 DEF Shows, ByteAt, Guest
    <3> QED
      BY <2>2, <3>1, <3>2 DEF BufferOK
  <2> QED
    BY <2>1, <2>4, <2>5, OthersStay
<1> QED
  BY <1>4, <1>6, <1>7

(* The table found in the cache is the one in the file.                    *)
LEMMA HitIsSound ==
  ASSUME ReadsOK, MountInv, CachesInv, NEW r \in Readers, QcowHit(r)
  PROVE  Sound
<1> DEFINE at == L2At(disk, Guest(r))
           i == CHOOSE i \in Hits(at) : \A j \in Hits(at) : i =< j
<1>1. Turning(r, {"qcow"}) /\ disk.kind = "qcow" /\ at # 0 /\ Hits(at) # {}
      /\ QcowFetch(r, slots[i].table) /\ UNCHANGED <<name, mounted>>
  BY DEF QcowHit, Turning
<1>2. i \in 1..Slots /\ slots[i].at = at /\ slots[i].table # NoBytes
  BY <1>1, HitSlot, SlotsAssumption DEF Hits
<1> HIDE DEF i
<1>3. slots[i].table = disk.tables[at]
  BY <1>1, <1>2 DEF CachesInv, SlotsInv
<1> QED
  BY <1>1, <1>3, QcowFetchIsSound

(* A table just read is the one in the file.                               *)
LEMMA MissIsSound ==
  ASSUME ReadsOK, MountInv, NEW r \in Readers, QcowMiss(r)
  PROVE  Sound
<1>1. /\ Turning(r, {"qcow"}) /\ L2At(disk, Guest(r)) # 0
      /\ QcowFetch(r, disk.tables[L2At(disk, Guest(r))]) /\ UNCHANGED <<name, mounted>>
  BY DEF QcowMiss
<1> QED
  BY <1>1, QcowFetchIsSound

(* The cluster unpacked is the one that was waited for.                    *)
LEMMA UnpackIsSound ==
  ASSUME ReadsOK, MountInv, CachesInv, NEW r \in Readers, QcowUnpack(r)
  PROVE  Sound
<1> DEFINE rd == reader[r]
           k == rd.place.key
           at == rd.place.at
           n == rd.place.n
           place == Unit(k, at, n)
           bytes == IF unit.key = k THEN unit.bytes ELSE disk.packs[k]
<1>1. rd.pc = "unpack" /\ UNCHANGED <<name, mounted>> /\ PutUnit(r, bytes, at, n)
  BY DEF QcowUnpack
<1>2. /\ disk.kind = "qcow" /\ n \in 1..Left(r) /\ k \in Nat /\ at \in Nat
      /\ Bytes(disk.packs[k])
  BY <1>1 DEF ReadsOK, ReadOK, Left
<1>3. bytes = disk.packs[k]
  <2>1. unit.key = k => unit.bytes = disk.packs[k]
    BY <1>2 DEF CachesInv, UnitInv
  <2> QED
    BY <2>1
<1> HIDE DEF bytes, k, at, n
<1>4. Left(r) \in Nat \ {0}
  BY <1>1, TurnAsks
<1>5. place.from = "unit" /\ place.n = n /\ place.at = at
  BY PlacesSay
<1>6. PlaceOK(place, Left(r))
  BY <1>2, <1>4, UnitShows
<1>7. Written(disk) /\ BuffersOK => Shows(place, bytes, disk.guest, Guest(r))
  <2>1. Written(disk) /\ BuffersOK =>
          \A i \in 0..n - 1 : disk.guest[Guest(r) + i] = UnitByte(bytes, at + i)
    BY <1>1, <1>3 DEF BuffersOK, BufferOK, Guest, k, at, n
  <2> QED
    BY <1>2, <1>4, <2>1, UnitShows
<1> HIDE DEF place
<1> QED
  BY <1>1, <1>2, <1>3, <1>5, <1>6, <1>7, UnitIsSound

-----------------------------------------------------------------------------
(* A bitmap is kept only where it lies in the file, so that what a block   *)
(* has kept is what its bitmap would say if it were read again.            *)
KeptInside == disk.kind = "vhd" => \A b \in DOMAIN kept : VhdBitmapInside(disk, b)

(* A turn of a dynamic VHD, with the bitmap kept or read again.            *)
LEMMA VhdIsSound ==
  ASSUME ReadsOK, MountInv, CachesInv, KeptInside, NEW r \in Readers, VhdTurn(r)
  PROVE  Sound /\ KeptInside'
<1> DEFINE d == disk
           p == Guest(r)
           n == Left(r)
           b == p \div d.block
           marked == IF ~VhdMaps(d, b) THEN {}
                     ELSE IF b \in DOMAIN kept THEN kept[b] ELSE VhdBitmap(d, b)
           place == VhdPlace(d, p, n, marked)
<1>1. /\ reader[r].pc = "turn" /\ d.kind = "vhd" /\ ~VhdFixed(d) /\ UNCHANGED <<name, mounted>>
      /\ kept' = IF VhdMaps(d, b) /\ VhdBitmapInside(d, b) THEN Keep(kept, b, marked) ELSE kept
      /\ Fetch(r, place)
  BY DEF VhdTurn, Turning
<1>2. /\ p \in Nat /\ n \in Nat \ {0} /\ p + n =< VhdSize(d)
      /\ FileTyped(d) /\ VhdTyped(d) /\ VhdAccepts(d)
  BY <1>1, TurnAsks DEF GuestSize, Typed, Accepts
<1>3. Written(d) => VhdWritten(d)
  BY <1>1 DEF Written
<1>4. marked = IF VhdMaps(d, b) THEN VhdBitmap(d, b) ELSE {}
  <2>1. b \in DOMAIN kept => kept[b] = VhdBitmap(d, b)
    BY <1>1 DEF CachesInv, KeptInv, KeptInside, VhdBitmap
  <2> QED
    BY <2>1
<1>5. KeptInside'
  <2>1. disk' = disk
    BY <1>1 DEF disk
  <2>2. CASE VhdMaps(d, b) /\ VhdBitmapInside(d, b)
    <3>1. DOMAIN kept' = DOMAIN kept \cup {b}
      BY <1>1, <2>2 DEF Keep
    <3> HIDE DEF b
    <3> QED
      BY <1>1, <2>1, <2>2, <3>1 DEF KeptInside
  <2>3. CASE ~ (VhdMaps(d, b) /\ VhdBitmapInside(d, b))
    <3>1. kept' = kept
      BY <1>1, <2>3
    <3> QED
      BY <2>1, <3>1 DEF KeptInside
  <2> QED
    BY <2>2, <2>3
<1> HIDE DEF d, p, n, marked
<1>6. /\ PlaceOK(place, n) /\ place.from # "unit"
      /\ VhdWritten(d) => Shows(place, NoBytes, d.guest, p)
  BY <1>1, <1>2, <1>4, VhdServes
<1> HIDE DEF place
<1>7. Sound
  BY <1>1, <1>3, <1>6, FetchIsSound DEF d, p, n
<1> QED
  BY <1>5, <1>7

(* The stores that keep no cache.                                          *)
LEMMA PlainServes ==
  ASSUME NEW d, Typed(d), Accepts(d), NEW p \in Nat, NEW n \in Nat \ {0}, p + n =< GuestSize(d),
         \/ d.kind \in {"vhdx", "vdi", "parallels", "sparse"}
         \/ d.kind = "vhd" /\ VhdFixed(d)
  PROVE  LET place == PlainPlace(d, p, n)
         IN  /\ PlaceOK(place, n) /\ place.from # "unit"
             /\ Written(d) => Shows(place, NoBytes, d.guest, p)
<1> DEFINE place == PlainPlace(d, p, n)
           Holds == /\ PlaceOK(place, n) /\ place.from # "unit"
                    /\ Written(d) => Shows(place, NoBytes, d.guest, p)
<1>1. FileTyped(d)
  BY DEF Typed
<1>2. CASE d.kind = "vhdx"
  <2>1. /\ VhdxTyped(d) /\ VhdxAccepts(d) /\ (Written(d) <=> VhdxWritten(d))
        /\ place = VhdxPlace(d, p, n) /\ p + n =< d.size
    BY <1>2 DEF Typed, Accepts, Written, GuestSize, PlainPlace
  <2> HIDE DEF place
  <2> QED
    BY <1>1, <2>1, VhdxServes DEF place
<1>3. CASE d.kind = "vdi"
  <2>1. /\ VdiTyped(d) /\ VdiAccepts(d) /\ (Written(d) <=> VdiWritten(d))
        /\ place = VdiPlace(d, p, n) /\ p + n =< d.size
    BY <1>3 DEF Typed, Accepts, Written, GuestSize, PlainPlace
  <2> HIDE DEF place
  <2> QED
    BY <1>1, <2>1, VdiServes DEF place
<1>4. CASE d.kind = "parallels"
  <2>1. /\ ParallelsTyped(d) /\ ParallelsAccepts(d) /\ (Written(d) <=> ParallelsWritten(d))
        /\ place = ParallelsPlace(d, p, n) /\ p + n =< d.size * Sector
    BY <1>4 DEF Typed, Accepts, Written, GuestSize, PlainPlace
  <2> HIDE DEF place
  <2> QED
    BY <1>1, <2>1, ParallelsServes DEF place
<1>5. CASE d.kind = "sparse"
  <2>1. /\ SparseTyped(d) /\ SparseAccepts(d) /\ (Written(d) <=> SparseWritten(d, d.guest))
        /\ place = SparsePlace(d, p, n) /\ p + n =< d.sectors * Sector
    BY <1>5 DEF Typed, Accepts, Written, GuestSize, PlainPlace
  <2> HIDE DEF place
  <2> QED
    BY <1>1, <2>1, SparseServes DEF place
<1>6. CASE d.kind = "vhd" /\ VhdFixed(d)
  <2>1. /\ VhdTyped(d) /\ (Written(d) <=> VhdWritten(d))
        /\ place = Window(d, p, n) /\ p + n =< VhdSize(d)
    BY <1>6 DEF Typed, Written, GuestSize, PlainPlace
  <2> HIDE DEF place
  <2> QED
    BY <1>1, <1>6, <2>1, VhdFixedServes DEF place
<1> QED
  BY <1>2, <1>3, <1>4, <1>5, <1>6

(* A turn of a store without a cache.                                      *)
LEMMA PlainIsSound ==
  ASSUME ReadsOK, MountInv, NEW r \in Readers, PlainTurn(r)
  PROVE  Sound
<1> DEFINE d == disk
           p == Guest(r)
           n == Left(r)
           place == PlainPlace(d, p, n)
<1>1. /\ reader[r].pc = "turn" /\ UNCHANGED <<name, mounted>> /\ Fetch(r, place)
      /\ \/ d.kind \in {"vhdx", "vdi", "parallels", "sparse"}
         \/ d.kind = "vhd" /\ VhdFixed(d)
  BY DEF PlainTurn, Turning
<1>2. /\ p \in Nat /\ n \in Nat \ {0} /\ p + n =< GuestSize(d) /\ Typed(d) /\ Accepts(d)
  BY <1>1, TurnAsks
<1> HIDE DEF d, p, n
<1>3. /\ PlaceOK(place, n) /\ place.from # "unit"
      /\ Written(d) => Shows(place, NoBytes, d.guest, p)
  BY <1>1, <1>2, PlainServes
<1> HIDE DEF place
<1> QED
  BY <1>1, <1>3, FetchIsSound DEF d, p, n

(* The grain kept is the one the index names, so it need not be inflated   *)
(* again to be right.                                                      *)
LEMMA StreamIsSound ==
  ASSUME ReadsOK, MountInv, CachesInv, NEW r \in Readers, StreamTurn(r)
  PROVE  Sound
<1> DEFINE d == disk
           p == Guest(r)
           n == Left(r)
           place == StreamPlace(d, p, n)
           k == place.key
           bytes == IF unit.key = k THEN unit.bytes ELSE StreamBytes(d, k)
<1>1. /\ reader[r].pc = "turn" /\ d.kind = "stream" /\ UNCHANGED <<name, mounted>>
      /\ unit' = [key |-> k, bytes |-> bytes] /\ PutUnit(r, unit'.bytes, place.at, place.n)
  BY DEF StreamTurn, Turning
<1>2. /\ p \in Nat /\ n \in Nat \ {0} /\ p + n =< d.sectors * Sector
      /\ StreamTyped(d) /\ StreamAccepts(d)
  BY <1>1, TurnAsks DEF GuestSize, Typed, Accepts
<1>3. Written(d) => StreamWritten(d, d.guest)
  BY <1>1 DEF Written
<1>4. k # -1 => bytes = StreamBytes(d, k)
  BY <1>1 DEF CachesInv, UnitInv
<1> HIDE DEF d, p, n, bytes
<1>5. /\ PlaceOK(place, n) /\ place.from = "unit"
      /\ StreamWritten(d, d.guest) => Shows(place, StreamBytes(d, k), d.guest, p)
  BY <1>2, StreamServes
<1> HIDE DEF place
<1>6. bytes = StreamBytes(d, k) /\ Bytes(bytes)
  <2>1. k # -1
    BY <1>5 DEF PlaceOK
  <2>2. Bytes(StreamBytes(d, k))
    BY <1>2, StreamGrains
  <2> QED
    BY <1>4, <2>1, <2>2
<1>7. PutUnit(r, bytes, place.at, place.n)
  <2>1. unit'.bytes = bytes
    BY <1>1
  <2> QED
    BY <1>1, <2>1
<1>8. Written(d) => Shows(place, bytes, d.guest, p)
  BY <1>3, <1>5, <1>6
<1> HIDE DEF k
<1> QED
  BY <1>1, <1>5, <1>6, <1>7, <1>8, UnitIsSound DEF d, p, n

(* A turn of a descriptor: the grain an extent keeps is the one its index  *)
(* names, whatever the other extents keep.                                 *)
LEMMA DescriptorIsSound ==
  ASSUME ReadsOK, MountInv, CachesInv, NEW r \in Readers, DescriptorTurn(r)
  PROVE  Sound
<1> DEFINE d == disk
           p == Guest(r)
           n == Left(r)
           k == ExtentAt(d, p)
           place == ExtentPlace(d, p, n)
           grain == StreamBytes(d.lines[k].image, place.key)
           last == IF k \in DOMAIN kept THEN kept[k] ELSE EmptyUnit
           bytes == IF last.key = place.key THEN last.bytes ELSE grain
<1>1. /\ reader[r].pc = "turn" /\ d.kind = "descriptor" /\ UNCHANGED <<name, mounted>>
      /\ \/ Fetch(r, place)
         \/ place.from = "unit" /\ PutUnit(r, bytes, place.at, place.n)
  BY DEF DescriptorTurn, Turning
<1>2. /\ p \in Nat /\ n \in Nat \ {0} /\ p + n =< DescriptorSize(d)
      /\ DescriptorTyped(d) /\ DescriptorAccepts(d)
  BY <1>1, TurnAsks DEF GuestSize, Typed, Accepts
<1>3. Written(d) => DescriptorWritten(d)
  BY <1>1 DEF Written
<1>4. last.key # -1 => last.bytes = StreamBytes(d.lines[k].image, last.key)
  BY <1>1 DEF CachesInv, KeptInv, EmptyUnit
<1> HIDE DEF d, p, n, last
<1>5. /\ PlaceOK(place, n) /\ (place.from = "unit" => Bytes(grain))
      /\ \A b : DescriptorWritten(d) /\ (place.from = "unit" => b = grain)
                 => Shows(place, b, d.guest, p)
  BY <1>2, DescriptorServes
<1> HIDE DEF place, k
<1>6. CASE Fetch(r, place)
  <2>1. place.from # "unit"
    BY <1>6 DEF Fetch
  <2>2. Written(d) => Shows(place, NoBytes, d.guest, p)
    BY <1>3, <1>5, <2>1
  <2> QED
    BY <1>1, <1>5, <1>6, <2>1, <2>2, FetchIsSound DEF d, p, n
<1>7. CASE place.from = "unit" /\ PutUnit(r, bytes, place.at, place.n)
  <2>1. bytes = grain
    <3>1. place.key # -1
      BY <1>5, <1>7 DEF PlaceOK
    <3> QED
      BY <1>4, <3>1
  <2>2. Bytes(bytes) /\ (Written(d) => Shows(place, bytes, d.guest, p))
    BY <1>3, <1>5, <1>7, <2>1
  <2> HIDE DEF bytes
  <2> QED
    BY <1>1, <1>5, <1>7, <2>2, UnitIsSound DEF d, p, n
<1> QED
  BY <1>1, <1>6, <1>7

(* A run that inflates is kept; one that does not ends the read.           *)
LEMMA DmgIsSound ==
  ASSUME ReadsOK, MountInv, CachesInv, NEW r \in Readers, DmgTurn(r)
  PROVE  Sound
<1> DEFINE d == disk
           p == Guest(r)
           n == Left(r)
           place == DmgPlace(d, p, n)
           k == place.key
           bytes == IF k \in DOMAIN kept THEN kept[k] ELSE d.packs[k]
<1>1. /\ reader[r].pc = "turn" /\ d.kind = "dmg" /\ UNCHANGED <<name, mounted>>
      /\ \/ Fetch(r, place)
         \/ place.from = "unit" /\ bytes # NoBytes /\ PutUnit(r, bytes, place.at, place.n)
         \/ place.from = "unit" /\ bytes = NoBytes /\ reader' = [reader EXCEPT ![r].pc = "done"]
  BY DEF DmgTurn, Turning
<1>2. /\ p \in Nat /\ n \in Nat \ {0} /\ p + n =< d.sectors * Sector
      /\ FileTyped(d) /\ DmgTyped(d)
  BY <1>1, TurnAsks DEF GuestSize, Typed
<1>3. Written(d) => DmgWritten(d)
  BY <1>1 DEF Written
<1>4. bytes = d.packs[k]
  BY <1>1 DEF CachesInv, KeptInv
<1> HIDE DEF d, p, n, bytes
<1>5. /\ PlaceOK(place, n) /\ (place.from = "unit" => Bytes(bytes))
      /\ DmgWritten(d) => IF place.from = "unit" /\ bytes = NoBytes THEN d.guest[p] = -1
                          ELSE Shows(place, bytes, d.guest, p)
  <2>1. /\ PlaceOK(place, n) /\ (place.from = "unit" => Bytes(d.packs[place.key]))
        /\ DmgWritten(d) =>
             IF place.from = "unit" /\ d.packs[place.key] = NoBytes THEN d.guest[p] = -1
             ELSE Shows(place, d.packs[place.key], d.guest, p)
    BY <1>2, DmgServes
  <2> HIDE DEF place
  <2> QED
    BY <1>4, <2>1
<1> HIDE DEF place, k
<1>6. CASE Fetch(r, place)
  <2>1. place.from # "unit"
    BY <1>6 DEF Fetch
  <2>2. Shows(place, bytes, d.guest, p) => Shows(place, NoBytes, d.guest, p)
    <3>1. place.from \in {"zeros", "file", "nowhere"}
      BY <1>5, <2>1 DEF PlaceOK
    <3>2. place.from # "nowhere" =>
            \A i : ByteAt(place, bytes, i) = ByteAt(place, NoBytes, i)
      BY <3>1 DEF ByteAt
    <3> QED
      BY <3>1, <3>2 DEF Shows
  <2>3. Written(d) => Shows(place, NoBytes, d.guest, p)
    BY <1>3, <1>5, <2>1, <2>2
  <2> QED
    BY <1>1, <1>5, <1>6, <2>1, <2>3, FetchIsSound DEF d, p, n
<1>7. CASE place.from = "unit" /\ bytes # NoBytes /\ PutUnit(r, bytes, place.at, place.n)
  <2>1. Written(d) => Shows(place, bytes, d.guest, p)
    BY <1>3, <1>5, <1>7
  <2> QED
    BY <1>1, <1>5, <1>7, <2>1, UnitIsSound DEF d, p, n
<1>8. CASE place.from = "unit" /\ bytes = NoBytes /\ reader' = [reader EXCEPT ![r].pc = "done"]
  <2>1. Written(d) => d.guest[p] = -1
    BY <1>3, <1>5, <1>8
  <2> QED
    BY <1>1, <1>8, <2>1, StopIsSound DEF d, p, n
<1> QED
  BY <1>1, <1>6, <1>7, <1>8

-----------------------------------------------------------------------------
(* A reader that asks for nothing has no claims.                           *)
LEMMA IdleIsOK == ReadOK(Idle) /\ BufferOK(Idle)
<1>1. /\ DOMAIN Idle = {"pc", "pos", "count", "want", "produced", "dst", "place"}
      /\ Idle.pc = "idle" /\ Idle.want = 0 /\ Idle.produced = 0 /\ Idle.dst = NoBytes
  BY DEF Idle
<1>2. Bytes(NoBytes)
  BY DEF Bytes, NoBytes
<1> QED
  BY <1>1, <1>2 DEF ReadOK, BufferOK

(* A new read asks for no more than the disk and the buffer have.          *)
LEMMA AskIsSound ==
  ASSUME ReadsOK, MountInv, NEW r \in Readers, NEW p \in Positions, NEW c \in Counts, Ask(r, p, c)
  PROVE  ReadsOK' /\ (BuffersOK => BuffersOK')
<1> DEFINE size == GuestSize(disk)
           want == IF p < 0 \/ c =< 0 \/ p >= size THEN 0 ELSE Least(c, size - p)
           dst == [i \in 0..c - 1 |-> 0]
           pc == IF want > 0 THEN "turn" ELSE "done"
           new == [Idle EXCEPT !.pc = pc, !.pos = p, !.count = c, !.want = want, !.dst = dst]
<1>1. /\ mounted = "yes" /\ UNCHANGED <<name, mounted>>
      /\ reader' = [reader EXCEPT ![r] = new]
  BY DEF Ask
<1>2. size \in Int /\ p \in Int /\ c \in Int
  BY <1>1, DiskTyped, GuestSizeIs, RequestsAssumption DEF MountInv
<1>3. want \in Nat /\ (want > 0 => p \in Nat /\ c \in Nat /\ want =< c /\ p + want =< size)
  <2> HIDE DEF size
  <2> QED
    BY <1>2 DEF Least
<1>4. /\ DOMAIN new = {"pc", "pos", "count", "want", "produced", "dst", "place"}
      /\ new.produced = 0 /\ new.pc = pc /\ new.dst = dst
      /\ new.pos = p /\ new.count = c /\ new.want = want
  BY DEF Idle
<1>5. Bytes(dst) /\ DOMAIN dst = 0..c - 1
  BY DEF Bytes
<1>6. pc \in {"turn", "done"} /\ (pc = "turn" => want > 0) /\ (pc = "done" => ~ (want > 0))
  OBVIOUS
<1> HIDE DEF want, dst, pc, new
<1>7. ReadOK(new)
  BY <1>1, <1>3, <1>4, <1>5, <1>6 DEF ReadOK, size
<1>8. BufferOK(new)
  BY <1>3, <1>4, <1>6 DEF BufferOK
<1>9. Sound
  BY <1>1, <1>7, <1>8, OthersStay
<1>10. BuffersOK => BuffersOK'
  <2>1. DOMAIN reader' = Readers /\ reader'[r] = new /\ disk' = disk
        /\ \A q \in Readers : q # r => reader'[q] = reader[q]
    BY <1>1 DEF ReadsOK, disk
  <2>2. ASSUME BuffersOK, NEW q \in Readers PROVE BufferOK(reader[q])'
    <3>1. BufferOK(reader'[q])
      BY <1>8, <2>1, <2>2 DEF BuffersOK
    <3> QED
      BY <2>1, <3>1 DEF BufferOK
  <2> QED
    BY <2>2 DEF BuffersOK
<1> QED
  BY <1>9, <1>10 DEF Sound

(* Returning forgets a read; opening finds no reader under way.            *)
LEMMA ReturnIsSound ==
  ASSUME ReadsOK, NEW r \in Readers, Return(r)
  PROVE  ReadsOK' /\ (BuffersOK => BuffersOK')
<1>1. reader' = [reader EXCEPT ![r] = Idle] /\ UNCHANGED <<name, mounted>>
  BY DEF Return
<1>2. Sound
  BY <1>1, IdleIsOK, OthersStay
<1>3. BuffersOK => BuffersOK'
  <2>1. DOMAIN reader' = Readers /\ reader'[r] = Idle /\ disk' = disk
        /\ \A q \in Readers : q # r => reader'[q] = reader[q]
    BY <1>1 DEF ReadsOK, disk
  <2>2. ASSUME BuffersOK, NEW q \in Readers PROVE BufferOK(reader[q])'
    <3>1. BufferOK(reader'[q])
      BY <2>1, <2>2, IdleIsOK DEF BuffersOK
    <3> QED
      BY <2>1, <3>1 DEF BufferOK
  <2> QED
    BY <2>2 DEF BuffersOK
<1> QED
  BY <1>2, <1>3 DEF Sound

(* Opening changes no read.                                                *)
LEMMA OpenIsSound ==
  ASSUME ReadsOK, Open \/ UNCHANGED vars
  PROVE  ReadsOK' /\ (BuffersOK => BuffersOK')
<1>1. reader' = reader /\ disk' = disk /\ (mounted = "yes" => mounted' = "yes")
  BY DEF Open, vars, disk
<1>2. ASSUME NEW q \in Readers PROVE ReadOK(reader[q])'
  <2>1. ReadOK(reader[q]) /\ reader'[q] = reader[q]
    BY <1>1 DEF ReadsOK
  <2> QED
    BY <1>1, <2>1 DEF ReadOK, GuestSize, VhdSize, VhdFixed, VhdFooter, Bytes
<1>3. ASSUME BuffersOK, NEW q \in Readers PROVE BufferOK(reader[q])'
  <2>1. BufferOK(reader[q]) /\ reader'[q] = reader[q]
    BY <1>1, <1>3 DEF BuffersOK
  <2> QED
    BY <1>1, <2>1 DEF BufferOK
<1> QED
  BY <1>1, <1>2, <1>3 DEF ReadsOK, BuffersOK

(* Bitmaps are kept by the turns of a VHD alone.                           *)
LEMMA KeptStaysInside ==
  ASSUME KeptInside, NEW r \in Readers,
         \/ QcowHole(r) \/ QcowHit(r) \/ QcowMiss(r) \/ QcowUnpack(r)
         \/ PlainTurn(r) \/ StreamTurn(r) \/ DescriptorTurn(r) \/ DmgTurn(r) \/ Return(r)
         \/ \E p \in Positions, c \in Counts : Ask(r, p, c)
  PROVE  KeptInside'
<1>1. disk' = disk /\ (kept' = kept \/ disk.kind \in {"descriptor", "dmg"})
  BY DEF QcowHole, QcowHit, QcowMiss, QcowUnpack, PlainTurn, StreamTurn, DescriptorTurn, DmgTurn,
         Turning, Return, Ask, caches, disk
<1> QED
  BY <1>1 DEF KeptInside

(* Every turn is sound, of whatever disk the read is.                      *)
LEMMA TurnsAreSound ==
  ASSUME ReadsOK, MountInv, CachesInv, KeptInside, NEW r \in Readers, Turn(r), ~Return(r)
  PROVE  Sound /\ KeptInside' /\ Accepts(disk)
<1>1. CASE QcowHole(r)
  <2>1. reader[r].pc \in {"turn", "unpack"}
    BY <1>1 DEF QcowHole, Turning
  <2> QED
    BY <1>1, <2>1, HoleIsSound, KeptStaysInside, TurnAsks
<1>2. CASE QcowHit(r)
  <2>1. reader[r].pc \in {"turn", "unpack"}
    BY <1>2 DEF QcowHit, Turning
  <2> QED
    BY <1>2, <2>1, HitIsSound, KeptStaysInside, TurnAsks
<1>3. CASE QcowMiss(r)
  <2>1. reader[r].pc \in {"turn", "unpack"}
    BY <1>3 DEF QcowMiss, Turning
  <2> QED
    BY <1>3, <2>1, MissIsSound, KeptStaysInside, TurnAsks
<1>4. CASE QcowUnpack(r)
  <2>1. reader[r].pc \in {"turn", "unpack"}
    BY <1>4 DEF QcowUnpack
  <2> QED
    BY <1>4, <2>1, UnpackIsSound, KeptStaysInside, TurnAsks
<1>5. CASE VhdTurn(r)
  <2>1. reader[r].pc \in {"turn", "unpack"}
    BY <1>5 DEF VhdTurn, Turning
  <2> QED
    BY <1>5, <2>1, VhdIsSound, TurnAsks
<1>6. CASE PlainTurn(r)
  <2>1. reader[r].pc \in {"turn", "unpack"}
    BY <1>6 DEF PlainTurn, Turning
  <2> QED
    BY <1>6, <2>1, PlainIsSound, KeptStaysInside, TurnAsks
<1>7. CASE StreamTurn(r)
  <2>1. reader[r].pc \in {"turn", "unpack"}
    BY <1>7 DEF StreamTurn, Turning
  <2> QED
    BY <1>7, <2>1, StreamIsSound, KeptStaysInside, TurnAsks
<1>8. CASE DmgTurn(r)
  <2>1. reader[r].pc \in {"turn", "unpack"}
    BY <1>8 DEF DmgTurn, Turning
  <2> QED
    BY <1>8, <2>1, DmgIsSound, KeptStaysInside, TurnAsks
<1>9. CASE DescriptorTurn(r)
  <2>1. reader[r].pc \in {"turn", "unpack"}
    BY <1>9 DEF DescriptorTurn, Turning
  <2> QED
    BY <1>9, <2>1, DescriptorIsSound, KeptStaysInside, TurnAsks
<1> QED
  BY <1>1, <1>2, <1>3, <1>4, <1>5, <1>6, <1>7, <1>8, <1>9 DEF Turn

(* What the reads rest on, whatever the images were written from.          *)
ReadingInv == ReadsOK /\ MountInv /\ CachesInv /\ KeptInside

(* Nothing was read yet.                                                   *)
LEMMA ReadingInit ==
  ASSUME Init
  PROVE  ReadingInv /\ BuffersOK
<1>1. reader = [r \in Readers |-> Idle] /\ kept = NoBytes /\ MountInv
  BY DEF Init, MountInv
<1>2. DOMAIN reader = Readers /\ \A r \in Readers : reader[r] = Idle
  BY <1>1
<1>3. ReadsOK /\ BuffersOK
  BY <1>2, IdleIsOK DEF ReadsOK, BuffersOK
<1>4. KeptInside
  BY <1>1 DEF KeptInside, NoBytes
<1> QED
  BY <1>1, <1>3, <1>4, CachesInit DEF ReadingInv

(* Every step keeps the reads sound.                                       *)
LEMMA ReadingNext ==
  ASSUME ReadingInv, [Next]_vars
  PROVE  ReadingInv' /\ ((Accepts(disk) => Written(disk)) /\ BuffersOK => BuffersOK')
<1>1. CachesInv' /\ MountInv'
  BY CachesNext, MountStays DEF ReadingInv
<1>2. CASE Open \/ UNCHANGED vars
  <2>1. kept' = kept /\ disk' = disk
    BY <1>2 DEF Open, vars, caches, disk
  <2>2. KeptInside'
    BY <2>1 DEF ReadingInv, KeptInside
  <2> QED
    BY <1>1, <1>2, <2>2, OpenIsSound DEF ReadingInv
<1>3. ASSUME NEW r \in Readers, Return(r)
      PROVE  ReadingInv' /\ (BuffersOK => BuffersOK')
  BY <1>1, <1>3, ReturnIsSound, KeptStaysInside DEF ReadingInv
<1>4. ASSUME NEW r \in Readers, NEW p \in Positions, NEW c \in Counts, Ask(r, p, c)
      PROVE  ReadingInv' /\ (BuffersOK => BuffersOK')
  BY <1>1, <1>4, AskIsSound, KeptStaysInside DEF ReadingInv
<1>5. ASSUME NEW r \in Readers, Turn(r), ~Return(r)
      PROVE  ReadingInv' /\ ((Accepts(disk) => Written(disk)) /\ BuffersOK => BuffersOK')
  BY <1>1, <1>5, TurnsAreSound DEF ReadingInv, Sound
<1> QED
  BY <1>2, <1>3, <1>4, <1>5 DEF Next

(* What a reader has put in its buffer is the guest disk.                  *)
LEMMA BuffersShow ==
  ASSUME BuffersOK
  PROVE  ReadsTheGuestDisk
  BY DEF BuffersOK, BufferOK, ReadsTheGuestDisk

(* Whatever image is mounted, read by whom, in what order and through what *)
(* caches, each read returns the bytes of the guest disk the image was     *)
(* written from, and stops short only before a byte the image has lost:    *)
(* for every size of cluster, block, grain, table and chunk, every number  *)
(* of slots and of readers, and every range asked for (QcowDisk.cpp,       *)
(* VhdDisk.cpp, VhdxDisk.cpp, VdiDisk.cpp, ParallelsDisk.cpp, VmdkDisk.cpp *)
(* and DmgDisk.cpp, read).                                                 *)
THEOREM ReadsShowTheGuestDisk ==
  ASSUME \A n \in DOMAIN Image : Accepts(Image[n]) => Written(Image[n])
  PROVE  Spec => []ReadsTheGuestDisk
<1> DEFINE Inv == ReadingInv /\ BuffersOK
<1>1. Init => Inv
  BY ReadingInit
<1>2. Inv /\ [Next]_vars => Inv'
  <2> SUFFICES ASSUME Inv, [Next]_vars PROVE Inv'
    OBVIOUS
  <2>1. Accepts(disk) => Written(disk)
    BY DEF disk, ReadingInv, MountInv
  <2> QED
    BY <2>1, ReadingNext
<1>3. Inv => ReadsTheGuestDisk
  BY BuffersShow
<1> QED
  BY <1>1, <1>2, <1>3, PTL DEF Spec

-----------------------------------------------------------------------------
(* A slot stands under an offset, and a store that holds no lock is read   *)
(* by one reader at a time.                                                *)
SlotsAt == \A i \in 1..Slots : slots[i].at \in Nat

OneReader ==
  disk.kind # "qcow" =>
    \A q, r \in Readers : reader[q].pc # "idle" /\ reader[r].pc # "idle" => q = r

(* Where the table of a guest byte is.                                     *)
LEMMA TableOffset ==
  ASSUME ReadsOK, MountInv, NEW r \in Readers, Turning(r, {"qcow"})
  PROVE  L2At(disk, Guest(r)) \in Nat
<1> DEFINE d == disk
           p == Guest(r)
<1>1. /\ p \in Nat /\ p < d.size /\ FileTyped(d) /\ QcowTyped(d) /\ QcowAccepts(d)
  <2>1. reader[r].pc \in {"turn", "unpack"} /\ d.kind = "qcow"
    BY DEF Turning
  <2>2. p \in Nat /\ Left(r) \in Nat \ {0} /\ p + Left(r) =< d.size
    BY <2>1, TurnAsks DEF GuestSize
  <2>3. FileTyped(d) /\ QcowTyped(d) /\ QcowAccepts(d)
    BY <2>1, TurnAsks DEF Typed, Accepts
  <2>4. d.size \in Int
    BY <2>3 DEF QcowTyped
  <2> HIDE DEF d, p
  <2> QED
    BY <2>2, <2>3, <2>4
<1> HIDE DEF d, p
<1>2. L1Size(d) \in Int /\ (p \div d.cluster) \div L2Entries(d) \in 0..L1Size(d) - 1
  BY <1>1, QcowMapped
<1> DEFINE i == (p \div d.cluster) \div L2Entries(d)
<1>3. L2At(d, p) = IF i >= L1Size(d) THEN 0 ELSE d.l1[i]
  BY DEF L2At
<1> HIDE DEF i
<1>4. i \in 0..L1Size(d) - 1
  BY <1>2 DEF i
<1>5. d.l1[i] \in Nat
  BY <1>1, <1>4 DEF QcowTyped
<1>6. L2At(d, p) \in Nat
  BY <1>3, <1>5
<1> QED
  BY <1>6 DEF d, p

(* Only a miss gives a slot another offset.                                *)
LEMMA SlotsAtStays ==
  ASSUME ReadsOK, MountInv, CachesInv, AgesInv, SlotsAt, [Next]_vars
  PROVE  SlotsAt'
<1>1. CASE \E r \in Readers : QcowHit(r)
  <2>1. PICK r \in Readers : QcowHit(r)
    BY <1>1
  <2>2. PICK k : slots' = [slots EXCEPT ![k].age = l2Age + 1]
    BY <2>1 DEF QcowHit
  <2> QED
    BY <2>2 DEF CachesInv, SlotsShape, SlotsAt
<1>2. CASE \E r \in Readers : QcowMiss(r)
  <2>1. PICK r \in Readers : QcowMiss(r)
    BY <1>2
  <2> DEFINE at == L2At(disk, Guest(r))
             new == [at |-> at, age |-> l2Age + 1, table |-> disk.tables[at]]
  <2>2. slots' = [slots EXCEPT ![Victim] = new] /\ Turning(r, {"qcow"})
    BY <2>1 DEF QcowMiss
  <2>3. new.at \in Nat
    BY <2>2, TableOffset
  <2> HIDE DEF new
  <2> QED
    BY <2>2, <2>3 DEF CachesInv, SlotsShape, SlotsAt
<1>3. CASE Open \/ UNCHANGED vars
  BY <1>3 DEF Open, vars, caches, SlotsAt
<1>4. ASSUME NEW r \in Readers,
             \/ QcowHole(r) \/ QcowUnpack(r) \/ VhdTurn(r) \/ PlainTurn(r)
             \/ StreamTurn(r) \/ DescriptorTurn(r) \/ DmgTurn(r) \/ Return(r)
             \/ \E p \in Positions, c \in Counts : Ask(r, p, c)
      PROVE  slots' = slots
  BY <1>4 DEF QcowHole, QcowUnpack, VhdTurn, PlainTurn, StreamTurn, DescriptorTurn, DmgTurn,
                Return, Ask, caches
<1> QED
  BY <1>1, <1>2, <1>3, <1>4 DEF Next, Turn, SlotsAt

(* A turn is of a read under way, and of no other.                         *)
LEMMA FetchTouches ==
  ASSUME ReadsOK, NEW r \in Readers, NEW place, Fetch(r, place)
  PROVE  \A q \in Readers : q # r => reader'[q] = reader[q]
<1>1. PICK new : reader' = [reader EXCEPT ![r] = new]
  <2>1. CASE PutZeros(r, place.n)
    BY <2>1 DEF PutZeros, Put
  <2>2. CASE Put(r, place.n, LAMBDA i : HostByte(place.base, place.held, place.at + i))
    BY <2>2 DEF Put
  <2>3. CASE reader' = [reader EXCEPT ![r].pc = "done"]
    BY <2>3
  <2> QED
    BY <2>1, <2>2, <2>3 DEF Fetch
<1> QED
  BY <1>1 DEF ReadsOK

(* Every kind of turn, and the return, is of one reader.                   *)
LEMMA TurnTouches ==
  ASSUME ReadsOK, NEW r \in Readers, Turn(r)
  PROVE  reader[r].pc # "idle" /\ disk' = disk
         /\ \A q \in Readers : q # r => reader'[q] = reader[q]
<1>1. reader[r].pc # "idle" /\ disk' = disk
  BY DEF Turn, QcowHole, QcowHit, QcowMiss, QcowUnpack, VhdTurn, PlainTurn, StreamTurn,
         DescriptorTurn, DmgTurn, Turning, Return, disk
<1>2. CASE \E place : Fetch(r, place)
  BY <1>1, <1>2, FetchTouches
<1>3. CASE \E n : PutZeros(r, n)
  <2>1. PICK new : reader' = [reader EXCEPT ![r] = new]
    BY <1>3 DEF PutZeros, Put
  <2> QED
    BY <1>1, <2>1 DEF ReadsOK
<1>4. CASE \E bytes, at, n : PutUnit(r, bytes, at, n)
  <2>1. PICK new : reader' = [reader EXCEPT ![r] = new]
    BY <1>4 DEF PutUnit, Put
  <2> QED
    BY <1>1, <2>1 DEF ReadsOK
<1>5. CASE \/ reader' = [reader EXCEPT ![r].pc = "done"] \/ reader' = [reader EXCEPT ![r] = Idle]
           \/ \E place : reader' = [reader EXCEPT ![r].pc = "unpack", ![r].place = place]
  BY <1>1, <1>5 DEF ReadsOK
<1>6. QcowHit(r) \/ QcowMiss(r) => \E table : QcowFetch(r, table)
  BY DEF QcowHit, QcowMiss
<1>7. (\E table : QcowFetch(r, table)) =>
        \/ \E place : Fetch(r, place)
        \/ \E place : reader' = [reader EXCEPT ![r].pc = "unpack", ![r].place = place]
  BY DEF QcowFetch
<1>8. VhdTurn(r) \/ PlainTurn(r) => \E place : Fetch(r, place)
  BY DEF VhdTurn, PlainTurn
<1>9. QcowHole(r) => \E n : PutZeros(r, n)
  BY DEF QcowHole
<1>10. QcowUnpack(r) \/ StreamTurn(r) => \E bytes, at, n : PutUnit(r, bytes, at, n)
  BY DEF QcowUnpack, StreamTurn
<1>11. DmgTurn(r) =>
         \/ \E place : Fetch(r, place)
         \/ \E bytes, at, n : PutUnit(r, bytes, at, n)
         \/ reader' = [reader EXCEPT ![r].pc = "done"]
  BY DEF DmgTurn
<1>12. DescriptorTurn(r) =>
         (\E place : Fetch(r, place)) \/ \E bytes, at, n : PutUnit(r, bytes, at, n)
  BY DEF DescriptorTurn
<1>13. Return(r) => reader' = [reader EXCEPT ![r] = Idle]
  BY DEF Return
<1> QED
  BY <1>1, <1>2, <1>3, <1>4, <1>5, <1>6, <1>7, <1>8, <1>9, <1>10, <1>11, <1>12, <1>13 DEF Turn

(* A reader asks only when no other is under way, but of a QCOW disk.      *)
LEMMA OneReaderStays ==
  ASSUME ReadsOK, OneReader, [Next]_vars
  PROVE  OneReader'
<1>1. CASE Open \/ UNCHANGED vars
  BY <1>1 DEF Open, vars, disk, OneReader
<1>2. ASSUME NEW r \in Readers, Turn(r) PROVE OneReader'
  <2>1. reader[r].pc # "idle" /\ disk' = disk
        /\ \A q \in Readers : q # r => reader'[q] = reader[q]
    BY <1>2, TurnTouches
  <2> QED
    BY <2>1 DEF OneReader
<1>3. ASSUME NEW r \in Readers, NEW p \in Positions, NEW c \in Counts, Ask(r, p, c)
      PROVE  OneReader'
  <2>1. disk' = disk /\ (disk.kind # "qcow" => \A q \in Readers : reader[q].pc = "idle")
    BY <1>3 DEF Ask, disk
  <2>2. PICK new : reader' = [reader EXCEPT ![r] = new]
    BY <1>3 DEF Ask
  <2>3. \A q \in Readers : q # r => reader'[q] = reader[q]
    BY <2>2 DEF ReadsOK
  <2> QED
    BY <2>1, <2>3 DEF OneReader
<1> QED
  BY <1>1, <1>2, <1>3 DEF Next

(* A set whose elements are all the same has at most one.                  *)
LEMMA AtMostOne ==
  ASSUME NEW S, \A q, r \in S : q = r
  PROVE  Cardinality(S) =< 1
<1>1. CASE S = {}
  BY <1>1, FS_EmptySet
<1>2. CASE S # {}
  <2>1. PICK x : x \in S
    BY <1>2
  <2>2. S = {x}
    BY <2>1
  <2> QED
    BY <2>2, FS_Singleton
<1> QED
  BY <1>1, <1>2

TypeInv == ReadingInv /\ AgesInv /\ SlotsAt /\ OneReader

(* What the reads and the caches keep makes the state well-formed.         *)
LEMMA TypeImplied ==
  ASSUME TypeInv
  PROVE  TypeOK
<1>1. l2Age \in Nat /\ \A i \in 1..Slots : SlotOK(slots[i])
  BY DEF TypeInv, ReadingInv, CachesInv, SlotsShape, AgesInv, SlotsAt, SlotOK
<1>2. ASSUME NEW r \in Readers PROVE ReaderOK(reader[r])
  <2>1. ReadOK(reader[r])
    BY DEF TypeInv, ReadingInv, ReadsOK
  <2> QED
    BY <2>1 DEF ReadOK, ReaderOK
<1>3. disk.kind # "qcow" => Cardinality({r \in Readers : reader[r].pc # "idle"}) =< 1
  BY AtMostOne DEF TypeInv, OneReader
<1> QED
  BY <1>1, <1>2, <1>3 DEF TypeOK, TypeInv, ReadingInv, MountInv

(* A reader never produces more than it has room for, a cluster to unpack  *)
(* never overruns what is left to read, and readers of a store without a   *)
(* lock never overlap: for any images, slots, readers and requests (the    *)
(* read loops of the disks under opener/modules).                          *)
THEOREM TypesAreCorrect == Spec => []TypeOK
<1>1. Init => TypeInv
  <2> SUFFICES ASSUME Init PROVE TypeInv
    OBVIOUS
  <2>1. ReadingInv
    BY ReadingInit
  <2>2. AgesInv /\ SlotsAt
    BY DEF Init, AgesInv, SlotsAt, EmptySlot
  <2>3. OneReader
    BY DEF Init, OneReader, Idle
  <2> QED
    BY <2>1, <2>2, <2>3 DEF TypeInv
<1>2. TypeInv /\ [Next]_vars => TypeInv'
  BY ReadingNext, AgesNext, SlotsAtStays, OneReaderStays DEF TypeInv, ReadingInv
<1>3. TypeInv => TypeOK
  BY TypeImplied
<1> QED
  BY <1>1, <1>2, <1>3, PTL DEF Spec
=============================================================================
