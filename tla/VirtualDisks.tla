----------------------------- MODULE VirtualDisks -----------------------------
(***************************************************************************)
(* Reading a virtual disk: readers ask the store of a mounted image for    *)
(* ranges of the guest disk, and each read goes turn by turn through the   *)
(* tables of the image and the caches the store keeps between reads: L2    *)
(* tables by least recent use and one inflated cluster (QCOW), bitmaps     *)
(* (VHD), one inflated grain (streamOptimized VMDK), inflated runs (DMG).  *)
(*                                                                         *)
(* QCOW guards each of its caches with a mutex, so its readers interleave  *)
(* between the two critical sections of a turn; the other stores hold no   *)
(* lock and are read by one reader at a time.                              *)
(***************************************************************************)
EXTENDS DiskImages

CONSTANTS
  Image,                \* the images that may be mounted, by name
  Readers, Slots,       \* who reads; how many L2 tables are cached
  Positions, Counts,    \* the requests
  AgeBound              \* no new request once the cache clock is there

(* With one slot the table used last would be the only one to give up.     *)
ASSUME SlotsAssumption == Slots \in Nat /\ Slots >= 2

ASSUME ImagesAssumption == \A n \in DOMAIN Image : Typed(Image[n])

ASSUME RequestsAssumption == Positions \subseteq Int /\ Counts \subseteq Int

VARIABLES
  name, mounted,        \* the image, and what opening it came to
  slots, l2Age,         \* l2Cache_ and its clock
  unit,                 \* the inflated cluster or grain, under its key
  kept,                 \* bitmaps_ (VHD), cache_ (DMG), or that of each extent
                        \*   of a descriptor, by block, run or line
  reader                \* the read each reader has under way or made last

caches == <<slots, l2Age, unit, kept>>
vars == <<name, mounted, caches, reader>>

disk == Image[name]
EmptySlot == [at |-> 0, age |-> 0, table |-> NoBytes]
EmptyUnit == [key |-> -1, bytes |-> NoBytes]
Idle == [pc |-> "idle", pos |-> 0, count |-> 0, want |-> 0, produced |-> 0,
         dst |-> NoBytes, place |-> Place]

Keep(f, k, v) == [x \in DOMAIN f \cup {k} |-> IF x = k THEN v ELSE f[x]]

Init ==
  /\ name \in DOMAIN Image /\ mounted = "no"
  /\ slots = [i \in 1..Slots |-> EmptySlot] /\ l2Age = 0
  /\ unit = EmptyUnit /\ kept = NoBytes
  /\ reader = [r \in Readers |-> Idle]

(* open*Disk: the header is checked and the tables are loaded, or not.     *)
Open ==
  /\ mounted = "no"
  /\ mounted' = IF Accepts(disk) THEN "yes" ELSE "refused"
  /\ UNCHANGED <<name, caches, reader>>

-----------------------------------------------------------------------------
(* The prologue of every read.                                             *)
Ask(r, p, c) ==
  LET size == GuestSize(disk)
      want == IF p < 0 \/ c =< 0 \/ p >= size THEN 0 ELSE Least(c, size - p)
  IN  /\ mounted = "yes" /\ reader[r].pc = "idle" /\ l2Age < AgeBound
      /\ disk.kind # "qcow" => \A q \in Readers : reader[q].pc = "idle"
      /\ reader' = [reader EXCEPT ![r] =
           [Idle EXCEPT !.pc = IF want > 0 THEN "turn" ELSE "done", !.pos = p, !.count = c,
                        !.want = want, !.dst = [i \in 0..c - 1 |-> 0]]]
      /\ UNCHANGED <<name, mounted, caches>>

(* The read returns what it produced.                                      *)
Return(r) ==
  /\ reader[r].pc = "done" /\ reader' = [reader EXCEPT ![r] = Idle]
  /\ UNCHANGED <<name, mounted, caches>>

Guest(r) == reader[r].pos + reader[r].produced
Left(r) == reader[r].want - reader[r].produced

(* The chunk of a turn is put in the buffer, and the loop goes on.         *)
Put(r, n, Byte(_)) ==
  LET rd == reader[r]
      done == rd.produced
  IN  reader' = [reader EXCEPT ![r] =
        [rd EXCEPT !.produced = done + n,
                   !.pc = IF done + n = rd.want THEN "done" ELSE "turn",
                   !.dst = [i \in DOMAIN rd.dst |->
                             IF i \in done..done + n - 1 THEN Byte(i - done) ELSE rd.dst[i]],
                   !.place = Place]]

PutZeros(r, n) == Put(r, n, LAMBDA i : 0)

PutUnit(r, bytes, at, n) == Put(r, n, LAMBDA i : UnitByte(bytes, at + i))

(* The end of a turn that needs no cache: bytes of the file, and zeros     *)
(* where it is cut short; or the read ends with what it has.               *)
Fetch(r, place) ==
  \/ place.from = "zeros" /\ PutZeros(r, place.n)
  \/ /\ place.from = "file"
     /\ Put(r, place.n, LAMBDA i : HostByte(place.base, place.held, place.at + i))
  \/ place.from = "nowhere" /\ reader' = [reader EXCEPT ![r].pc = "done"]

Turning(r, kinds) == reader[r].pc = "turn" /\ disk.kind \in kinds

-----------------------------------------------------------------------------
(* QCOW.  lookup finds the L2 table of the byte under l2Mutex_.            *)

Hits(at) == {i \in 1..Slots : slots[i].at = at /\ slots[i].table # NoBytes}

(* Mutant of Victim: the table used last is replaced.                      *)
VictimLatest == CHOOSE i \in 1..Slots : \A j \in 1..Slots : slots[j].age =< slots[i].age

(* The first of the slots of least age.                                    *)
Victim ==
  CHOOSE i \in 1..Slots : \A j \in 1..Slots :
    slots[i].age < slots[j].age \/ (slots[i].age = slots[j].age /\ i =< j)

(* A compressed cluster waits for the other mutex; the rest is fetched.    *)
QcowFetch(r, table) ==
  \E place \in {QcowPlace(disk, Guest(r), Left(r), table)} :
    \/ Fetch(r, place)
    \/ /\ place.from = "unit"
       /\ reader' = [reader EXCEPT ![r].pc = "unpack", ![r].place = place]

QcowHole(r) ==
  /\ Turning(r, {"qcow"}) /\ L2At(disk, Guest(r)) = 0
  /\ PutZeros(r, Least(Left(r), disk.cluster - (Guest(r) % disk.cluster)))
  /\ UNCHANGED <<name, mounted, caches>>

QcowHit(r) ==
  LET at == L2At(disk, Guest(r))
      i == CHOOSE i \in Hits(at) : \A j \in Hits(at) : i =< j
  IN  /\ Turning(r, {"qcow"}) /\ at # 0 /\ Hits(at) # {}
      /\ l2Age' = l2Age + 1 /\ slots' = [slots EXCEPT ![i].age = l2Age + 1]
      /\ QcowFetch(r, slots[i].table)
      /\ UNCHANGED <<name, mounted, unit, kept>>

(* Mutant of QcowMiss: a table is stored in a slot without its offset.     *)
QcowMissKeepsOffset(r) ==
  LET at == L2At(disk, Guest(r))
      table == disk.tables[at]
  IN  /\ Turning(r, {"qcow"}) /\ at # 0 /\ Hits(at) = {}
      /\ l2Age' = l2Age + 1
      /\ slots' = [slots EXCEPT ![Victim] =
           [at |-> IF @.at = 0 THEN at ELSE @.at, age |-> l2Age + 1, table |-> table]]
      /\ QcowFetch(r, table)
      /\ UNCHANGED <<name, mounted, unit, kept>>

(* The table was in the file when the image was mounted, so its read does  *)
(* not fall short.                                                         *)
QcowMiss(r) ==
  LET at == L2At(disk, Guest(r))
      table == disk.tables[at]
  IN  /\ Turning(r, {"qcow"}) /\ at # 0 /\ Hits(at) = {}
      /\ l2Age' = l2Age + 1
      /\ slots' = [slots EXCEPT ![Victim] = [at |-> at, age |-> l2Age + 1, table |-> table]]
      /\ QcowFetch(r, table)
      /\ UNCHANGED <<name, mounted, unit, kept>>

(* Mutant of QcowUnpack: any inflated cluster will do.                     *)
QcowUnpackAnyKey(r) ==
  LET place == reader[r].place
      bytes == IF unit.bytes # NoBytes THEN unit.bytes ELSE disk.packs[place.key]
  IN  /\ reader[r].pc = "unpack"
      /\ unit' = IF bytes = NoBytes THEN EmptyUnit ELSE [key |-> place.key, bytes |-> bytes]
      /\ PutUnit(r, bytes, place.at, place.n)
      /\ UNCHANGED <<name, mounted, slots, l2Age, kept>>

(* readCompressed, under compressedMutex_: the cluster kept, or another    *)
(* one inflated in its place; one that fails leaves nothing kept.          *)
QcowUnpack(r) ==
  LET place == reader[r].place
      bytes == IF unit.key = place.key THEN unit.bytes ELSE disk.packs[place.key]
  IN  /\ reader[r].pc = "unpack"
      /\ unit' = IF bytes = NoBytes THEN EmptyUnit ELSE [key |-> place.key, bytes |-> bytes]
      /\ PutUnit(r, bytes, place.at, place.n)
      /\ UNCHANGED <<name, mounted, slots, l2Age, kept>>

-----------------------------------------------------------------------------
(* A dynamic VHD keeps each bitmap it could read.                          *)
VhdTurn(r) ==
  LET b == Guest(r) \div disk.block
      marked == IF ~VhdMaps(disk, b) THEN {}
                ELSE IF b \in DOMAIN kept THEN kept[b] ELSE VhdBitmap(disk, b)
  IN  /\ Turning(r, {"vhd"}) /\ ~VhdFixed(disk)
      /\ kept' = IF VhdMaps(disk, b) /\ VhdBitmapInside(disk, b)
                   THEN Keep(kept, b, marked) ELSE kept
      /\ \E place \in {VhdPlace(disk, Guest(r), Left(r), marked)} : Fetch(r, place)
      /\ UNCHANGED <<name, mounted, slots, l2Age, unit>>

(* The stores that keep no cache.                                          *)
PlainPlace(d, p, n) ==
  CASE d.kind = "vhd"        -> Window(d, p, n)
    [] d.kind = "vhdx"       -> VhdxPlace(d, p, n)
    [] d.kind = "vdi"        -> VdiPlace(d, p, n)
    [] d.kind = "parallels"  -> ParallelsPlace(d, p, n)
    [] d.kind = "sparse"     -> SparsePlace(d, p, n)

PlainTurn(r) ==
  /\ \/ Turning(r, {"vhdx", "vdi", "parallels", "sparse"})
     \/ Turning(r, {"vhd"}) /\ VhdFixed(disk)
  /\ \E place \in {PlainPlace(disk, Guest(r), Left(r))} : Fetch(r, place)
  /\ UNCHANGED <<name, mounted, caches>>

(* loadGrain: the index is set before the grain is inflated, so a grain    *)
(* that is missing or damaged is kept as one of no bytes.                  *)
StreamTurn(r) ==
  LET place == StreamPlace(disk, Guest(r), Left(r))
  IN  /\ Turning(r, {"stream"})
      /\ unit' = [key |-> place.key,
                  bytes |-> IF unit.key = place.key THEN unit.bytes ELSE StreamBytes(disk, place.key)]
      /\ PutUnit(r, unit'.bytes, place.at, place.n)
      /\ UNCHANGED <<name, mounted, slots, l2Age, kept>>

(* A descriptor asks one extent after another; each that is a stream keeps *)
(* the grain it inflated last, like one mounted by itself.                 *)
DescriptorTurn(r) ==
  LET k == ExtentAt(disk, Guest(r))
      last == IF k \in DOMAIN kept THEN kept[k] ELSE EmptyUnit
  IN  /\ Turning(r, {"descriptor"})
      /\ \E place \in {ExtentPlace(disk, Guest(r), Left(r))} :
           LET bytes == IF last.key = place.key THEN last.bytes
                        ELSE StreamBytes(disk.lines[k].image, place.key)
           IN  \/ Fetch(r, place) /\ kept' = kept
               \/ /\ place.from = "unit" /\ PutUnit(r, bytes, place.at, place.n)
                  /\ kept' = Keep(kept, k, [key |-> place.key, bytes |-> bytes])
      /\ UNCHANGED <<name, mounted, slots, l2Age, unit>>

(* loadRun keeps every run it could inflate; a read ends before one it     *)
(* could not, and before a run of an unknown type.                         *)
DmgTurn(r) ==
  /\ Turning(r, {"dmg"})
  /\ \E place \in {DmgPlace(disk, Guest(r), Left(r))} :
       LET k == place.key
           bytes == IF k \in DOMAIN kept THEN kept[k] ELSE disk.packs[k]
       IN  \/ Fetch(r, place) /\ kept' = kept
           \/ /\ place.from = "unit" /\ bytes # NoBytes
              /\ PutUnit(r, bytes, place.at, place.n) /\ kept' = Keep(kept, k, bytes)
           \/ /\ place.from = "unit" /\ bytes = NoBytes
              /\ reader' = [reader EXCEPT ![r].pc = "done"] /\ kept' = kept
  /\ UNCHANGED <<name, mounted, slots, l2Age, unit>>

Turn(r) ==
  \/ QcowHole(r) \/ QcowHit(r) \/ QcowMiss(r) \/ QcowUnpack(r)
  \/ VhdTurn(r) \/ PlainTurn(r) \/ StreamTurn(r) \/ DescriptorTurn(r) \/ DmgTurn(r)
  \/ Return(r)

Next ==
  \/ Open
  \/ \E r \in Readers : Turn(r) \/ \E p \in Positions, c \in Counts : Ask(r, p, c)

Fairness == \A r \in Readers : WF_vars(Turn(r))
Spec == Init /\ [][Next]_vars /\ Fairness

-----------------------------------------------------------------------------
SlotOK(s) == s.at \in Nat /\ s.age \in 0..l2Age /\ DOMAIN s = {"at", "age", "table"}

ReaderOK(rd) ==
  /\ rd.pc \in {"idle", "turn", "unpack", "done"}
  /\ rd.want \in Nat /\ rd.produced \in 0..rd.want /\ Bytes(rd.dst)
  /\ rd.pc \in {"turn", "unpack"} => rd.produced < rd.want /\ rd.want =< rd.count /\ mounted = "yes"
  /\ rd.pc = "unpack" => rd.place.n \in 1..rd.want - rd.produced

(* Readers have room for what they still want, caches have the shape of    *)
(* their store, and only QCOW readers are ever two at a time.              *)
TypeOK ==
  /\ name \in DOMAIN Image /\ mounted \in {"no", "yes", "refused"}
  /\ l2Age \in Nat /\ \A i \in 1..Slots : SlotOK(slots[i])
  /\ \A r \in Readers : ReaderOK(reader[r])
  /\ disk.kind # "qcow" => Cardinality({r \in Readers : reader[r].pc # "idle"}) =< 1

(* What the caches hold is what the image holds under the key they hold it *)
(* by, and no L2 table is cached twice: a clock, a victim or a key that    *)
(* falls out of step serves one part of the disk for another.              *)
CachesHoldTheImage ==
  /\ disk.kind = "qcow" =>
       /\ \A i \in 1..Slots : slots[i].table # NoBytes =>
            /\ slots[i].table = disk.tables[slots[i].at]
            /\ \A j \in 1..Slots : slots[j].at = slots[i].at => i = j
       /\ unit.key # -1 => unit.bytes = disk.packs[unit.key]
  /\ disk.kind = "stream" /\ unit.key # -1 => unit.bytes = StreamBytes(disk, unit.key)
  /\ disk.kind = "vhd" => \A b \in DOMAIN kept : kept[b] = disk.bitmaps[b]
  /\ disk.kind = "dmg" => \A k \in DOMAIN kept : kept[k] = disk.packs[k]
  /\ disk.kind = "descriptor" => \A k \in DOMAIN kept :
       kept[k].key # -1 => kept[k].bytes = StreamBytes(disk.lines[k].image, kept[k].key)

(* Whatever was read before, by whom and through which tables, the bytes a *)
(* read has put in its buffer are the bytes of the guest disk the image    *)
(* was written from, and a read stops short only before a byte the image   *)
(* has lost (-1).                                                          *)
ReadsTheGuestDisk ==
  \A r \in Readers :
    LET rd == reader[r]
    IN  /\ \A i \in 0..rd.produced - 1 : rd.dst[i] = disk.guest[rd.pos + i]
        /\ rd.pc = "done" /\ rd.produced < rd.want =>
             disk.guest[rd.pos + rd.produced] = -1

(* Every byte of a mounted disk has its entry in the tables that were      *)
(* loaded: the sizes checked when the image is opened, rounded up, are the *)
(* ones the reads index by.                                                *)
MountedDiskIsMapped ==
  mounted = "yes" =>
    /\ GuestSize(disk) > 0 \/ disk.kind = "dmg"
    /\ \A p \in 0..GuestSize(disk) - 1 :
         CASE disk.kind = "qcow"   -> (p \div disk.cluster) \div L2Entries(disk) < L1Size(disk)
           [] disk.kind = "vhdx"   -> VhdxIndex(disk, p \div disk.block)
                                         \in 0..VhdxRegion(disk).batEntries - 1
           [] disk.kind = "sparse" -> p \div (Sector * disk.grain * disk.perTable)
                                         < GrainTables(disk)
           [] OTHER                -> TRUE

(* The table used last is never the one given up for another: a read that  *)
(* goes back and forth between two tables does not load each every time.   *)
LastUsedTableStays ==
  [][\A i \in 1..Slots :
       slots[i].age = l2Age /\ slots[i].table # NoBytes => slots'[i].at = slots[i].at]_vars

(* Every read ends: each turn produces something or ends the read.         *)
ReadsEnd == \A r \in Readers : (reader[r].pc # "idle") ~> (reader[r].pc = "idle")
=============================================================================
