-------------------------- MODULE DiskImages_proofs --------------------------
(***************************************************************************)
(* Where the readers of a virtual disk look for a byte, for any image of   *)
(* any size: a turn of a read loop serves some of the bytes asked for, no  *)
(* more, and of an image that was written from its guest disk it serves    *)
(* the bytes of the guest disk.                                            *)
(***************************************************************************)
EXTENDS DiskImages, Intervals

(* Division with remainder finds the part a number was put together from.  *)
LEMMA DivMod ==
  ASSUME NEW c \in Nat \ {0}, NEW q \in Int, NEW o \in 0..c - 1
  PROVE  (q * c + o) \div c = q /\ (q * c + o) % c = o
  OBVIOUS

(* Every number is its part and its place in the part.                     *)
LEMMA DivModOf ==
  ASSUME NEW c \in Nat \ {0}, NEW p \in Nat
  PROVE  /\ p \div c \in Nat /\ p % c \in 0..c - 1
         /\ p = (p \div c) * c + (p % c)
  OBVIOUS

(* Below n parts, the part is below n.                                     *)
LEMMA DivBelow ==
  ASSUME NEW c \in Nat \ {0}, NEW n \in Nat, NEW p \in Nat, p < n * c
  PROVE  p \div c < n
  OBVIOUS

(* The parts of a whole, rounded up, reach over all of it.                 *)
LEMMA CeilDivCovers ==
  ASSUME NEW c \in Nat \ {0}, NEW s \in Nat, NEW p \in Nat, p < s
  PROVE  CeilDiv(s, c) \in Nat /\ p \div c < CeilDiv(s, c)
  BY DEF CeilDiv

(* The least of two.                                                       *)
LEMMA LeastOfTwo ==
  ASSUME NEW a \in Int, NEW b \in Int
  PROVE  /\ Least(a, b) \in Int /\ Least(a, b) =< a /\ Least(a, b) =< b
         /\ Least(a, b) \in {a, b}
  BY DEF Least

-----------------------------------------------------------------------------
(* What the places say.                                                    *)
LEMMA PlacesSay ==
  ASSUME NEW d, NEW a, NEW k, NEW n
  PROVE  /\ Zeros(n).from = "zeros" /\ Zeros(n).n = n
         /\ Host(d, a, n).from = "file" /\ Host(d, a, n).n = n /\ Host(d, a, n).at = a
         /\ Host(d, a, n).base = d.base /\ Host(d, a, n).held = d.held
         /\ Unit(k, a, n).from = "unit" /\ Unit(k, a, n).key = k /\ Unit(k, a, n).at = a
         /\ Unit(k, a, n).n = n
         /\ Nowhere.from = "nowhere"
  BY DEF Zeros, Host, Unit, Nowhere, Place

(* A place serves some of n bytes.                                         *)
PlaceOK(place, n) ==
  /\ place.from \in {"zeros", "file", "unit", "nowhere"}
  /\ place.from # "nowhere" => place.n \in 1..n
  /\ place.from = "file" => place.base \in Nat /\ place.held \in Nat /\ place.at \in Int
  /\ place.from = "unit" => place.at \in Nat /\ place.key \in Nat

ByteAt(place, bytes, i) ==
  CASE place.from = "zeros" -> 0
    [] place.from = "file"  -> HostByte(place.base, place.held, place.at + i)
    [] place.from = "unit"  -> UnitByte(bytes, place.at + i)

(* It serves the bytes of a guest disk from p, or ends before a lost one.  *)
Shows(place, bytes, guest, p) ==
  IF place.from = "nowhere" THEN guest[p] = -1
  ELSE \A i \in 0..place.n - 1 : guest[p + i] = ByteAt(place, bytes, i)

(* Zeros serve a stretch of the guest disk that is zero.                   *)
LEMMA ZerosShow ==
  ASSUME NEW n \in Nat \ {0}, NEW m \in 1..n, NEW guest, NEW p, NEW bytes
  PROVE  /\ PlaceOK(Zeros(m), n) /\ Zeros(m).from # "unit"
         /\ (\A i \in 0..m - 1 : guest[p + i] = 0) => Shows(Zeros(m), bytes, guest, p)
<1> DEFINE place == Zeros(m)
<1>1. place.from = "zeros" /\ place.n = m
  BY PlacesSay
<1> HIDE DEF place
<1>2. \A i : ByteAt(place, bytes, i) = 0
  BY <1>1 DEF ByteAt
<1> QED
  BY <1>1, <1>2 DEF PlaceOK, Shows, place

(* Bytes of the file serve the stretch that was stored there.              *)
LEMMA HostShows ==
  ASSUME NEW d, FileTyped(d), NEW n \in Nat \ {0}, NEW m \in 1..n, NEW a \in Int,
         NEW guest, NEW p, NEW bytes
  PROVE  /\ PlaceOK(Host(d, a, m), n) /\ Host(d, a, m).from # "unit"
         /\ (\A i \in 0..m - 1 : guest[p + i] = HostByte(d.base, d.held, a + i))
              => Shows(Host(d, a, m), bytes, guest, p)
<1> DEFINE place == Host(d, a, m)
<1>1. /\ place.from = "file" /\ place.n = m /\ place.at = a
      /\ place.base = d.base /\ place.held = d.held
  BY PlacesSay
<1> HIDE DEF place
<1>2. \A i : ByteAt(place, bytes, i) = HostByte(d.base, d.held, a + i)
  BY <1>1 DEF ByteAt
<1>3. d.base \in Nat /\ d.held \in Nat
  BY DEF FileTyped
<1> QED
  BY <1>1, <1>2, <1>3 DEF PlaceOK, Shows, place

(* An inflated unit serves the stretch that was packed into it.            *)
LEMMA UnitShows ==
  ASSUME NEW k \in Nat, NEW n \in Nat \ {0}, NEW m \in 1..n, NEW a \in Nat,
         NEW guest, NEW p, NEW bytes
  PROVE  /\ PlaceOK(Unit(k, a, m), n)
         /\ (\A i \in 0..m - 1 : guest[p + i] = UnitByte(bytes, a + i))
              => Shows(Unit(k, a, m), bytes, guest, p)
<1> DEFINE place == Unit(k, a, m)
<1>1. place.from = "unit" /\ place.n = m /\ place.at = a /\ place.key = k
  BY PlacesSay
<1> HIDE DEF place
<1>2. \A i : ByteAt(place, bytes, i) = UnitByte(bytes, a + i)
  BY <1>1 DEF ByteAt
<1> QED
  BY <1>1, <1>2 DEF PlaceOK, Shows, place

(* A window serves what the file holds of it.                              *)
LEMMA WindowShows ==
  ASSUME NEW d, FileTyped(d), NEW n \in Nat \ {0}, NEW a \in Int,
         NEW guest, NEW p \in Int, NEW bytes
  PROVE  /\ PlaceOK(Window(d, a, n), n)
         /\ Window(d, a, n).from # "unit"
         /\ (\A i \in 0..n - 1 : guest[p + i] = WindowByte(d, a + i))
              => Shows(Window(d, a, n), bytes, guest, p)
<1>1. d.held \in Nat
  BY DEF FileTyped
<1>2. CASE a \in 0..d.held - 1
  <2> DEFINE m == Least(n, d.held - a)
  <2>1. m \in 1..n /\ m =< d.held - a
    BY <1>1, <1>2 DEF Least
  <2>2. Window(d, a, n) = Host(d, a, m)
    BY <1>2 DEF Window
  <2> HIDE DEF m
  <2>3. ASSUME \A i \in 0..n - 1 : guest[p + i] = WindowByte(d, a + i)
        PROVE  \A i \in 0..m - 1 : guest[p + i] = HostByte(d.base, d.held, a + i)
    BY <1>1, <1>2, <2>1, <2>3 DEF WindowByte
  <2>4. /\ PlaceOK(Host(d, a, m), n) /\ Host(d, a, m).from # "unit"
        /\ (\A i \in 0..m - 1 : guest[p + i] = HostByte(d.base, d.held, a + i))
              => Shows(Host(d, a, m), bytes, guest, p)
    BY <2>1, HostShows
  <2> QED
    BY <2>2, <2>3, <2>4
<1>3. CASE a \notin 0..d.held - 1
  <2>1. Window(d, a, n) = Nowhere
    BY <1>3 DEF Window
  <2>2. ASSUME \A i \in 0..n - 1 : guest[p + i] = WindowByte(d, a + i)
        PROVE  guest[p] = -1
    <3>1. 0 \in 0..n - 1 /\ p + 0 = p /\ a + 0 = a
      OBVIOUS
    <3> QED
      BY <1>3, <2>2, <3>1 DEF WindowByte
  <2> QED
    BY <2>1, <2>2, PlacesSay DEF PlaceOK, Shows
<1> QED
  BY <1>2, <1>3

(* Parts of c bytes: those from p on that a turn may take lie in one part. *)
LEMMA OnePart ==
  ASSUME NEW c \in Nat \ {0}, NEW p \in Nat, NEW n \in Nat \ {0}
  PROVE  /\ p \div c \in Nat /\ p % c \in 0..c - 1
         /\ Least(n, c - (p % c)) \in 1..n
         /\ \A i \in 0..Least(n, c - (p % c)) - 1 :
              /\ (p % c) + i \in 0..c - 1 /\ i < n
              /\ p + i = (p \div c) * c + ((p % c) + i)
<1> DEFINE q == p \div c
           o == p % c
           m == Least(n, c - o)
<1>1. q \in Nat /\ o \in 0..c - 1 /\ p = q * c + o
  BY DivModOf
<1> HIDE DEF q, o
<1>2. m \in 1..n /\ m =< c - o
  BY <1>1 DEF Least
<1> HIDE DEF m
<1>3. q * c \in Int
  BY <1>1
<1>4. \A i \in 0..m - 1 : o + i \in 0..c - 1 /\ i < n /\ p + i = q * c + (o + i)
  BY <1>1, <1>2, <1>3
<1> QED
  BY <1>1, <1>2, <1>4 DEF m, q, o

(* The same, said of a name that stands for all of it.                     *)
InOnePart(c, p, n) ==
  /\ p \div c \in Nat /\ p % c \in 0..c - 1
  /\ Least(n, c - (p % c)) \in 1..n
  /\ \A i \in 0..Least(n, c - (p % c)) - 1 :
       /\ (p % c) + i \in 0..c - 1 /\ i < n
       /\ p + i = (p \div c) * c + ((p % c) + i)

(* A number lies in one part only.                                         *)
LEMMA OnePartOf ==
  ASSUME NEW c \in Nat \ {0}, NEW p \in Nat, NEW n \in Nat \ {0}
  PROVE  InOnePart(c, p, n)
  BY OnePart DEF InOnePart

-----------------------------------------------------------------------------
(* VDI: a turn takes bytes of one block.                                   *)
LEMMA VdiServes ==
  ASSUME NEW d, FileTyped(d), VdiTyped(d), VdiAccepts(d),
         NEW p \in Nat, NEW n \in Nat \ {0}, p + n =< d.size, NEW bytes
  PROVE  /\ PlaceOK(VdiPlace(d, p, n), n) /\ VdiPlace(d, p, n).from # "unit"
         /\ VdiWritten(d) => Shows(VdiPlace(d, p, n), bytes, d.guest, p)
<1> DEFINE c == d.block
           b == p \div c
           o == p % c
           m == Least(n, c - o)
           stored == b < d.entries /\ d.table[b] \notin {-1, -2}
           first == VdiDataAt(d) + d.table[b] * (d.block + VdiExtra(d)) + VdiExtra(d)
           place == VdiPlace(d, p, n)
<1>1. /\ c \in Nat \ {0} /\ d.entries \in Nat \ {0} /\ d.size \in Nat
      /\ VdiExtra(d) \in Nat /\ VdiDataAt(d) \in Nat
      /\ \A k \in 0..d.entries - 1 : d.table[k] \in Nat \cup {-1, -2}
  BY DEF VdiTyped, VdiAccepts, VdiExtra, VdiDataAt, VdiBlocksAt
<1>2. /\ b \in Nat /\ o \in 0..c - 1 /\ m \in 1..n
      /\ \A i \in 0..m - 1 : /\ o + i \in 0..c - 1 /\ i < n
                             /\ p + i = b * c + (o + i)
  BY <1>1, OnePart
<1>3. place = IF stored THEN Host(d, first + o, m) ELSE Zeros(m)
  BY DEF VdiPlace
<1>4. stored => first \in Int
  <2> SUFFICES ASSUME stored PROVE first \in Int
    OBVIOUS
  <2>1. d.table[b] \in Int /\ d.block + VdiExtra(d) \in Int
    BY <1>1, <1>2
  <2> HIDE DEF b
  <2>2. d.table[b] * (d.block + VdiExtra(d)) \in Int
    BY <2>1
  <2> QED
    BY <1>1, <2>2
<1>5. d.entries * c \in Int /\ (~ (b < d.entries) => p >= d.entries * c)
  <2>1. p < d.entries * c => b < d.entries
    BY <1>1, DivBelow
  <2>2. d.entries * c \in Int
    BY <1>1
  <2> HIDE DEF b
  <2> QED
    BY <2>1, <2>2
<1> HIDE DEF b, o, m, place
<1>6. ASSUME VdiWritten(d), NEW i \in 0..m - 1
      PROVE  d.guest[p + i] = IF stored THEN HostByte(d.base, d.held, (first + o) + i) ELSE 0
  <2>1. CASE b < d.entries
    <3>1. b \in 0..d.entries - 1 /\ o + i \in 0..d.block - 1 /\ p + i = b * d.block + (o + i)
      BY <1>1, <1>2, <2>1
    <3>2. b * d.block + (o + i) < d.size
      BY <1>1, <1>2, <3>1
    <3>3. d.guest[p + i] = IF d.table[b] \in {-1, -2} THEN 0
                           ELSE HostByte(d.base, d.held, first + (o + i))
      BY <1>6, <3>1, <3>2 DEF VdiWritten
    <3> HIDE DEF first
    <3>4. stored => first + (o + i) = (first + o) + i
      BY <1>1, <1>2, <1>4
    <3> QED
      BY <2>1, <3>3, <3>4
  <2>2. CASE ~ (b < d.entries)
    <3>1. p + i \in d.entries * d.block..d.size - 1
      BY <1>1, <1>2, <1>5, <2>2
    <3> QED
      BY <1>6, <2>2, <3>1 DEF VdiWritten
  <2> QED
    BY <2>1, <2>2
<1>7. stored => first + o \in Int
  <2> HIDE DEF first
  <2> QED
    BY <1>1, <1>2, <1>4
<1>8. CASE stored
  <2>1. place = Host(d, first + o, m) /\ first + o \in Int
    BY <1>3, <1>7, <1>8
  <2>2. VdiWritten(d) => \A i \in 0..m - 1 : d.guest[p + i] = HostByte(d.base, d.held, (first + o) + i)
    BY <1>6, <1>8
  <2> HIDE DEF stored, first
  <2> QED
    BY <1>2, <2>1, <2>2, HostShows DEF place
<1>9. CASE ~stored
  <2>1. place = Zeros(m)
    BY <1>3, <1>9
  <2>2. VdiWritten(d) => \A i \in 0..m - 1 : d.guest[p + i] = 0
    BY <1>6, <1>9
  <2> QED
    BY <1>2, <2>1, <2>2, ZerosShow DEF place
<1> QED
  BY <1>8, <1>9

(* Parallels: a turn takes bytes of one cluster.                           *)
LEMMA ParallelsServes ==
  ASSUME NEW d, FileTyped(d), ParallelsTyped(d), ParallelsAccepts(d),
         NEW p \in Nat, NEW n \in Nat \ {0}, p + n =< d.size * Sector, NEW bytes
  PROVE  /\ PlaceOK(ParallelsPlace(d, p, n), n) /\ ParallelsPlace(d, p, n).from # "unit"
         /\ ParallelsWritten(d) => Shows(ParallelsPlace(d, p, n), bytes, d.guest, p)
<1> DEFINE c == d.tracks * Sector
           size == d.size * Sector
           b == p \div c
           o == p % c
           m == Least(n, c - o)
           stored == b < d.entries /\ d.bat[b] # 0
           first == d.bat[b] * (IF d.ext THEN c ELSE Sector)
           place == ParallelsPlace(d, p, n)
<1>1. /\ d.tracks \in Nat \ {0} /\ Sector \in Nat \ {0} /\ d.entries \in Nat \ {0}
      /\ d.size \in Nat /\ \A k \in 0..d.entries - 1 : d.bat[k] \in Nat
  BY DiskImagesAssumption DEF ParallelsTyped, ParallelsAccepts
<1>2. c \in Nat \ {0} /\ size \in Nat
  BY <1>1
<1>3. place = IF stored THEN Host(d, first + o, m) ELSE Zeros(m)
  BY DEF ParallelsPlace
<1>4. ParallelsWritten(d) =>
        /\ \A k \in 0..d.entries - 1, x \in 0..c - 1 : k * c + x < size =>
             d.guest[k * c + x] =
               IF d.bat[k] = 0 THEN 0
               ELSE HostByte(d.base, d.held, d.bat[k] * (IF d.ext THEN c ELSE Sector) + x)
        /\ \A x \in d.entries * c..size - 1 : d.guest[x] = 0
  BY DEF ParallelsWritten
<1>5. p + n =< size
  OBVIOUS
<1> HIDE DEF c, size
<1>6. /\ b \in Nat /\ o \in 0..c - 1 /\ m \in 1..n
      /\ \A i \in 0..m - 1 : /\ o + i \in 0..c - 1 /\ i < n
                             /\ p + i = b * c + (o + i)
  BY <1>2, OnePart
<1>7. stored => first \in Int
  <2> SUFFICES ASSUME stored PROVE first \in Int
    OBVIOUS
  <2>1. d.bat[b] \in Int
    BY <1>1, <1>6
  <2> HIDE DEF b
  <2>2. CASE d.ext
    BY <1>2, <2>1, <2>2
  <2>3. CASE ~d.ext
    BY <1>1, <2>1, <2>3
  <2> QED
    BY <2>2, <2>3
<1>8. d.entries * c \in Int /\ (~ (b < d.entries) => p >= d.entries * c)
  <2>1. p < d.entries * c => b < d.entries
    BY <1>1, <1>2, DivBelow
  <2>2. d.entries * c \in Int
    BY <1>1, <1>2
  <2> HIDE DEF b
  <2> QED
    BY <2>1, <2>2
<1> HIDE DEF b, o, m, place
<1>9. ASSUME ParallelsWritten(d), NEW i \in 0..m - 1
      PROVE  d.guest[p + i] = IF stored THEN HostByte(d.base, d.held, (first + o) + i) ELSE 0
  <2>1. CASE b < d.entries
    <3>1. b \in 0..d.entries - 1 /\ o + i \in 0..c - 1 /\ p + i = b * c + (o + i)
      BY <1>1, <1>6, <2>1
    <3>2. b * c + (o + i) < size
      BY <1>2, <1>5, <1>6, <3>1
    <3>3. d.guest[p + i] = IF d.bat[b] = 0 THEN 0
                           ELSE HostByte(d.base, d.held, first + (o + i))
      BY <1>4, <1>9, <3>1, <3>2
    <3> HIDE DEF first
    <3>4. stored => first + (o + i) = (first + o) + i
      BY <1>2, <1>6, <1>7
    <3> QED
      BY <2>1, <3>3, <3>4
  <2>2. CASE ~ (b < d.entries)
    <3>1. p + i \in d.entries * c..size - 1
      BY <1>2, <1>5, <1>6, <1>8, <2>2
    <3> QED
      BY <1>4, <1>9, <2>2, <3>1
  <2> QED
    BY <2>1, <2>2
<1>10. stored => first + o \in Int
  <2> HIDE DEF first
  <2> QED
    BY <1>2, <1>6, <1>7
<1>11. CASE stored
  <2>1. place = Host(d, first + o, m) /\ first + o \in Int
    BY <1>3, <1>10, <1>11
  <2>2. ParallelsWritten(d) => \A i \in 0..m - 1 : d.guest[p + i] = HostByte(d.base, d.held, (first + o) + i)
    BY <1>9, <1>11
  <2> HIDE DEF stored, first
  <2> QED
    BY <1>6, <2>1, <2>2, HostShows DEF place
<1>12. CASE ~stored
  <2>1. place = Zeros(m)
    BY <1>3, <1>12
  <2>2. ParallelsWritten(d) => \A i \in 0..m - 1 : d.guest[p + i] = 0
    BY <1>9, <1>12
  <2> QED
    BY <1>6, <2>1, <2>2, ZerosShow DEF place
<1> QED
  BY <1>11, <1>12

-----------------------------------------------------------------------------
(* Two numbers below theirs make one below the product.                    *)
LEMMA Compose ==
  ASSUME NEW a \in Nat \ {0}, NEW b \in Nat \ {0}, NEW x \in 0..a - 1, NEW y \in 0..b - 1
  PROVE  x * b + y \in 0..a * b - 1
<1>1. x * b =< (a - 1) * b
  OBVIOUS
<1>2. (a - 1) * b = a * b - b /\ x * b \in Nat /\ a * b \in Nat
  OBVIOUS
<1> QED
  BY <1>1, <1>2

(* The table of a grain and its place in the table, found sector by sector.*)
GrainFound(grain, per, S, p) ==
  LET whole == p \div (grain * S)
      sector == p \div S
  IN  /\ whole \in Nat
      /\ sector \div (grain * per) = whole \div per
      /\ (sector - (whole \div per) * grain * per) \div grain = whole % per

(* Every grain of a sparse extent has its place in one table.              *)
LEMMA GrainsFound ==
  ASSUME NEW grain \in Nat \ {0}, NEW per \in Nat \ {0}, NEW S \in Nat \ {0}, NEW p \in Nat
  PROVE  GrainFound(grain, per, S, p)
<1> DEFINE whole == p \div (grain * S)
           o == p % (grain * S)
           t == whole \div per
           g == whole % per
           w == o \div S
           x == o % S
<1>1. grain * S \in Nat \ {0} /\ grain * per \in Nat \ {0}
  OBVIOUS
<1>2. whole \in Nat /\ o \in 0..grain * S - 1 /\ p = whole * (grain * S) + o
  <2> DEFINE c == grain * S
  <2>1. c \in Nat \ {0}
    BY <1>1
  <2> HIDE DEF c
  <2>2. p \div c \in Nat /\ p % c \in 0..c - 1 /\ p = (p \div c) * c + (p % c)
    BY <2>1, DivModOf
  <2> QED
    BY <2>2 DEF c
<1> HIDE DEF whole, o
<1>3. t \in Nat /\ g \in 0..per - 1 /\ whole = t * per + g
  BY <1>2, DivModOf
<1>4. o \in Nat /\ w \in 0..grain - 1 /\ x \in 0..S - 1 /\ o = w * S + x
  <2>1. o \in Nat /\ o < grain * S
    BY <1>1, <1>2
  <2>2. w \in Nat /\ x \in 0..S - 1 /\ o = w * S + x /\ w < grain
    BY <2>1, DivModOf, DivBelow
  <2> QED
    BY <2>1, <2>2
<1> HIDE DEF t, g, w, x
<1>5. p \div S = whole * grain + w
  <2>1. p = (whole * grain + w) * S + x
    BY <1>2, <1>4
  <2>2. whole * grain + w \in Int
    BY <1>2, <1>4
  <2> QED
    BY <1>4, <2>1, <2>2, DivMod
<1>6. whole * grain + w = t * (grain * per) + (g * grain + w)
  <2>1. whole * grain = t * (grain * per) + g * grain
    BY <1>2, <1>3
  <2>2. whole * grain \in Int /\ t * (grain * per) \in Int /\ g * grain \in Int
    BY <1>2, <1>3
  <2> QED
    BY <1>4, <2>1, <2>2
<1>7. g * grain + w \in 0..grain * per - 1
  BY <1>3, <1>4, Compose
<1>8. (p \div S) \div (grain * per) = t
  <2> DEFINE C == grain * per
             X == g * grain + w
  <2>1. C \in Nat \ {0} /\ X \in 0..C - 1 /\ p \div S = t * C + X
    BY <1>1, <1>5, <1>6, <1>7
  <2> HIDE DEF C, X
  <2>2. (t * C + X) \div C = t
    BY <1>3, <2>1, DivMod
  <2> QED
    BY <2>1, <2>2 DEF C
<1>9. ((p \div S) - t * grain * per) \div grain = g
  <2>1. t * grain * per = t * (grain * per) /\ t * (grain * per) \in Int
    BY <1>3
  <2>2. (p \div S) - t * grain * per = g * grain + w
    BY <1>5, <1>6, <1>7, <2>1
  <2>3. (g * grain + w) \div grain = g
    BY <1>3, <1>4, DivMod
  <2> QED
    BY <2>2, <2>3
<1> QED
  BY <1>1, <1>2, <1>8, <1>9 DEF whole, t, g, GrainFound

(* VMDK: a turn takes bytes of one grain.  A sparse extent may be a part   *)
(* of a disk, so what it holds is compared with any content.               *)
LEMMA SparseServes ==
  ASSUME NEW d, SparseTyped(d), SparseAccepts(d),
         NEW p \in Nat, NEW n \in Nat \ {0}, p + n =< d.sectors * Sector, NEW guest, NEW bytes
  PROVE  /\ PlaceOK(SparsePlace(d, p, n), n) /\ SparsePlace(d, p, n).from # "unit"
         /\ SparseWritten(d, guest) => Shows(SparsePlace(d, p, n), bytes, guest, p)
<1> DEFINE c == d.grain * Sector
           size == d.sectors * Sector
           whole == p \div c
           t == whole \div d.perTable
           g == whole % d.perTable
           o == p % c
           m == Least(n, c - o)
           stored == SparseGrain(d, p) # 0
           first == SparseGrain(d, p) * Sector
           place == SparsePlace(d, p, n)
<1>1. /\ d.grain \in Nat \ {0} /\ d.perTable \in Nat \ {0} /\ d.sectors \in Nat \ {0}
      /\ Sector \in Nat \ {0} /\ FileTyped(d) /\ d.held \in Nat
  BY DiskImagesAssumption DEF SparseTyped, SparseAccepts, FileTyped
<1>2. c \in Nat \ {0} /\ size \in Nat /\ p + n =< size
  BY <1>1
<1>3. place = IF ~stored THEN Zeros(m) ELSE Host(d, first + o, m)
  BY DEF SparsePlace
<1>4. /\ whole \in Nat
      /\ (p \div Sector) \div (d.grain * d.perTable) = t
      /\ ((p \div Sector) - t * d.grain * d.perTable) \div d.grain = g
  <2>1. GrainFound(d.grain, d.perTable, Sector, p)
    BY <1>1, GrainsFound
  <2> QED
    BY <2>1 DEF GrainFound
<1>5. t \in 0..GrainTables(d) - 1
  <2> DEFINE s == p \div Sector
             cover == d.grain * d.perTable
  <2>1. s \in Nat /\ s < d.sectors
    <3>1. p < d.sectors * Sector
      BY <1>2
    <3> QED
      BY <1>1, <3>1, DivBelow, DivModOf
  <2>2. cover \in Nat \ {0}
    BY <1>1
  <2>3. t = s \div cover
    BY <1>4
  <2> HIDE DEF s, cover, t
  <2>4. CeilDiv(d.sectors, cover) \in Nat /\ t < CeilDiv(d.sectors, cover) /\ t \in Nat
    BY <1>1, <2>1, <2>2, <2>3, CeilDivCovers, DivModOf
  <2> QED
    BY <2>4 DEF GrainTables, cover
<1>6. g \in 0..d.perTable - 1 /\ whole = t * d.perTable + g
  <2> HIDE DEF whole
  <2> QED
    BY <1>1, <1>4, DivModOf
<1> DEFINE table == d.directory[t]
           empty == table = 0 \/ table * Sector + 4 * g + 4 > d.held
<1>7. SparseGrain(d, p) = IF empty THEN 0 ELSE d.tables[table][g]
  <2> HIDE DEF t, g, whole
  <2>1. GrainTables(d) \in Int /\ t \in Int /\ ~ (t >= GrainTables(d))
    <3>1. GrainTables(d) \in Int
      <4>1. d.grain * d.perTable \in Nat \ {0}
        BY <1>1
      <4> QED
        BY <1>1, <4>1 DEF GrainTables, CeilDiv
    <3> QED
      BY <1>5, <3>1
  <2> QED
    BY <1>4, <2>1 DEF SparseGrain
<1>8. /\ whole \in Nat /\ o \in 0..c - 1 /\ m \in 1..n
      /\ \A i \in 0..m - 1 : /\ o + i \in 0..c - 1 /\ i < n
                             /\ p + i = whole * c + (o + i)
  <2> HIDE DEF c
  <2> QED
    BY <1>2, OnePart
<1>9. SparseGrain(d, p) \in Nat
  <2> HIDE DEF t, g
  <2>1. /\ table \in Nat
        /\ table # 0 /\ table * Sector + 4 * g + 4 =< d.held => d.tables[table][g] \in Nat
    BY <1>5, <1>6 DEF SparseTyped
  <2>2. ~empty => table # 0 /\ table * Sector + 4 * g + 4 =< d.held
    BY <1>1, <1>6, <2>1
  <2> HIDE DEF empty, table
  <2> QED
    BY <1>7, <2>1, <2>2
<1>10. ASSUME SparseWritten(d, guest), NEW i \in 0..m - 1
       PROVE  guest[p + i] = IF stored THEN HostByte(d.base, d.held, (first + o) + i) ELSE 0
  <2> HIDE DEF t, g, whole, o, m
  <2>1. o + i \in 0..c - 1 /\ p + i = (t * d.perTable + g) * c + (o + i)
    BY <1>6, <1>8
  <2>2. (t * d.perTable + g) * c + (o + i) < size
    <3> HIDE DEF c, size
    <3> QED
      BY <1>2, <1>8, <2>1
  <2>3. guest[p + i] = IF empty \/ d.tables[table][g] = 0 THEN 0
                       ELSE HostByte(d.base, d.held, d.tables[table][g] * Sector + (o + i))
    BY <1>5, <1>6, <1>10, <2>1, <2>2 DEF SparseWritten
  <2>4. first \in Int /\ first + (o + i) = (first + o) + i
    <3>1. first \in Int
      BY <1>1, <1>9
    <3> HIDE DEF first, c
    <3> QED
      BY <1>2, <1>8, <3>1
  <2> HIDE DEF empty, table
  <2>5. CASE empty
    BY <1>7, <2>3, <2>5
  <2>6. CASE ~empty
    BY <1>7, <2>3, <2>4, <2>6
  <2> QED
    BY <2>5, <2>6
<1>11. first + o \in Int
  <2>1. first \in Int
    BY <1>1, <1>9
  <2> HIDE DEF first, c, o
  <2> QED
    BY <1>2, <1>8, <2>1
<1> HIDE DEF t, g, whole, o, m, place, empty, table
<1>12. CASE stored
  <2>1. place = Host(d, first + o, m) /\ first + o \in Int
    BY <1>3, <1>11, <1>12
  <2>2. SparseWritten(d, guest) =>
          \A i \in 0..m - 1 : guest[p + i] = HostByte(d.base, d.held, (first + o) + i)
    BY <1>10, <1>12
  <2> HIDE DEF stored, first
  <2> QED
    BY <1>1, <1>8, <2>1, <2>2, HostShows DEF place
<1>13. CASE ~stored
  <2>1. place = Zeros(m)
    BY <1>3, <1>13
  <2>2. SparseWritten(d, guest) => \A i \in 0..m - 1 : guest[p + i] = 0
    BY <1>10, <1>13
  <2> QED
    BY <1>8, <2>1, <2>2, ZerosShow DEF place
<1> QED
  BY <1>12, <1>13

-----------------------------------------------------------------------------
(* Division keeps the order and makes nothing larger.                      *)
LEMMA DivMonotone ==
  ASSUME NEW c \in Nat \ {0}, NEW a \in Nat, NEW b \in Nat, a =< b
  PROVE  a \div c =< b \div c /\ a \div c =< a
  OBVIOUS

(* VHDX: a block of the disk has its entry in the table of the file.       *)
LEMMA VhdxEntryInside ==
  ASSUME NEW d, VhdxTyped(d), VhdxAccepts(d), NEW b \in Nat, b < VhdxBlocks(d)
  PROVE  /\ VhdxRatio(d) \in Nat \ {0} /\ VhdxBlocks(d) \in Nat
         /\ b \div VhdxRatio(d) \in 0..VhdxBlocks(d) - 1
         /\ b % VhdxRatio(d) \in 0..VhdxRatio(d) - 1
         /\ VhdxIndex(d, b) \in 0..VhdxRegion(d).batEntries - 1
<1> DEFINE r == VhdxRatio(d)
           B == VhdxBlocks(d)
           q == b \div r
           k == b % r
<1>1. /\ d.block \in Nat \ {0} /\ d.sector \in Nat \ {0} /\ d.size \in Nat \ {0}
      /\ ChunkSectors \in Nat \ {0} /\ VhdxRegion(d).batEntries \in Nat
  BY DiskImagesAssumption DEF VhdxTyped, VhdxAccepts, VhdxMetadataOK
<1>2. r \in Nat \ {0}
  <2>1. ChunkSectors * d.sector \in Nat
    BY <1>1
  <2>2. r \in Nat
    BY <1>1, <2>1, DivModOf DEF VhdxRatio
  <2> QED
    BY <2>2 DEF VhdxAccepts, VhdxTableOK
<1>3. B \in Nat
  BY <1>1 DEF VhdxBlocks, CeilDiv
<1>4. B + (B - 1) \div r =< VhdxRegion(d).batEntries
  BY DEF VhdxAccepts, VhdxTableOK, VhdxEntries
<1>5. VhdxIndex(d, b) = q * (r + 1) + k
  BY DEF VhdxIndex
<1> HIDE DEF r, B
<1>6. q \in Nat /\ k \in 0..r - 1 /\ b = q * r + k /\ q =< b
  <2>1. q \in Nat /\ k \in 0..r - 1 /\ b = q * r + k
    BY <1>2, DivModOf
  <2>2. b \div r =< b
    BY <1>2, DivMonotone
  <2> QED
    BY <2>1, <2>2
<1>7. b =< B - 1 /\ B - 1 \in Nat
  BY <1>3 DEF B
<1>8. q =< (B - 1) \div r /\ (B - 1) \div r \in Nat
  BY <1>2, <1>7, DivMonotone, DivModOf
<1> HIDE DEF q, k
<1>9. q * (r + 1) + k = b + q
  <2>1. q * (r + 1) = q * r + q /\ q * r \in Int
    BY <1>2, <1>6
  <2> QED
    BY <1>2, <1>6, <2>1
<1>10. VhdxIndex(d, b) \in 0..VhdxRegion(d).batEntries - 1
  BY <1>1, <1>3, <1>4, <1>5, <1>6, <1>7, <1>8, <1>9
<1> QED
  BY <1>2, <1>3, <1>6, <1>7, <1>10 DEF r, B, q, k

(* VHDX: a turn takes bytes of one block.                                  *)
LEMMA VhdxServes ==
  ASSUME NEW d, FileTyped(d), VhdxTyped(d), VhdxAccepts(d),
         NEW p \in Nat, NEW n \in Nat \ {0}, p + n =< d.size, NEW bytes
  PROVE  /\ PlaceOK(VhdxPlace(d, p, n), n) /\ VhdxPlace(d, p, n).from # "unit"
         /\ VhdxWritten(d) => Shows(VhdxPlace(d, p, n), bytes, d.guest, p)
<1> DEFINE c == d.block
           b == p \div c
           o == p % c
           m == Least(n, c - o)
           e == VhdxRegion(d).bat[VhdxIndex(d, b)]
           stored == e.state = "full"
           first == e.at * MiB
           place == VhdxPlace(d, p, n)
<1>1. c \in Nat \ {0} /\ d.size \in Nat /\ MiB \in Nat
  BY DiskImagesAssumption DEF VhdxTyped, VhdxAccepts, VhdxMetadataOK
<1>2. /\ b \in Nat /\ o \in 0..c - 1 /\ m \in 1..n
      /\ \A i \in 0..m - 1 : /\ o + i \in 0..c - 1 /\ i < n
                             /\ p + i = b * c + (o + i)
  BY <1>1, OnePart
<1>3. b < VhdxBlocks(d)
  <2>1. p < d.size
    BY <1>1
  <2>2. b < CeilDiv(d.size, c)
    BY <1>1, <2>1, CeilDivCovers
  <2> QED
    BY <2>2 DEF VhdxBlocks
<1>4. place = IF stored THEN Host(d, first + o, m) ELSE Zeros(m)
  BY <1>3 DEF VhdxPlace
<1> DEFINE r == VhdxRatio(d)
           q == b \div r
           k == b % r
<1> HIDE DEF b
<1>5. /\ r \in Nat \ {0} /\ q \in 0..VhdxBlocks(d) - 1 /\ k \in 0..r - 1
      /\ VhdxIndex(d, b) \in 0..VhdxRegion(d).batEntries - 1
  BY <1>2, <1>3, VhdxEntryInside
<1>6. VhdxIndex(d, b) = q * (r + 1) + k /\ b = q * r + k
  <2>1. VhdxIndex(d, b) = q * (r + 1) + k
    BY DEF VhdxIndex
  <2> HIDE DEF r
  <2> QED
    BY <1>2, <1>5, <2>1, DivModOf
<1>7. e.at \in Nat
  BY <1>5 DEF VhdxTyped
<1>8. first \in Int /\ first + o \in Int
  <2> HIDE DEF e
  <2>1. first \in Int
    BY <1>1, <1>7
  <2> HIDE DEF first
  <2> QED
    BY <1>1, <1>2, <2>1
<1>9. ASSUME VhdxWritten(d), NEW i \in 0..m - 1
      PROVE  d.guest[p + i] = IF stored THEN HostByte(d.base, d.held, (first + o) + i) ELSE 0
  <2> HIDE DEF o, m, place, r, q, k
  <2>1. o + i \in 0..d.block - 1 /\ p + i = (q * r + k) * d.block + (o + i)
    BY <1>2, <1>6
  <2>2. (q * r + k) * d.block + (o + i) < d.size
    BY <1>1, <1>2, <2>1
  <2>3. q * (r + 1) + k < VhdxRegion(d).batEntries
    <3>1. VhdxRegion(d).batEntries \in Nat
      BY DEF VhdxTyped
    <3> QED
      BY <1>5, <1>6, <3>1
  <2>4. d.guest[p + i] = IF stored THEN HostByte(d.base, d.held, first + (o + i)) ELSE 0
    BY <1>5, <1>6, <1>9, <2>1, <2>2, <2>3 DEF VhdxWritten, r
  <2> HIDE DEF first, stored
  <2>5. first + (o + i) = (first + o) + i
    BY <1>1, <1>2, <1>8
  <2> QED
    BY <2>4, <2>5
<1> HIDE DEF o, m, place, e
<1>10. CASE stored
  <2>1. place = Host(d, first + o, m)
    BY <1>4, <1>10
  <2>2. VhdxWritten(d) =>
          \A i \in 0..m - 1 : d.guest[p + i] = HostByte(d.base, d.held, (first + o) + i)
    BY <1>9, <1>10
  <2> HIDE DEF stored, first
  <2> QED
    BY <1>2, <1>8, <2>1, <2>2, HostShows DEF place
<1>11. CASE ~stored
  <2>1. place = Zeros(m)
    BY <1>4, <1>11
  <2>2. VhdxWritten(d) => \A i \in 0..m - 1 : d.guest[p + i] = 0
    BY <1>9, <1>11
  <2> QED
    BY <1>2, <2>1, <2>2, ZerosShow DEF place
<1> QED
  BY <1>10, <1>11

-----------------------------------------------------------------------------
(* A VHD that is mounted has a size.                                       *)
LEMMA VhdSizeIs ==
  ASSUME NEW d, FileTyped(d), VhdTyped(d)
  PROVE  VhdSize(d) \in Int /\ (VhdAccepts(d) => VhdSize(d) > 0)
<1>1. /\ VhdFooter(d).size \in Int
      /\ VhdFooter(d).sound => VhdFooter(d).size > 0
  BY DEF VhdTyped, VhdFooter, NoFooter
<1>2. Sector \in Int /\ d.capacity \in Int
  BY DiskImagesAssumption DEF FileTyped
<1>3. VhdSize(d) \in Int
  BY <1>1, <1>2 DEF VhdSize, Least
<1>4. VhdAccepts(d) => VhdSize(d) > 0
  <2>1. CASE VhdFixed(d)
    BY <1>3, <2>1 DEF VhdAccepts, VhdFixed
  <2>2. CASE ~VhdFixed(d)
    BY <1>1, <2>2 DEF VhdAccepts, VhdSize
  <2> QED
    BY <2>1, <2>2
<1> QED
  BY <1>3, <1>4

(* A dynamic VHD: a turn takes bytes of one sector, which lies in the file *)
(* when the bitmap of its block marks it.                                  *)
LEMMA VhdServes ==
  ASSUME NEW d, FileTyped(d), VhdTyped(d), VhdAccepts(d), ~VhdFixed(d),
         NEW p \in Nat, NEW n \in Nat \ {0}, p + n =< VhdSize(d), NEW bytes, NEW marked,
         marked = IF VhdMaps(d, p \div d.block) THEN VhdBitmap(d, p \div d.block) ELSE {}
  PROVE  /\ PlaceOK(VhdPlace(d, p, n, marked), n) /\ VhdPlace(d, p, n, marked).from # "unit"
         /\ VhdWritten(d) => Shows(VhdPlace(d, p, n, marked), bytes, d.guest, p)
<1> DEFINE c == d.block
           b == p \div c
           x == p % c
           s == x \div Sector
           o == x % Sector
           m == Least(n, Sector - o)
           stored == s \in marked
           first == d.bat[b] * Sector + VhdBitmapBytes(d) + s * Sector
           place == VhdPlace(d, p, n, marked)
<1>1. /\ c \in Nat \ {0} /\ Sector \in Nat \ {0} /\ d.entries \in Nat \ {0}
      /\ VhdSize(d) \in Int /\ \A k \in 0..d.entries - 1 : d.bat[k] \in Nat \cup {-1}
  BY VhdSizeIs, DiskImagesAssumption DEF VhdTyped, VhdAccepts, VhdTableOK
<1>2. b \in Nat /\ x \in 0..c - 1 /\ p = b * c + x
  BY <1>1, DivModOf
<1>3. place = IF stored THEN Host(d, first + o, m) ELSE Zeros(m)
  BY DEF VhdPlace
<1>4. marked = IF b < d.entries /\ d.bat[b] # -1 THEN VhdBitmap(d, b) ELSE {}
  BY DEF VhdMaps
<1> HIDE DEF b, x
<1>5. /\ s \in Nat /\ o \in 0..Sector - 1 /\ m \in 1..n
      /\ \A i \in 0..m - 1 : /\ o + i \in 0..Sector - 1 /\ i < n
                             /\ x + i = s * Sector + (o + i)
  <2>1. x \in Nat
    BY <1>1, <1>2
  <2> QED
    BY <1>1, <2>1, OnePart
<1>6. VhdBitmapBytes(d) \in Int
  <2>1. Sector * BitmapBits \in Nat \ {0}
    BY DiskImagesAssumption
  <2>2. CeilDiv(d.block, Sector * BitmapBits) \in Int
    BY <1>1, <2>1 DEF CeilDiv
  <2>3. CeilDiv(CeilDiv(d.block, Sector * BitmapBits), Sector) \in Int
    BY <1>1, <2>2 DEF CeilDiv
  <2> QED
    BY <1>1, <2>3 DEF VhdBitmapBytes
<1>7. stored => d.bat[b] \in Nat
  BY <1>1, <1>2, <1>4
<1>8. stored => /\ first \in Int /\ first + o \in Int
                /\ first = (d.bat[b] + s) * Sector + VhdBitmapBytes(d)
  <2> SUFFICES ASSUME stored PROVE /\ first \in Int /\ first + o \in Int
                /\ first = (d.bat[b] + s) * Sector + VhdBitmapBytes(d)
    OBVIOUS
  <2>1. d.bat[b] \in Nat
    BY <1>7
  <2> HIDE DEF s
  <2>2. /\ d.bat[b] * Sector \in Int /\ s * Sector \in Int
        /\ (d.bat[b] + s) * Sector = d.bat[b] * Sector + s * Sector
    BY <1>1, <1>5, <2>1
  <2> QED
    BY <1>1, <1>5, <1>6, <2>2
<1> HIDE DEF s, o, m, place, stored
<1>9. ASSUME VhdWritten(d), NEW i \in 0..m - 1
      PROVE  d.guest[p + i] = IF stored THEN HostByte(d.base, d.held, (first + o) + i) ELSE 0
  <2>1. c % Sector = 0
    BY <1>9 DEF VhdWritten
  <2>2. c = (c \div Sector) * Sector /\ c \div Sector \in Nat
    <3>1. c \in Nat /\ Sector \in Nat \ {0}
      BY <1>1
    <3> HIDE DEF c
    <3>2. c \div Sector \in Nat /\ c = (c \div Sector) * Sector + (c % Sector)
      BY <3>1, DivModOf
    <3>3. (c \div Sector) * Sector \in Int
      BY <3>1, <3>2
    <3> QED
      BY <2>1, <3>2, <3>3
  <2>3. s \in 0..(c \div Sector) - 1
    <3>1. x \in Nat /\ x < (c \div Sector) * Sector
      BY <1>1, <1>2, <2>2
    <3>2. x \div Sector < c \div Sector
      BY <1>1, <2>2, <3>1, DivBelow
    <3> QED
      BY <1>5, <2>2, <3>2 DEF s
  <2>4. /\ o + i \in 0..Sector - 1 /\ p + i = b * c + s * Sector + (o + i)
        /\ p + i < VhdSize(d)
    <3>1. b * c \in Int /\ s * Sector \in Int
      BY <1>1, <1>2, <1>5
    <3> HIDE DEF c
    <3> QED
      BY <1>1, <1>2, <1>5, <1>9, <3>1
  <2>5. CASE b < d.entries
    <3>1. b \in 0..d.entries - 1
      BY <1>1, <1>2, <2>5
    <3>2. d.guest[p + i] = IF d.bat[b] # -1 /\ s \in VhdBitmap(d, b)
                             THEN HostByte(d.base, d.held, (d.bat[b] + s) * Sector
                                                             + VhdBitmapBytes(d) + (o + i))
                             ELSE 0
      BY <1>9, <2>3, <2>4, <3>1 DEF VhdWritten
    <3>3. stored <=> d.bat[b] # -1 /\ s \in VhdBitmap(d, b)
      BY <1>4, <2>5 DEF stored
    <3>4. stored => (d.bat[b] + s) * Sector + VhdBitmapBytes(d) + (o + i) = (first + o) + i
      <4>1. stored => /\ first \in Int
                      /\ (d.bat[b] + s) * Sector + VhdBitmapBytes(d) + (o + i) = first + (o + i)
        BY <1>8
      <4> HIDE DEF first
      <4> QED
        BY <1>1, <1>5, <4>1
    <3> QED
      BY <3>2, <3>3, <3>4
  <2>6. CASE ~ (b < d.entries)
    <3>1. p < d.entries * c => b < d.entries
      BY <1>1, DivBelow DEF b
    <3>2. d.entries * c \in Int
      BY <1>1
    <3> HIDE DEF c
    <3>3. p + i \in d.entries * c..VhdSize(d) - 1
      BY <1>1, <1>5, <2>4, <2>6, <3>1, <3>2
    <3>4. d.guest[p + i] = 0
      BY <1>9, <3>3 DEF VhdWritten, c
    <3> QED
      BY <1>4, <2>6, <3>4 DEF stored
  <2> QED
    BY <2>5, <2>6
<1> HIDE DEF first
<1>10. CASE stored
  <2>1. place = Host(d, first + o, m) /\ first + o \in Int
    BY <1>3, <1>8, <1>10
  <2>2. VhdWritten(d) =>
          \A i \in 0..m - 1 : d.guest[p + i] = HostByte(d.base, d.held, (first + o) + i)
    BY <1>9, <1>10
  <2> QED
    BY <1>5, <2>1, <2>2, HostShows DEF place
<1>11. CASE ~stored
  <2>1. place = Zeros(m)
    BY <1>3, <1>11
  <2>2. VhdWritten(d) => \A i \in 0..m - 1 : d.guest[p + i] = 0
    BY <1>9, <1>11
  <2> QED
    BY <1>5, <2>1, <2>2, ZerosShow DEF place
<1> QED
  BY <1>10, <1>11

(* A fixed VHD is a window of its file.                                    *)
LEMMA VhdFixedServes ==
  ASSUME NEW d, FileTyped(d), VhdTyped(d), VhdFixed(d),
         NEW p \in Nat, NEW n \in Nat \ {0}, p + n =< VhdSize(d), NEW bytes
  PROVE  /\ PlaceOK(Window(d, p, n), n) /\ Window(d, p, n).from # "unit"
         /\ VhdWritten(d) => Shows(Window(d, p, n), bytes, d.guest, p)
<1>1. VhdWritten(d) => \A i \in 0..n - 1 : d.guest[p + i] = WindowByte(d, p + i)
  BY VhdSizeIs DEF VhdWritten
<1>2. /\ PlaceOK(Window(d, p, n), n) /\ Window(d, p, n).from # "unit"
      /\ (\A i \in 0..n - 1 : d.guest[p + i] = WindowByte(d, p + i))
           => Shows(Window(d, p, n), bytes, d.guest, p)
  <2>1. p \in Int
    OBVIOUS
  <2> QED
    BY <2>1, WindowShows
<1> QED
  BY <1>1, <1>2

-----------------------------------------------------------------------------
(* A grain of the index follows one of the markers.                        *)
LEMMA StreamGrains ==
  ASSUME NEW d, StreamTyped(d), NEW k
  PROVE  Bytes(StreamBytes(d, k))
<1> DEFINE ends == {i \in DOMAIN d.markers : d.markers[i].what = "end"}
           length == IF ends = {} THEN Len(d.markers)
                     ELSE CHOOSE i \in ends : \A j \in ends : i =< j
           grains == {i \in 1..length : d.markers[i].what = "grain"}
           GrainOf(i) == d.markers[i].sector \div d.grain
           Last(g, i) == GrainOf(i) = g /\ \A j \in grains : GrainOf(j) = g => j =< i
           index == [g \in {GrainOf(i) : i \in grains} |-> CHOOSE i \in grains : Last(g, i)]
<1>1. DOMAIN d.markers = 1..Len(d.markers) /\ Len(d.markers) \in Nat
  BY DEF StreamTyped
<1>2. length \in 0..Len(d.markers)
  <2>1. CASE ends = {}
    BY <1>1, <2>1
  <2>2. CASE ends # {}
    <3>1. ends \in SUBSET Nat
      BY <1>1
    <3>2. \E i \in ends : \A j \in ends : i =< j
      <4> HIDE DEF ends
      <4> QED
        BY <2>2, <3>1, LeastElement
    <3>3. length \in ends
      <4> HIDE DEF ends
      <4> QED
        BY <2>2, <3>2
    <3> QED
      BY <1>1, <3>3
  <2> QED
    BY <2>1, <2>2
<1> HIDE DEF ends, length
<1>3. \A i \in grains : i \in DOMAIN d.markers
  BY <1>1, <1>2
<1>4. ASSUME NEW g \in {GrainOf(i) : i \in grains}
      PROVE  \E i \in grains : Last(g, i)
  <2> DEFINE S == {length - i : i \in {j \in grains : GrainOf(j) = g}}
  <2> HIDE DEF GrainOf
  <2>1. S \in SUBSET Nat
    BY <1>2
  <2>2. S # {}
    BY <1>4
  <2>3. PICK least \in S : \A x \in S : least =< x
    <3> HIDE DEF S
    <3> QED
      BY <2>1, <2>2, LeastElement
  <2>4. PICK i \in grains : GrainOf(i) = g /\ least = length - i
    BY <2>3
  <2>5. ASSUME NEW j \in grains, GrainOf(j) = g PROVE j =< i
    <3>1. length - j \in S
      BY <2>5
    <3>2. length - i =< length - j
      BY <2>3, <2>4, <3>1
    <3> QED
      BY <1>2, <3>2
  <2> QED
    BY <2>4, <2>5
<1>5. StreamIndex(d) = index
  BY DEF StreamIndex, length, ends
<1>6. ASSUME NEW g \in DOMAIN index PROVE index[g] \in DOMAIN d.markers
  <2>1. g \in {GrainOf(i) : i \in grains} /\ index[g] = CHOOSE i \in grains : Last(g, i)
    BY <1>6
  <2> HIDE DEF GrainOf, index
  <2>2. \E i \in grains : Last(g, i)
    BY <1>4, <2>1
  <2> HIDE DEF Last, grains
  <2>3. index[g] \in grains
    BY <2>1, <2>2
  <2> QED
    BY <1>3, <2>3
<1> HIDE DEF index
<1>7. CASE k \in DOMAIN index
  BY <1>5, <1>6, <1>7 DEF StreamTyped, StreamBytes
<1>8. CASE k \notin DOMAIN index
  <2>1. StreamBytes(d, k) = NoBytes
    BY <1>5, <1>8 DEF StreamBytes
  <2> QED
    BY <2>1 DEF Bytes, NoBytes
<1> QED
  BY <1>7, <1>8

(* A streamOptimized VMDK: a turn takes bytes of one inflated grain.       *)
LEMMA StreamServes ==
  ASSUME NEW d, StreamTyped(d), StreamAccepts(d),
         NEW p \in Nat, NEW n \in Nat \ {0}, p + n =< d.sectors * Sector, NEW guest
  PROVE  LET place == StreamPlace(d, p, n)
         IN  /\ PlaceOK(place, n) /\ place.from = "unit"
             /\ StreamWritten(d, guest) => Shows(place, StreamBytes(d, place.key), guest, p)
<1> DEFINE c == d.grain * Sector
           size == d.sectors * Sector
           k == p \div c
           o == p % c
           m == Least(n, c - o)
           place == StreamPlace(d, p, n)
<1>1. d.grain \in Nat \ {0} /\ Sector \in Nat \ {0} /\ d.sectors \in Nat \ {0}
  BY DiskImagesAssumption DEF StreamTyped, StreamAccepts
<1>2. c \in Nat \ {0} /\ size \in Nat /\ p + n =< size
  BY <1>1
<1>3. place = Unit(k, o, m)
  BY DEF StreamPlace
<1>4. k \in 0..CeilDiv(d.sectors, d.grain) - 1
  <2>1. p < CeilDiv(d.sectors, d.grain) * c /\ CeilDiv(d.sectors, d.grain) \in Nat
    <3> DEFINE whole == CeilDiv(d.sectors, d.grain)
    <3>1. whole \in Nat /\ d.sectors =< whole * d.grain
      BY <1>1 DEF CeilDiv
    <3> HIDE DEF whole
    <3>2. d.sectors * Sector =< (whole * d.grain) * Sector
      BY <1>1, <3>1
    <3>3. (whole * d.grain) * Sector = whole * (d.grain * Sector) /\ whole * (d.grain * Sector) \in Int
      BY <1>1, <3>1
    <3> QED
      BY <1>2, <3>1, <3>2, <3>3 DEF whole
  <2> HIDE DEF c
  <2>2. k < CeilDiv(d.sectors, d.grain) /\ k \in Nat
    BY <1>2, <2>1, DivBelow, DivModOf
  <2> QED
    BY <2>1, <2>2
<1>5. StreamWritten(d, guest) =>
        \A j \in 0..CeilDiv(d.sectors, d.grain) - 1, x \in 0..c - 1 :
          j * c + x < size => guest[j * c + x] = UnitByte(StreamBytes(d, j), x)
  BY DEF StreamWritten
<1> HIDE DEF c, size
<1>6. /\ k \in Nat /\ o \in 0..c - 1 /\ m \in 1..n
      /\ \A i \in 0..m - 1 : /\ o + i \in 0..c - 1 /\ i < n
                             /\ p + i = k * c + (o + i)
  BY <1>2, OnePart
<1> HIDE DEF k, o, m, place
<1>7. ASSUME StreamWritten(d, guest), NEW i \in 0..m - 1
      PROVE  guest[p + i] = UnitByte(StreamBytes(d, k), o + i)
  <2>1. k * c + (o + i) < size
    BY <1>2, <1>6
  <2> QED
    BY <1>4, <1>5, <1>6, <1>7, <2>1
<1>8. place.from = "unit" /\ place.key = k
  BY <1>3, PlacesSay
<1>9. o \in Nat
  BY <1>2, <1>6
<1>10. PlaceOK(place, n) /\ (StreamWritten(d, guest) => Shows(place, StreamBytes(d, k), guest, p))
  BY <1>3, <1>6, <1>7, <1>9, UnitShows
<1> QED
  BY <1>8, <1>10 DEF place

-----------------------------------------------------------------------------
(* The run of a byte covers it, and no run before it does.                 *)
DmgCovers(d, s, i) ==
  /\ i \in DOMAIN d.runs /\ d.runs[i].type \notin DmgSkips
  /\ d.runs[i].start =< s /\ s < d.runs[i].start + d.runs[i].sectors

(* The run found for a byte is the first that covers it, or there is none. *)
LEMMA DmgRunIs ==
  ASSUME NEW d, DmgTyped(d), NEW p \in Nat
  PROVE  LET k == DmgRun(d, p)
             s == p \div Sector
         IN  \/ k = 0 /\ \A i : ~DmgCovers(d, s, i)
             \/ k # 0 /\ k \in Nat /\ DmgCovers(d, s, k) /\ \A i : DmgCovers(d, s, i) => k =< i
<1> DEFINE s == p \div Sector
           covers == {i \in DOMAIN d.runs : /\ d.runs[i].type \notin DmgSkips
                                            /\ d.runs[i].start =< s
                                            /\ s < d.runs[i].start + d.runs[i].sectors}
           Least1(i) == \A j \in covers : i =< j
<1>1. \A i : i \in covers <=> DmgCovers(d, s, i)
  BY DEF DmgCovers
<1>2. DmgRun(d, p) = IF covers = {} THEN 0 ELSE CHOOSE i \in covers : Least1(i)
  BY DEF DmgRun
<1>3. covers \in SUBSET Nat /\ 0 \notin covers
  BY DEF DmgTyped
<1> HIDE DEF covers, s
<1>4. CASE covers = {}
  BY <1>1, <1>2, <1>4 DEF s
<1>5. CASE covers # {}
  <2>1. \E i \in covers : Least1(i)
    BY <1>3, <1>5, LeastElement
  <2> HIDE DEF Least1
  <2>2. DmgRun(d, p) \in covers /\ Least1(DmgRun(d, p))
    BY <1>2, <1>5, <2>1
  <2> QED
    BY <1>1, <1>3, <2>2 DEF Least1, s
<1> QED
  BY <1>4, <1>5

(* As far as a run reaches, and runs do not begin inside later ones, its   *)
(* bytes are the run's.                                                    *)
LEMMA DmgRunReaches ==
  ASSUME NEW d, DmgTyped(d), DmgWritten(d), NEW p \in Nat, NEW k, k = DmgRun(d, p), k # 0,
         NEW i \in Nat, p + i < (d.runs[k].start + d.runs[k].sectors) * Sector
  PROVE  DmgRun(d, p + i) = k
<1> DEFINE s == p \div Sector
           t == (p + i) \div Sector
           r == d.runs[k]
           j == DmgRun(d, p + i)
<1>1. Sector \in Nat \ {0} /\ DOMAIN d.runs \subseteq Nat \ {0}
  BY DiskImagesAssumption DEF DmgTyped
<1>2. s \in Nat /\ t \in Nat /\ s =< t
  <2>1. p + i \in Nat /\ p =< p + i
    OBVIOUS
  <2> QED
    BY <1>1, <2>1, DivModOf, DivMonotone
<1>3. DmgCovers(d, s, k) /\ \A x : DmgCovers(d, s, x) => k =< x
  BY DmgRunIs
<1>4. k \in DOMAIN d.runs /\ r.start \in Int /\ r.sectors \in Int /\ r.start =< s
  BY <1>3 DEF DmgCovers, DmgTyped
<1>5. t < r.start + r.sectors
  <2> DEFINE end == r.start + r.sectors
  <2>1. end \in Int /\ p + i \in Nat /\ p + i < end * Sector
    BY <1>4
  <2> HIDE DEF end, r
  <2>2. end \in Nat
    <3>1. end < 0 => end * Sector =< 0
      BY <1>1, <2>1
    <3>2. end * Sector \in Int
      BY <1>1, <2>1
    <3> QED
      BY <2>1, <3>1, <3>2
  <2>3. (p + i) \div Sector < end
    BY <1>1, <2>1, <2>2, DivBelow
  <2> QED
    BY <2>3 DEF end
<1>6. DmgCovers(d, t, k)
  <2>1. k \in DOMAIN d.runs /\ d.runs[k].type \notin DmgSkips
    BY <1>3 DEF DmgCovers
  <2>2. d.runs[k].start =< t /\ t < d.runs[k].start + d.runs[k].sectors
    BY <1>2, <1>4, <1>5
  <2> QED
    BY <2>1, <2>2 DEF DmgCovers
<1>7. j \in Nat /\ j # 0 /\ DmgCovers(d, t, j) /\ j =< k
  <2>1. p + i \in Nat
    OBVIOUS
  <2> QED
    BY <1>6, <2>1, DmgRunIs
<1> HIDE DEF s, t, r, j
<1>8. SUFFICES ASSUME j < k PROVE FALSE
  <2>1. k \in Nat
    BY <1>1, <1>4
  <2> QED
    BY <1>7, <2>1 DEF j
<1> DEFINE x == d.runs[j]
<1>9. j \in DOMAIN d.runs /\ x.start \in Int /\ x.sectors \in Int /\ x.start =< t
      /\ t < x.start + x.sectors /\ x.type \notin DmgSkips
  BY <1>7 DEF DmgCovers, DmgTyped
<1>10. x.start =< r.start \/ r.start + r.sectors =< x.start
  <2>1. {x.type, r.type} \cap DmgSkips = {}
    BY <1>3, <1>9 DEF DmgCovers, r
  <2> QED
    BY <1>4, <1>8, <1>9, <2>1 DEF DmgWritten, r
<1>11. x.start =< s /\ s < x.start + x.sectors
  BY <1>2, <1>4, <1>5, <1>9, <1>10
<1>12. DmgCovers(d, s, j)
  BY <1>9, <1>11 DEF DmgCovers
<1> QED
  BY <1>1, <1>3, <1>4, <1>7, <1>8, <1>12

(* A byte of a run, and -1 where the reads of its disk end.                *)
RunByte(d, k, in) ==
  LET r == d.runs[k]
  IN  CASE k = 0                     -> 0
        [] k # 0 /\ r.type = "zeros" -> 0
        [] k # 0 /\ r.type = "raw"   -> WindowByte(d, r.at + in)
        [] k # 0 /\ r.type = "zlib" /\ d.packs[k] # NoBytes -> UnitByte(d.packs[k], in)
        [] OTHER                     -> -1

(* DMG: a turn takes bytes of one run, or a byte that has none; it takes   *)
(* nothing of a run that does not inflate.                                 *)
LEMMA DmgServes ==
  ASSUME NEW d, FileTyped(d), DmgTyped(d),
         NEW p \in Nat, NEW n \in Nat \ {0}, p + n =< d.sectors * Sector
  PROVE  LET place == DmgPlace(d, p, n)
             bytes == d.packs[place.key]
         IN  /\ PlaceOK(place, n) /\ (place.from = "unit" => Bytes(bytes))
             /\ DmgWritten(d) =>
                  IF place.from = "unit" /\ bytes = NoBytes THEN d.guest[p] = -1
                  ELSE Shows(place, bytes, d.guest, p)
<1> DEFINE k == DmgRun(d, p)
           r == d.runs[k]
           in == p - r.start * Sector
           m == Least(n, r.sectors * Sector - in)
           size == d.sectors * Sector
           place == DmgPlace(d, p, n)
<1>1. Sector \in Nat \ {0} /\ size \in Int /\ p + n =< size
  BY DiskImagesAssumption DEF DmgTyped
<1>2. DmgWritten(d) => \A x \in 0..size - 1 :
        d.guest[x] = RunByte(d, DmgRun(d, x), x - d.runs[DmgRun(d, x)].start * Sector)
  BY DEF DmgWritten, RunByte
<1> HIDE DEF size
<1>3. ASSUME k = 0
      PROVE  place = Zeros(1) /\ (DmgWritten(d) => d.guest[p] = 0)
  <2>1. place = Zeros(1)
    BY <1>3 DEF DmgPlace
  <2>2. p \in 0..size - 1
    BY <1>1
  <2>3. RunByte(d, k, in) = 0
    BY <1>3 DEF RunByte
  <2> QED
    BY <1>2, <2>1, <2>2, <2>3
<1>4. ASSUME k # 0
      PROVE  /\ k \in Nat /\ k \in DOMAIN d.runs /\ r.type \notin DmgSkips
             /\ in \in Nat /\ m \in 1..n /\ r.at \in Int
             /\ \A i \in 0..m - 1 : i < n /\ p + i < (r.start + r.sectors) * Sector
  <2> DEFINE s == p \div Sector
             end == r.start + r.sectors
  <2>1. k \in Nat /\ DmgCovers(d, s, k)
    BY <1>4, DmgRunIs
  <2>2. /\ k \in DOMAIN d.runs /\ r.type \notin DmgSkips /\ r.at \in Int
        /\ r.start \in Int /\ r.sectors \in Int /\ r.start =< s /\ s < end
    BY <2>1 DEF DmgCovers, DmgTyped
  <2>3. s \in Nat /\ p >= s * Sector /\ p < (s + 1) * Sector
    <3>1. s \in Nat /\ p % Sector \in 0..Sector - 1 /\ p = s * Sector + (p % Sector)
      BY <1>1, DivModOf
    <3> DEFINE o == p % Sector
    <3> HIDE DEF s, o
    <3>2. s * Sector \in Int /\ (s + 1) * Sector = s * Sector + Sector
      BY <1>1, <3>1
    <3>3. p = s * Sector + o /\ o \in 0..Sector - 1
      BY <3>1 DEF o
    <3> QED
      BY <1>1, <3>1, <3>2, <3>3
  <2> HIDE DEF s, k
  <2>4. r.start * Sector =< s * Sector /\ (s + 1) * Sector =< end * Sector
    <3>1. s + 1 =< end /\ end \in Int
      BY <2>2, <2>3
    <3> HIDE DEF end, r
    <3> QED
      BY <1>1, <2>2, <2>3, <3>1
  <2>5. /\ r.start * Sector \in Int /\ s * Sector \in Int /\ (s + 1) * Sector \in Int
        /\ r.sectors * Sector \in Int /\ end * Sector = r.start * Sector + r.sectors * Sector
    <3> HIDE DEF r
    <3> QED
      BY <1>1, <2>2, <2>3
  <2>6. in \in Nat /\ r.sectors * Sector - in >= 1 /\ r.sectors * Sector - in = end * Sector - p
    <3> DEFINE a == r.start * Sector
               b == r.sectors * Sector
               e == end * Sector
    <3>1. a \in Int /\ b \in Int /\ e = a + b /\ p >= a /\ p < e
      BY <2>3, <2>4, <2>5
    <3> HIDE DEF a, b, e
    <3>2. p - a \in Nat /\ b - (p - a) >= 1 /\ b - (p - a) = e - p
      BY <3>1
    <3> QED
      BY <3>2 DEF a, b, e
  <2>7. m \in 1..n /\ m =< end * Sector - p
    <3> DEFINE left == r.sectors * Sector - in
    <3>1. left \in Int /\ left >= 1 /\ left = end * Sector - p
      BY <2>5, <2>6
    <3> HIDE DEF left
    <3>2. Least(n, left) \in 1..n /\ Least(n, left) =< left
      BY <3>1 DEF Least
    <3> QED
      BY <3>1, <3>2 DEF left
  <2>8. \A i \in 0..m - 1 : i < n /\ p + i < end * Sector
    <3>1. end * Sector \in Int
      BY <2>5
    <3> DEFINE e == end * Sector
    <3> HIDE DEF m, e
    <3> QED
      BY <2>7, <3>1 DEF e
  <2> QED
    BY <2>1, <2>2, <2>6, <2>7, <2>8
<1>5. ASSUME k # 0, DmgWritten(d), NEW i \in 0..m - 1
      PROVE  d.guest[p + i] = RunByte(d, k, in + i)
  <2>1. i \in Nat /\ p + i < (r.start + r.sectors) * Sector /\ p + i \in 0..size - 1
    BY <1>1, <1>4, <1>5
  <2>2. DmgRun(d, p + i) = k
    BY <1>5, <2>1, DmgRunReaches
  <2>3. (p + i) - r.start * Sector = in + i
    <3>1. r.start * Sector \in Int
      BY <1>1, <1>4, <1>5 DEF DmgTyped
    <3> DEFINE a == r.start * Sector
    <3> HIDE DEF a
    <3>2. (p + i) - a = (p - a) + i
      BY <2>1, <3>1 DEF a
    <3> QED
      BY <3>2 DEF a
  <2> QED
    BY <1>2, <1>5, <2>1, <2>2, <2>3
<1> HIDE DEF k, m, in
<1>6. CASE k = 0
  <2>1. place = Zeros(1) /\ place.from = "zeros" /\ 1 \in 1..n
    BY <1>3, <1>6, PlacesSay
  <2>2. DmgWritten(d) => \A i \in 0..1 - 1 : d.guest[p + i] = 0
    BY <1>3, <1>6
  <2> DEFINE bytes == d.packs[place.key]
  <2> HIDE DEF place, bytes
  <2>3. PlaceOK(place, n) /\ (DmgWritten(d) => Shows(place, bytes, d.guest, p))
    BY <2>1, <2>2, ZerosShow
  <2> QED
    BY <2>1, <2>3 DEF place, bytes
<1>7. CASE k # 0 /\ r.type = "zeros"
  <2>1. place = Zeros(m) /\ place.from = "zeros"
    BY <1>7, PlacesSay DEF DmgPlace, k, in, m
  <2>2. DmgWritten(d) => \A i \in 0..m - 1 : d.guest[p + i] = 0
    BY <1>5, <1>7 DEF RunByte
  <2> DEFINE bytes == d.packs[place.key]
  <2> HIDE DEF place, bytes
  <2>3. PlaceOK(place, n) /\ (DmgWritten(d) => Shows(place, bytes, d.guest, p))
    BY <1>4, <1>7, <2>1, <2>2, ZerosShow
  <2> QED
    BY <2>1, <2>3 DEF place, bytes
<1>8. CASE k # 0 /\ r.type = "raw"
  <2> DEFINE a == r.at + in
  <2>1. place = Window(d, a, m)
    BY <1>8 DEF DmgPlace, k, in, m
  <2>2. ASSUME DmgWritten(d), NEW i \in 0..m - 1
        PROVE  d.guest[p + i] = WindowByte(d, a + i)
    <3>1. d.guest[p + i] = WindowByte(d, r.at + (in + i))
      BY <1>5, <1>8, <2>2 DEF RunByte
    <3>2. r.at + (in + i) = a + i
      BY <1>4, <1>8
    <3> QED
      BY <3>1, <3>2
  <2>3. a \in Int /\ m \in Nat \ {0} /\ m \in 1..n
    BY <1>4, <1>8
  <2> DEFINE bytes == d.packs[place.key]
  <2> HIDE DEF place, bytes, a
  <2>4. /\ PlaceOK(place, m) /\ place.from # "unit"
        /\ DmgWritten(d) => Shows(place, bytes, d.guest, p)
    <3>1. /\ PlaceOK(Window(d, a, m), m) /\ Window(d, a, m).from # "unit"
          /\ (\A i \in 0..m - 1 : d.guest[p + i] = WindowByte(d, a + i))
               => Shows(Window(d, a, m), bytes, d.guest, p)
      <4>1. p \in Int
        OBVIOUS
      <4> QED
        BY <2>3, <4>1, WindowShows
    <3> QED
      BY <2>1, <2>2, <3>1
  <2>5. PlaceOK(place, n)
    BY <2>3, <2>4 DEF PlaceOK
  <2> QED
    BY <2>4, <2>5 DEF place, bytes
<1>9. CASE k # 0 /\ r.type = "zlib"
  <2>1. place = Unit(k, in, m) /\ place.from = "unit" /\ place.key = k
    BY <1>9, PlacesSay DEF DmgPlace, k, in, m
  <2> DEFINE bytes == d.packs[k]
  <2>2. Bytes(bytes)
    BY <1>4, <1>9 DEF DmgTyped
  <2>3. ASSUME DmgWritten(d), NEW i \in 0..m - 1, bytes # NoBytes
        PROVE  d.guest[p + i] = UnitByte(bytes, in + i)
    BY <1>5, <1>9, <2>3 DEF RunByte
  <2>4. DmgWritten(d) /\ bytes = NoBytes => d.guest[p] = -1
    <3> SUFFICES ASSUME DmgWritten(d), bytes = NoBytes PROVE d.guest[p] = -1
      OBVIOUS
    <3>1. 0 \in 0..m - 1 /\ p + 0 = p
      BY <1>4, <1>9
    <3>2. d.guest[p] = RunByte(d, k, in + 0)
      BY <1>5, <1>9, <3>1
    <3> QED
      BY <1>9, <3>2 DEF RunByte
  <2> HIDE DEF place, bytes
  <2>5. /\ PlaceOK(place, n)
        /\ DmgWritten(d) /\ bytes # NoBytes => Shows(place, bytes, d.guest, p)
    BY <1>4, <1>9, <2>1, <2>3, UnitShows
  <2> QED
    BY <2>1, <2>2, <2>4, <2>5 DEF place, bytes
<1>10. CASE k # 0 /\ r.type \notin {"zeros", "raw", "zlib"}
  <2>1. place = Nowhere /\ place.from = "nowhere"
    BY <1>10, PlacesSay DEF DmgPlace, k
  <2>2. DmgWritten(d) => d.guest[p] = -1
    <3> SUFFICES ASSUME DmgWritten(d) PROVE d.guest[p] = -1
      OBVIOUS
    <3>1. 0 \in 0..m - 1 /\ p + 0 = p
      BY <1>4, <1>10
    <3>2. d.guest[p] = RunByte(d, k, in + 0)
      BY <1>5, <1>10, <3>1
    <3> QED
      BY <1>10, <3>2 DEF RunByte
  <2> HIDE DEF place
  <2> QED
    BY <2>1, <2>2 DEF place, PlaceOK, Shows
<1> QED
  BY <1>6, <1>7, <1>8, <1>9, <1>10

-----------------------------------------------------------------------------
(* QCOW: every byte of the disk has its entry in the table that was loaded.*)
LEMMA QcowMapped ==
  ASSUME NEW d, FileTyped(d), QcowTyped(d), QcowAccepts(d), NEW p \in Nat, p < d.size
  PROVE  /\ d.cluster \in Nat \ {0} /\ L2Entries(d) \in Nat \ {0} /\ L1Size(d) \in Int
         /\ p \div d.cluster \in Nat
         /\ (p \div d.cluster) \div L2Entries(d) \in 0..L1Size(d) - 1
<1> DEFINE c == d.cluster
           per == L2Entries(d)
           parts == CeilDiv(d.size, c)
<1>1. /\ c \in Nat \ {0} /\ d.size \in Nat \ {0} /\ d.l1Size \in Nat /\ d.l2Entries \in Nat
      /\ Word \in Nat \ {0}
  BY DiskImagesAssumption DEF QcowTyped, QcowAccepts, QcowGeometryOK
<1>2. per \in Nat \ {0}
  <2>1. per > 0
    BY DEF QcowAccepts, QcowGeometryOK
  <2>2. CASE d.version = 1
    BY <1>1, <2>1, <2>2 DEF L2Entries
  <2>3. CASE d.version # 1 /\ d.extended
    <3>1. per = c \div (2 * Word) /\ 2 * Word \in Nat \ {0}
      BY <1>1, <2>3 DEF L2Entries
    <3> DEFINE w == 2 * Word
    <3> HIDE DEF w, c
    <3>2. c \div w \in Nat
      BY <1>1, <3>1, DivModOf DEF w
    <3> QED
      BY <2>1, <3>1, <3>2 DEF w
  <2>4. CASE d.version # 1 /\ ~d.extended
    <3>1. per = c \div Word
      BY <2>4 DEF L2Entries
    <3> HIDE DEF c
    <3>2. c \div Word \in Nat
      BY <1>1, DivModOf
    <3> QED
      BY <2>1, <3>1, <3>2
  <2> QED
    BY <2>2, <2>3, <2>4
<1>3. CeilDiv(parts, per) =< L1Size(d)
  BY DEF QcowAccepts, QcowGeometryOK
<1>4. L1Size(d) \in Int
  <2>1. CASE d.version = 1
    <3>1. c * d.l2Entries \in Nat \ {0}
      BY <1>1, <1>2, <2>1 DEF L2Entries
    <3> QED
      BY <1>1, <2>1, <3>1 DEF L1Size, CeilDiv
  <2>2. CASE d.version # 1
    BY <1>1, <2>2 DEF L1Size
  <2> QED
    BY <2>1, <2>2
<1> HIDE DEF c, per
<1>5. p \div c \in Nat /\ parts \in Nat /\ p \div c < parts
  BY <1>1, CeilDivCovers, DivModOf
<1> HIDE DEF parts
<1>6. (p \div c) \div per \in Nat /\ CeilDiv(parts, per) \in Nat /\ (p \div c) \div per < CeilDiv(parts, per)
  BY <1>2, <1>5, CeilDivCovers, DivModOf
<1>7. (p \div c) \div per \in 0..L1Size(d) - 1
  BY <1>3, <1>4, <1>6
<1> QED
  BY <1>1, <1>2, <1>4, <1>5, <1>7 DEF c, per

(* A stored part of a cluster: in the file, or zeros when it has no place  *)
(* in it, and how the cluster was written.                                 *)
StoredPlace(d, host, in, m) ==
  IF host # 0 /\ RangeInside(host + in, m, d.capacity) THEN Host(d, host + in, m) ELSE Zeros(m)

StoredWritten(d, host, cluster, in, m, guest, p) ==
  /\ host >= d.capacity \/ host + cluster =< d.capacity
  /\ \A i \in 0..m - 1 :
       guest[p + i] = IF host = 0 THEN 0 ELSE HostByte(d.base, d.held, host + (in + i))

(* It serves what was written.                                             *)
LEMMA StoredShows ==
  ASSUME NEW d, FileTyped(d), NEW host \in Nat, NEW cluster \in Nat, NEW in \in Nat,
         NEW n \in Nat \ {0}, NEW m \in 1..n, in + m =< cluster,
         NEW guest, NEW p, NEW bytes
  PROVE  LET place == StoredPlace(d, host, in, m)
         IN  /\ PlaceOK(place, n) /\ place.from # "unit" /\ place.from # "nowhere"
             /\ StoredWritten(d, host, cluster, in, m, guest, p) => Shows(place, bytes, guest, p)
<1> DEFINE there == host # 0 /\ RangeInside(host + in, m, d.capacity)
           place == StoredPlace(d, host, in, m)
           Written1 == StoredWritten(d, host, cluster, in, m, guest, p)
<1>1. d.capacity \in Nat /\ d.held \in 0..d.capacity
  BY DEF FileTyped
<1>2. CASE there
  <2>1. place = Host(d, host + in, m) /\ host + in \in Int
    BY <1>2 DEF StoredPlace
  <2>2. ASSUME Written1, NEW i \in 0..m - 1
        PROVE  guest[p + i] = HostByte(d.base, d.held, (host + in) + i)
    <3>1. (host + in) + i = host + (in + i)
      OBVIOUS
    <3> QED
      BY <1>2, <2>2, <3>1 DEF StoredWritten
  <2>3. /\ PlaceOK(Host(d, host + in, m), n) /\ Host(d, host + in, m).from # "unit"
        /\ (\A i \in 0..m - 1 : guest[p + i] = HostByte(d.base, d.held, (host + in) + i))
             => Shows(Host(d, host + in, m), bytes, guest, p)
    BY <2>1, HostShows
  <2>4. Host(d, host + in, m).from = "file"
    BY PlacesSay
  <2> HIDE DEF Written1, place
  <2>5. Written1 => Shows(place, bytes, guest, p)
    BY <2>1, <2>2, <2>3
  <2> QED
    BY <2>1, <2>3, <2>4, <2>5 DEF Written1, place
<1>3. CASE ~there
  <2>1. place = Zeros(m)
    BY <1>3 DEF StoredPlace
  <2>2. ASSUME Written1, NEW i \in 0..m - 1
        PROVE  guest[p + i] = 0
    <3>1. CASE host = 0
      BY <2>2, <3>1 DEF StoredWritten
    <3>2. CASE host # 0
      <4>1. ~RangeInside(host + in, m, d.capacity)
        BY <1>3, <3>2
      <4>2. host >= d.capacity
        BY <1>1, <2>2, <4>1 DEF RangeInside, StoredWritten
      <4>3. host + (in + i) \notin 0..d.held - 1
        BY <1>1, <4>2
      <4> QED
        BY <2>2, <3>2, <4>3 DEF HostByte, StoredWritten
    <3> QED
      BY <3>1, <3>2
  <2>3. /\ PlaceOK(Zeros(m), n) /\ Zeros(m).from # "unit"
        /\ (\A i \in 0..m - 1 : guest[p + i] = 0) => Shows(Zeros(m), bytes, guest, p)
    BY ZerosShow
  <2>4. Zeros(m).from = "zeros"
    BY PlacesSay
  <2> HIDE DEF Written1, place
  <2>5. Written1 => Shows(place, bytes, guest, p)
    BY <2>1, <2>2, <2>3
  <2> QED
    BY <2>1, <2>3, <2>4, <2>5 DEF Written1, place
<1> QED
  BY <1>2, <1>3

(* QCOW: a turn takes bytes of one cluster, of one subcluster where an     *)
(* entry maps subclusters; where there is no table they are zeros.         *)
LEMMA QcowServes ==
  ASSUME NEW d, FileTyped(d), QcowTyped(d), QcowAccepts(d),
         NEW p \in Nat, NEW n \in Nat \ {0}, p + n =< d.size, L2At(d, p) # 0
  PROVE  LET place == QcowPlace(d, p, n, d.tables[L2At(d, p)])
         IN  /\ PlaceOK(place, n) /\ place.from # "nowhere"
             /\ place.from = "unit" => Bytes(d.packs[place.key])
             /\ QcowWritten(d) => Shows(place, d.packs[place.key], d.guest, p)
<1> DEFINE c == d.cluster
           per == L2Entries(d)
           whole == p \div c
           i == whole \div per
           j == whole % per
           in == p % c
           chunk == Least(n, c - in)
           e == d.tables[d.l1[i]][j]
           width == c \div Subclusters
           inside == Least(chunk, width - (in % width))
           AtHost(size) ==
             IF e.host # 0 /\ RangeInside(e.host + in, size, d.capacity)
               THEN Host(d, e.host + in, size) ELSE Zeros(size)
           place == QcowPlace(d, p, n, d.tables[L2At(d, p)])
<1>1. p < d.size /\ d.size \in Nat
  BY DEF QcowTyped
<1>2. c \in Nat \ {0} /\ per \in Nat \ {0} /\ whole \in Nat /\ i \in 0..L1Size(d) - 1
  BY <1>1, QcowMapped
<1>3. L1Size(d) \in Int
  BY <1>1, QcowMapped
<1>4. L2At(d, p) = d.l1[i] /\ d.l1[i] # 0
  <2>1. ~ (i >= L1Size(d))
    <3> HIDE DEF i
    <3> QED
      BY <1>2, <1>3
  <2> QED
    BY <2>1 DEF L2At
<1>5. place = CASE e.packed -> Unit(e.host, in, chunk)
                [] ~e.packed /\ d.extended ->
                     IF e.map[in \div width] = "allocated" THEN AtHost(inside) ELSE Zeros(inside)
                [] ~e.packed /\ ~d.extended ->
                     IF d.version >= 3 /\ e.zero THEN Zeros(chunk) ELSE AtHost(chunk)
  BY <1>4 DEF QcowPlace
<1>6. whole = i * per + j /\ j \in 0..per - 1
  <2> HIDE DEF whole, per
  <2> QED
    BY <1>2, DivModOf
<1>7. /\ in \in 0..c - 1 /\ chunk \in 1..n
      /\ \A x \in 0..chunk - 1 : /\ in + x \in 0..c - 1 /\ x < n
                                 /\ p + x = whole * c + (in + x)
  <2> HIDE DEF c
  <2> QED
    BY <1>2, OnePart
<1>8. e.host \in Nat /\ (e.packed => Bytes(d.packs[e.host]))
  <2> HIDE DEF i, j, per
  <2> QED
    BY <1>2, <1>4, <1>6 DEF QcowTyped, per
<1> HIDE DEF whole, in, chunk
<1>9. ASSUME QcowWritten(d), NEW x \in 0..chunk - 1
      PROVE  /\ e.packed \/ e.host >= d.capacity \/ e.host + c =< d.capacity
             /\ d.guest[p + x] = QcowByte(d, e, in + x)
  <2> HIDE DEF i, j
  <2>1. in + x \in 0..c - 1 /\ p + x = (i * per + j) * c + (in + x)
    BY <1>6, <1>7
  <2>2. (i * per + j) * c + (in + x) < d.size
    <3>1. p + x < d.size
      BY <1>1, <1>7
    <3> QED
      BY <2>1, <3>1
  <2> QED
    BY <1>2, <1>4, <1>6, <1>9, <2>1, <2>2 DEF QcowWritten
<1>10. chunk =< c - in /\ in \in Nat
  BY <1>2, <1>7 DEF chunk, Least
<1> HIDE DEF i, j, e, place, per
<1>11. CASE e.packed
  <2>1. place = Unit(e.host, in, chunk) /\ place.from = "unit" /\ place.key = e.host
    BY <1>5, <1>11, PlacesSay
  <2>2. QcowWritten(d) =>
          \A x \in 0..chunk - 1 : d.guest[p + x] = UnitByte(d.packs[e.host], in + x)
    BY <1>9, <1>11 DEF QcowByte
  <2>3. PlaceOK(place, n) /\ (QcowWritten(d) => Shows(place, d.packs[e.host], d.guest, p))
    BY <1>7, <1>8, <1>10, <2>1, <2>2, UnitShows
  <2> QED
    BY <1>8, <1>11, <2>1, <2>3 DEF place
<1>12. CASE ~e.packed /\ d.extended
  <2>1. width \in Nat \ {0}
    <3>1. c % Subclusters = 0 /\ Subclusters \in Nat \ {0}
      BY <1>12, DiskImagesAssumption DEF QcowAccepts, QcowGeometryOK
    <3> HIDE DEF c
    <3>2. c \div Subclusters \in Nat /\ c = (c \div Subclusters) * Subclusters + (c % Subclusters)
      BY <1>2, <3>1, DivModOf
    <3>3. c \div Subclusters # 0
      <4>1. c \div Subclusters = 0 => c = 0
        BY <3>1, <3>2
      <4> QED
        BY <1>2, <4>1
    <3> QED
      BY <3>2, <3>3
  <2> HIDE DEF width, c
  <2>2. inside \in 1..chunk
        /\ \A x \in 0..inside - 1 : x < chunk /\ (in + x) \div width = in \div width
    <3>1. /\ in \div width \in Nat /\ in % width \in 0..width - 1
          /\ inside \in 1..chunk
          /\ \A x \in 0..inside - 1 :
               /\ (in % width) + x \in 0..width - 1 /\ x < chunk
               /\ in + x = (in \div width) * width + ((in % width) + x)
      <4>1. in \in Nat /\ chunk \in Nat \ {0}
        BY <1>7, <1>10
      <4> QED
        BY <2>1, <4>1, OnePart
    <3> DEFINE q == in \div width
               o == in % width
    <3> HIDE DEF q, o, inside
    <3>2. ASSUME NEW x \in 0..inside - 1
          PROVE  (in + x) \div width = q
      <4>1. in + x = q * width + (o + x) /\ o + x \in 0..width - 1 /\ q \in Int
        BY <3>1 DEF q, o
      <4>2. (q * width + (o + x)) \div width = q
        BY <2>1, <4>1, DivMod
      <4> QED
        BY <4>1, <4>2
    <3> QED
      BY <3>1, <3>2 DEF q
  <2> DEFINE marked == e.map[in \div width] = "allocated"
  <2>3. place = IF marked THEN AtHost(inside) ELSE Zeros(inside)
    BY <1>5, <1>12
  <2> HIDE DEF inside, AtHost
  <2>4. inside \in 1..n /\ inside + in =< c
    BY <1>2, <1>7, <1>10, <2>2
  <2>5. ASSUME QcowWritten(d), NEW x \in 0..inside - 1
        PROVE  /\ e.host >= d.capacity \/ e.host + c =< d.capacity
               /\ d.guest[p + x] = IF ~marked \/ e.host = 0 THEN 0
                                   ELSE HostByte(d.base, d.held, e.host + (in + x))
    <3>1. x \in 0..chunk - 1 /\ (in + x) \div width = in \div width
      BY <1>7, <2>2, <2>4
    <3>2. d.guest[p + x] = QcowByte(d, e, in + x)
      BY <1>9, <2>5, <3>1
    <3>3. QcowByte(d, e, in + x) =
            IF e.map[(in + x) \div width] = "allocated"
              THEN IF e.host = 0 THEN 0 ELSE HostByte(d.base, d.held, e.host + (in + x)) ELSE 0
      BY <1>12 DEF QcowByte, width, c
    <3> QED
      BY <1>9, <1>12, <2>5, <3>1, <3>2, <3>3
  <2> HIDE DEF marked
  <2> DEFINE bytes == d.packs[place.key]
  <2> HIDE DEF bytes
  <2>6. CASE marked
    <3>1. place = StoredPlace(d, e.host, in, inside)
      BY <2>3, <2>6 DEF AtHost, StoredPlace
    <3>2. QcowWritten(d) => StoredWritten(d, e.host, c, in, inside, d.guest, p)
      <4>1. 0 \in 0..inside - 1
        BY <2>4
      <4> QED
        BY <2>5, <2>6, <4>1 DEF StoredWritten
    <3>3. in + inside =< c /\ c \in Nat
      BY <1>2, <1>10, <2>4
    <3>4. /\ PlaceOK(place, n) /\ place.from # "unit" /\ place.from # "nowhere"
          /\ StoredWritten(d, e.host, c, in, inside, d.guest, p) => Shows(place, bytes, d.guest, p)
      BY <1>8, <1>10, <2>4, <3>1, <3>3, StoredShows
    <3>5. QcowWritten(d) => Shows(place, bytes, d.guest, p)
      BY <3>2, <3>4
    <3> QED
      BY <3>4, <3>5 DEF place, bytes
  <2>7. CASE ~marked
    <3>1. place = Zeros(inside) /\ place.from = "zeros"
      BY <2>3, <2>7, PlacesSay
    <3>2. QcowWritten(d) => \A x \in 0..inside - 1 : d.guest[p + x] = 0
      BY <2>5, <2>7
    <3>3. PlaceOK(place, n) /\ (QcowWritten(d) => Shows(place, bytes, d.guest, p))
      BY <2>4, <3>1, <3>2, ZerosShow
    <3> QED
      BY <3>1, <3>3 DEF place, bytes
  <2> QED
    BY <2>6, <2>7
<1>13. CASE ~e.packed /\ ~d.extended
  <2> DEFINE zero == d.version >= 3 /\ e.zero
             bytes == d.packs[place.key]
  <2>1. place = IF zero THEN Zeros(chunk) ELSE AtHost(chunk)
    BY <1>5, <1>13
  <2>2. ASSUME QcowWritten(d), NEW x \in 0..chunk - 1
        PROVE  /\ e.host >= d.capacity \/ e.host + c =< d.capacity
               /\ d.guest[p + x] = IF zero \/ e.host = 0 THEN 0
                                   ELSE HostByte(d.base, d.held, e.host + (in + x))
    BY <1>9, <1>13, <2>2 DEF QcowByte
  <2> HIDE DEF zero, bytes, c
  <2>3. CASE zero
    <3>1. place = Zeros(chunk) /\ place.from = "zeros"
      BY <2>1, <2>3, PlacesSay
    <3>2. QcowWritten(d) => \A x \in 0..chunk - 1 : d.guest[p + x] = 0
      BY <2>2, <2>3
    <3>3. PlaceOK(place, n) /\ (QcowWritten(d) => Shows(place, bytes, d.guest, p))
      BY <1>7, <3>1, <3>2, ZerosShow
    <3> QED
      BY <3>1, <3>3 DEF place, bytes
  <2>4. CASE ~zero
    <3>1. place = StoredPlace(d, e.host, in, chunk)
      BY <2>1, <2>4 DEF StoredPlace
    <3>2. QcowWritten(d) => StoredWritten(d, e.host, c, in, chunk, d.guest, p)
      <4>1. 0 \in 0..chunk - 1
        BY <1>7
      <4> QED
        BY <2>2, <2>4, <4>1 DEF StoredWritten
    <3>3. in + chunk =< c /\ c \in Nat
      BY <1>2, <1>7, <1>10
    <3>4. /\ PlaceOK(place, n) /\ place.from # "unit" /\ place.from # "nowhere"
          /\ StoredWritten(d, e.host, c, in, chunk, d.guest, p) => Shows(place, bytes, d.guest, p)
      BY <1>7, <1>8, <1>10, <3>1, <3>3, StoredShows
    <3>5. QcowWritten(d) => Shows(place, bytes, d.guest, p)
      BY <3>2, <3>4
    <3> QED
      BY <3>4, <3>5 DEF place, bytes
  <2> QED
    BY <2>3, <2>4
<1> QED
  BY <1>11, <1>12, <1>13

(* Where the L1 table names no table, the rest of the cluster is zeros.    *)
LEMMA QcowHoleServes ==
  ASSUME NEW d, FileTyped(d), QcowTyped(d), QcowAccepts(d),
         NEW p \in Nat, NEW n \in Nat \ {0}, p + n =< d.size, L2At(d, p) = 0
  PROVE  LET m == Least(n, d.cluster - (p % d.cluster))
         IN  /\ m \in 1..n
             /\ QcowWritten(d) => \A x \in 0..m - 1 : d.guest[p + x] = 0
<1> DEFINE c == d.cluster
           per == L2Entries(d)
           whole == p \div c
           i == whole \div per
           j == whole % per
           in == p % c
           m == Least(n, c - in)
<1>1. p < d.size /\ d.size \in Nat
  BY DEF QcowTyped
<1>2. c \in Nat \ {0} /\ per \in Nat \ {0} /\ whole \in Nat /\ i \in 0..L1Size(d) - 1
  BY <1>1, QcowMapped
<1>3. d.l1[i] = 0
  <2>1. L1Size(d) \in Int
    BY <1>1, QcowMapped
  <2>2. ~ (i >= L1Size(d))
    <3> HIDE DEF i
    <3> QED
      BY <1>2, <2>1
  <2> QED
    BY <2>2 DEF L2At
<1>4. whole = i * per + j /\ j \in 0..per - 1
  <2> HIDE DEF whole, per
  <2> QED
    BY <1>2, DivModOf
<1>5. /\ in \in 0..c - 1 /\ m \in 1..n
      /\ \A x \in 0..m - 1 : /\ in + x \in 0..c - 1 /\ x < n
                             /\ p + x = whole * c + (in + x)
  <2>1. InOnePart(c, p, n)
    BY <1>2, OnePartOf
  <2> QED
    BY <2>1 DEF InOnePart
<1> HIDE DEF whole, in, m, i, j
<1>6. ASSUME QcowWritten(d), NEW x \in 0..m - 1
      PROVE  d.guest[p + x] = 0
  <2>1. in + x \in 0..c - 1 /\ p + x = (i * per + j) * c + (in + x)
    BY <1>4, <1>5
  <2>2. (i * per + j) * c + (in + x) < d.size
    <3>1. p + x < d.size
      BY <1>1, <1>5
    <3> QED
      BY <2>1, <3>1
  <2> QED
    BY <1>2, <1>3, <1>4, <1>6, <2>1, <2>2 DEF QcowWritten
<1> QED
  BY <1>5, <1>6 DEF m, in

-----------------------------------------------------------------------------
(* The extents of a descriptor lie one after another from 0.               *)
ExtentsFollow(d) ==
  /\ ExtentEnd(d, 0) = 0
  /\ \A k \in 1..Len(d.lines) : ExtentEnd(d, k) = ExtentEnd(d, k - 1) + ExtentSize(d.lines[k])

(* A line of a descriptor has a size when it is an extent.                 *)
LEMMA ExtentSizes ==
  ASSUME NEW d, DescriptorTyped(d), DescriptorAccepts(d)
  PROVE  /\ Len(d.lines) \in Nat /\ DOMAIN d.lines = 1..Len(d.lines)
         /\ \A k \in 1..Len(d.lines) : /\ ExtentSize(d.lines[k]) \in Nat
                                       /\ ExtentSize(d.lines[k]) > 0 <=> k \in Extents(d)
<1>1. Len(d.lines) \in Nat /\ DOMAIN d.lines = 1..Len(d.lines)
  BY DEF DescriptorTyped
<1>2. ASSUME NEW k \in 1..Len(d.lines)
      PROVE  ExtentSize(d.lines[k]) \in Nat /\ (ExtentSize(d.lines[k]) > 0 <=> k \in Extents(d))
  <2> DEFINE e == d.lines[k]
  <2>1. /\ e.sectors \in Int /\ (e.type = "SPARSE" => KdmvTyped(e.image))
        /\ k \in Extents(d) <=> e.sectors > 0
        /\ k \in Extents(d) => ExtentAccepts(e)
    BY <1>1 DEF DescriptorTyped, DescriptorAccepts, Extents
  <2> HIDE DEF e
  <2>2. Sector \in Nat \ {0}
    BY DiskImagesAssumption
  <2>3. CASE e.sectors =< 0
    BY <2>1, <2>3 DEF ExtentSize, e
  <2>4. CASE e.sectors > 0 /\ e.type = "SPARSE"
    <3>1. e.image.sectors \in Nat \ {0}
      <4>1. KdmvAccepts(e.image) /\ KdmvTyped(e.image)
        BY <2>1, <2>4 DEF ExtentAccepts
      <4>2. e.image.sectors \in Int /\ e.image.sectors > 0
        <5>1. CASE e.image.kind = "stream"
          BY <4>1, <5>1 DEF KdmvTyped, KdmvAccepts, StreamTyped, StreamAccepts
        <5>2. CASE e.image.kind # "stream"
          BY <4>1, <5>2 DEF KdmvTyped, KdmvAccepts, SparseTyped, SparseAccepts
        <5> QED
          BY <5>1, <5>2
      <4> QED
        BY <4>2
    <3>2. ExtentSize(e) = e.image.sectors * Sector
      BY <2>1, <2>4 DEF ExtentSize
    <3>3. e.image.sectors * Sector \in Nat /\ e.image.sectors * Sector > 0
      BY <2>2, <3>1
    <3> QED
      BY <2>1, <2>4, <3>2, <3>3 DEF e
  <2>5. CASE e.sectors > 0 /\ e.type # "SPARSE"
    <3>1. ExtentSize(e) = e.sectors * Sector
      BY <2>1, <2>5 DEF ExtentSize
    <3>2. e.sectors * Sector \in Nat /\ e.sectors * Sector > 0
      BY <2>1, <2>2, <2>5
    <3> QED
      BY <2>1, <2>5, <3>1, <3>2 DEF e
  <2> QED
    BY <2>1, <2>3, <2>4, <2>5
<1> QED
  BY <1>1, <1>2

(* The ends of the extents add up their sizes.                             *)
LEMMA ExtentEndsFollow ==
  ASSUME NEW d, DescriptorTyped(d), DescriptorAccepts(d)
  PROVE  ExtentsFollow(d)
<1> DEFINE N == Len(d.lines)
           Size(k) == ExtentSize(d.lines[k])
           Is(g) == g = [k \in 0..N |-> IF k = 0 THEN 0 ELSE g[k - 1] + Size(k)]
           step == [k \in 1..N |-> [s \in Nat |-> s + Size(k)]]
<1>1. N \in Nat /\ \A k \in 1..N : Size(k) \in Nat
  BY ExtentSizes
<1> HIDE DEF N, Size
<1>2. step \in [1..N -> [Nat -> Nat]]
  BY <1>1
<1>3. PICK f \in [0..N -> Nat] : Recurses(f, N, 0, step)
  <2> HIDE DEF step
  <2> QED
    BY <1>1, <1>2, RecursionDefines
<1>4. Is(f)
  <2>1. ASSUME NEW k \in 1..N PROVE f[k] = f[k - 1] + Size(k)
    <3>1. f[k - 1] \in Nat
      BY <1>1
    <3> QED
      BY <1>3, <3>1 DEF Recurses
  <2> HIDE DEF step
  <2> QED
    BY <1>1, <1>3, <2>1 DEF Recurses
<1> DEFINE end == CHOOSE g : Is(g)
<1>5. Is(end)
  <2> HIDE DEF Is
  <2> QED
    BY <1>4
<1>6. \A k : ExtentEnd(d, k) = end[k]
  BY DEF ExtentEnd, N, Size
<1> HIDE DEF end
<1>7. end[0] = 0 /\ \A k \in 1..N : end[k] = end[k - 1] + Size(k)
  BY <1>1, <1>5
<1> QED
  BY <1>6, <1>7 DEF ExtentsFollow, N, Size

(* They do not fall, and every byte below the last lies in one extent.     *)
LEMMA ExtentsReach ==
  ASSUME NEW d, DescriptorTyped(d), DescriptorAccepts(d)
  PROVE  /\ \A k \in 0..Len(d.lines) : ExtentEnd(d, k) \in Nat
         /\ \A p \in Nat : p < DescriptorSize(d) =>
              \E k \in Extents(d) : ExtentEnd(d, k - 1) =< p /\ p < ExtentEnd(d, k)
         /\ DescriptorSize(d) > 0
<1> DEFINE N == Len(d.lines)
           End(k) == ExtentEnd(d, k)
           Size(k) == ExtentSize(d.lines[k])
<1>1. N \in Nat /\ \A k \in 1..N : Size(k) \in Nat /\ (Size(k) > 0 <=> k \in Extents(d))
  BY ExtentSizes
<1>2. End(0) = 0 /\ \A k \in 1..N : End(k) = End(k - 1) + Size(k)
  BY ExtentEndsFollow DEF ExtentsFollow
<1>3. Extents(d) # {} /\ Extents(d) \subseteq 1..N
  BY ExtentSizes DEF DescriptorAccepts, Extents
<1>4. DescriptorSize(d) = End(N)
  BY DEF DescriptorSize
<1> HIDE DEF N, End, Size
<1>5. \A k \in 0..N : End(k) \in Nat
  <2> DEFINE S == {k \in 0..N : End(k) \in Nat}
  <2>1. 0 \in S /\ \A k \in 1..N : k - 1 \in S => k \in S
    BY <1>1, <1>2
  <2> HIDE DEF S
  <2>2. 0..N \subseteq S
    BY <1>1, <2>1, SetInduction
  <2> QED
    BY <2>2 DEF S
<1>6. ASSUME NEW p \in Nat, p < End(N)
      PROVE  \E k \in Extents(d) : End(k - 1) =< p /\ p < End(k)
  <2> DEFINE S == {m \in 0..N : p < End(m) => \E k \in 1..m : End(k - 1) =< p /\ p < End(k)}
  <2>1. 0 \in S
    BY <1>1, <1>2
  <2>2. ASSUME NEW m \in 1..N, m - 1 \in S PROVE m \in S
    <3>1. m \in 0..N /\ m - 1 \in 0..N /\ End(m) \in Nat /\ End(m - 1) \in Nat
      BY <1>1, <1>5
    <3>2. CASE p < End(m - 1)
      <4>1. PICK k \in 1..m - 1 : End(k - 1) =< p /\ p < End(k)
        BY <2>2, <3>2
      <4>2. k \in 1..m
        BY <1>1
      <4> QED
        BY <3>1, <4>1, <4>2
    <3>3. CASE ~ (p < End(m - 1))
      <4>1. m \in 1..m /\ End(m - 1) =< p
        BY <1>1, <3>1, <3>3
      <4> QED
        BY <3>1, <4>1
    <3> QED
      BY <3>2, <3>3
  <2>3. N \in S
    <3> HIDE DEF S
    <3>1. 0..N \subseteq S
      BY <1>1, <2>1, <2>2, SetInduction
    <3> QED
      BY <1>1, <3>1
  <2>4. PICK k \in 1..N : End(k - 1) =< p /\ p < End(k)
    BY <1>6, <2>3
  <2>5. Size(k) > 0
    <3>1. End(k - 1) \in Nat /\ End(k) \in Nat /\ End(k) = End(k - 1) + Size(k) /\ Size(k) \in Nat
      BY <1>1, <1>2, <1>5
    <3> QED
      BY <2>4, <3>1
  <2> QED
    BY <1>1, <2>4, <2>5
<1>7. End(N) > 0
  <2>1. PICK k \in 1..N : k \in Extents(d)
    BY <1>3
  <2> DEFINE S == {m \in 0..N : m >= k => End(m) > 0}
  <2>2. 0 \in S
    BY <1>1
  <2>3. ASSUME NEW m \in 1..N, m - 1 \in S PROVE m \in S
    <3>1. /\ m \in 0..N /\ m - 1 \in 0..N /\ End(m) \in Nat /\ End(m - 1) \in Nat
          /\ End(m) = End(m - 1) + Size(m) /\ Size(m) \in Nat
      BY <1>1, <1>2, <1>5
    <3>2. m = k => End(m) > 0
      <4>1. k \in Extents(d) => Size(k) > 0
        BY <1>1
      <4> QED
        BY <2>1, <3>1, <4>1
    <3>3. m > k => End(m) > 0
      <4>1. m > k => m - 1 >= k
        BY <1>1
      <4> QED
        BY <2>3, <3>1, <4>1
    <3> QED
      BY <1>1, <3>1, <3>2, <3>3
  <2>4. N \in S
    <3> HIDE DEF S
    <3>1. 0..N \subseteq S
      BY <1>1, <2>2, <2>3, SetInduction
    <3> QED
      BY <1>1, <3>1
  <2> QED
    BY <1>1, <2>4
<1> QED
  BY <1>4, <1>5, <1>6, <1>7 DEF N, End

(* What is asked of the place a turn finds in an extent: with the bytes of *)
(* the grain it names, it serves what was written there.                   *)
ExtentServed(e, place, n, bytes, part, in) ==
  /\ PlaceOK(place, n)
  /\ place.from = "unit" => Bytes(StreamBytes(e.image, place.key))
  /\ ExtentWritten(e, part) /\ (place.from = "unit" => bytes = StreamBytes(e.image, place.key))
       => Shows(place, bytes, part, in)

(* An extent that opened serves what was written to it.                    *)
LEMMA ExtentServes ==
  ASSUME NEW e, e.sectors \in Int, e.offset \in Int, e.sectors > 0, ExtentAccepts(e),
         IF e.type = "SPARSE" THEN KdmvTyped(e.image) ELSE FileTyped(e.image),
         NEW in \in Nat, NEW n \in Nat \ {0}, in + n =< ExtentSize(e), NEW part, NEW bytes,
         DOMAIN part = 0..ExtentSize(e) - 1, ExtentSize(e) \in Nat
  PROVE  LET place == CASE e.type = "ZERO"   -> Zeros(n)
                        [] e.type = "SPARSE" -> KdmvPlace(e.image, in, n)
                        [] OTHER             -> Window(e.image, e.offset * Sector + in, n)
         IN  ExtentServed(e, place, n, bytes, part, in)
<1> DEFINE place == CASE e.type = "ZERO"   -> Zeros(n)
                      [] e.type = "SPARSE" -> KdmvPlace(e.image, in, n)
                      [] OTHER             -> Window(e.image, e.offset * Sector + in, n)
<1>1. \A x \in 0..n - 1 : in + x \in DOMAIN part
  OBVIOUS
<1>2. CASE e.type = "ZERO"
  <2>1. place = Zeros(n) /\ n \in 1..n
    BY <1>2
  <2>2. ExtentWritten(e, part) => \A x \in 0..n - 1 : part[in + x] = 0
    BY <1>1, <1>2 DEF ExtentWritten
  <2> HIDE DEF place
  <2>3. /\ PlaceOK(place, n) /\ place.from # "unit"
        /\ ExtentWritten(e, part) => Shows(place, bytes, part, in)
    BY <2>1, <2>2, ZerosShow
  <2> QED
    BY <2>3 DEF place, ExtentServed
<1>3. CASE e.type = "SPARSE" /\ e.image.kind # "stream"
  <2>1. place = SparsePlace(e.image, in, n)
    BY <1>3 DEF KdmvPlace
  <2>2. SparseTyped(e.image) /\ SparseAccepts(e.image)
    BY <1>3 DEF ExtentAccepts, KdmvTyped, KdmvAccepts
  <2>3. ExtentSize(e) = e.image.sectors * Sector
    BY <1>3 DEF ExtentSize
  <2>4. ExtentWritten(e, part) <=> SparseWritten(e.image, part)
    BY <1>3 DEF ExtentWritten, KdmvWritten
  <2>5. in + n =< e.image.sectors * Sector
    BY <2>3
  <2>6. /\ PlaceOK(SparsePlace(e.image, in, n), n) /\ SparsePlace(e.image, in, n).from # "unit"
        /\ SparseWritten(e.image, part) => Shows(SparsePlace(e.image, in, n), bytes, part, in)
    BY <2>2, <2>5, SparseServes
  <2> HIDE DEF place
  <2>7. /\ PlaceOK(place, n) /\ place.from # "unit"
        /\ ExtentWritten(e, part) => Shows(place, bytes, part, in)
    BY <2>1, <2>4, <2>6
  <2> QED
    BY <2>7 DEF place, ExtentServed
<1>4. CASE e.type = "SPARSE" /\ e.image.kind = "stream"
  <2> DEFINE grain == StreamBytes(e.image, place.key)
  <2>1. place = StreamPlace(e.image, in, n)
    BY <1>4 DEF KdmvPlace
  <2>2. StreamTyped(e.image) /\ StreamAccepts(e.image)
    BY <1>4 DEF ExtentAccepts, KdmvTyped, KdmvAccepts
  <2>3. in + n =< e.image.sectors * Sector
    BY <1>4 DEF ExtentSize
  <2>4. ExtentWritten(e, part) <=> StreamWritten(e.image, part)
    BY <1>4 DEF ExtentWritten, KdmvWritten
  <2> HIDE DEF place
  <2>5. /\ PlaceOK(place, n) /\ place.from = "unit"
        /\ StreamWritten(e.image, part) => Shows(place, grain, part, in)
    BY <2>1, <2>2, <2>3, StreamServes
  <2>6. Bytes(grain)
    BY <2>2, StreamGrains
  <2> HIDE DEF grain
  <2>7. ExtentWritten(e, part) /\ bytes = grain => Shows(place, bytes, part, in)
    BY <2>4, <2>5
  <2> QED
    BY <2>5, <2>6, <2>7 DEF place, grain, ExtentServed
<1>5. CASE e.type \notin {"ZERO", "SPARSE"}
  <2> DEFINE first == e.offset * Sector
             a == first + in
  <2>1. place = Window(e.image, a, n)
    BY <1>5
  <2>2. FileTyped(e.image) /\ first \in Int /\ in \in Int
    <3>1. Sector \in Int
      BY DiskImagesAssumption
    <3> QED
      BY <1>5, <3>1
  <2>3. ExtentWritten(e, part) => \A x \in DOMAIN part : part[x] = WindowByte(e.image, first + x)
    BY <1>5 DEF ExtentWritten
  <2> HIDE DEF first
  <2>4. ExtentWritten(e, part) => \A x \in 0..n - 1 : part[in + x] = WindowByte(e.image, a + x)
    <3>1. \A x \in 0..n - 1 : first + (in + x) = a + x
      BY <2>2
    <3> QED
      BY <1>1, <2>3, <3>1
  <2>5. a \in Int
    BY <2>2
  <2> HIDE DEF place, a
  <2>6. /\ PlaceOK(Window(e.image, a, n), n) /\ Window(e.image, a, n).from # "unit"
        /\ (\A x \in 0..n - 1 : part[in + x] = WindowByte(e.image, a + x))
             => Shows(Window(e.image, a, n), bytes, part, in)
    BY <2>2, <2>5, WindowShows
  <2>7. /\ PlaceOK(place, n) /\ place.from # "unit"
        /\ ExtentWritten(e, part) => Shows(place, bytes, part, in)
    BY <2>1, <2>4, <2>6
  <2> QED
    BY <2>7 DEF place, ExtentServed
<1> QED
  BY <1>2, <1>3, <1>4, <1>5

(* A descriptor: a turn takes bytes of one extent.                         *)
LEMMA DescriptorServes ==
  ASSUME NEW d, DescriptorTyped(d), DescriptorAccepts(d),
         NEW p \in Nat, NEW n \in Nat \ {0}, p + n =< DescriptorSize(d), NEW bytes
  PROVE  LET place == ExtentPlace(d, p, n)
             grain == StreamBytes(d.lines[ExtentAt(d, p)].image, place.key)
         IN  /\ PlaceOK(place, n) /\ (place.from = "unit" => Bytes(grain))
             /\ DescriptorWritten(d) /\ (place.from = "unit" => bytes = grain)
                  => Shows(place, bytes, d.guest, p)
<1> DEFINE N == Len(d.lines)
           Has(i) == ExtentEnd(d, i - 1) =< p /\ p < ExtentEnd(d, i)
           k == ExtentAt(d, p)
           e == d.lines[k]
           grain == StreamBytes(e.image, ExtentPlace(d, p, n).key)
           first == ExtentEnd(d, k - 1)
           in == p - first
           size == ExtentSize(e)
           rest == Least(n, size - in)
           part == [x \in 0..size - 1 |-> d.guest[first + x]]
           place == ExtentPlace(d, p, n)
<1>1. N \in Nat /\ DescriptorSize(d) \in Nat
  <2>1. N \in Nat
    BY ExtentSizes
  <2> QED
    BY <2>1, ExtentsReach DEF DescriptorSize
<1>2. k \in Extents(d) /\ Has(k)
  <2>1. \E i \in Extents(d) : Has(i)
    <3>1. p < DescriptorSize(d)
      BY <1>1
    <3> QED
      BY <3>1, ExtentsReach
  <2>2. k = CHOOSE i \in Extents(d) : Has(i)
    BY DEF ExtentAt
  <2> HIDE DEF Has, k
  <2> QED
    BY <2>1, <2>2
<1>3. place = CASE e.type = "ZERO"   -> Zeros(rest)
                [] e.type = "SPARSE" -> KdmvPlace(e.image, in, rest)
                [] OTHER             -> Window(e.image, e.offset * Sector + in, rest)
  BY DEF ExtentPlace
<1> HIDE DEF k
<1>4. k \in 1..N /\ k \in DOMAIN d.lines
  BY <1>2, ExtentSizes DEF Extents
<1>5. /\ e.sectors \in Int /\ e.offset \in Int /\ e.sectors > 0 /\ ExtentAccepts(e)
      /\ IF e.type = "SPARSE" THEN KdmvTyped(e.image) ELSE FileTyped(e.image)
  BY <1>2, <1>4 DEF DescriptorTyped, DescriptorAccepts, Extents
<1>6. /\ size \in Nat /\ first \in Nat /\ ExtentEnd(d, k) = first + size
  <2>1. size \in Nat
    BY <1>4, ExtentSizes
  <2>2. first \in Nat
    <3>1. k - 1 \in 0..N
      BY <1>1, <1>4
    <3> QED
      BY <3>1, ExtentsReach
  <2>3. ExtentEnd(d, k) = first + size
    BY <1>4, ExtentEndsFollow DEF ExtentsFollow
  <2> QED
    BY <2>1, <2>2, <2>3
<1> HIDE DEF e, first, size, place
<1>7. in \in Nat /\ size - in >= 1
  BY <1>2, <1>6 DEF first
<1>8. rest \in Nat \ {0} /\ rest \in 1..n /\ in + rest =< size
  BY <1>6, <1>7 DEF Least
<1> HIDE DEF rest
<1>9. DescriptorWritten(d) => ExtentWritten(e, part)
  BY <1>2, <1>4 DEF DescriptorWritten, ExtentWritten, e, first, size
<1>10. ExtentServed(e, place, rest, bytes, part, in)
  <2>1. DOMAIN part = 0..ExtentSize(e) - 1 /\ ExtentSize(e) \in Nat /\ in + rest =< ExtentSize(e)
    BY <1>6, <1>8 DEF size
  <2> HIDE DEF part, in
  <2>2. LET at == CASE e.type = "ZERO"   -> Zeros(rest)
                    [] e.type = "SPARSE" -> KdmvPlace(e.image, in, rest)
                    [] OTHER             -> Window(e.image, e.offset * Sector + in, rest)
        IN  ExtentServed(e, at, rest, bytes, part, in)
    BY <1>5, <1>7, <1>8, <2>1, ExtentServes
  <2> QED
    BY <1>3, <2>2
<1>11. PlaceOK(place, rest) /\ PlaceOK(place, n)
  BY <1>8, <1>10 DEF PlaceOK, ExtentServed
<1>12. ASSUME Shows(place, bytes, part, in)
       PROVE  Shows(place, bytes, d.guest, p)
  <2>1. \A x \in 0..rest - 1 : part[in + x] = d.guest[p + x]
    <3>1. \A x \in 0..rest - 1 : in + x \in 0..size - 1 /\ first + (in + x) = p + x
      BY <1>6, <1>7, <1>8
    <3> HIDE DEF in
    <3> QED
      BY <3>1
  <2> HIDE DEF part, in
  <2>2. CASE place.from = "nowhere"
    <3>1. part[in + 0] = d.guest[p + 0] /\ in + 0 = in /\ p + 0 = p
      BY <1>7, <1>8, <2>1
    <3> QED
      BY <1>12, <2>2, <3>1 DEF Shows
  <2>3. CASE place.from # "nowhere"
    <3>1. place.n \in 1..rest
      BY <1>11, <2>3 DEF PlaceOK
    <3>2. \A x \in 0..place.n - 1 : x \in 0..rest - 1
      BY <1>8, <3>1
    <3> QED
      BY <1>12, <2>1, <2>3, <3>2 DEF Shows
  <2> QED
    BY <2>2, <2>3
<1>13. /\ place.from = "unit" => Bytes(grain)
       /\ ExtentWritten(e, part) /\ (place.from = "unit" => bytes = grain)
            => Shows(place, bytes, part, in)
  BY <1>10 DEF ExtentServed, place
<1> HIDE DEF part, in
<1> QED
  BY <1>9, <1>11, <1>12, <1>13 DEF place, e, k
=============================================================================
