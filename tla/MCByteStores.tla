----------------------------- MODULE MCByteStores -----------------------------
(***************************************************************************)
(* Small stores for TLC.  Bytes are told apart by their part and offset.   *)
(***************************************************************************)
EXTENDS ByteStores, Sequences, FiniteSetsExt

Cut(k, n, h) == [capacity |-> n, held |-> h, data |-> [a \in 0..h - 1 |-> 10 * k + a]]
Whole(k, n) == Cut(k, n, n)
Null == Whole(9, 0)

(* A store over a tuple of parts, with the fields of its class.            *)
Composed(kind, parts, start, length, stripe, prefix) ==
  LET n == Len(parts)
      Before(k) == MapThenSumSet(LAMBDA j : parts[j].capacity, 1..k)
  IN  [kind |-> kind, n |-> n, parts |-> [k \in 0..n - 1 |-> parts[k + 1]],
       start |-> start, length |-> length, stripe |-> stripe, prefix |-> prefix,
       starts |-> [k \in 0..n - 1 |-> Before(k)], total |-> Before(n)]

Memory(part)         == Composed("memory", <<part>>, 0, 0, 0, 0)
Window(part, s, len) == Composed("sub", <<part>>, s, len, 0, 0)
Optical(part, pre)   == Composed("optical", <<part>>, 0, 0, 0, pre)
Concat(parts)        == Composed("concat", parts, 0, 0, 0, 0)
Striped(parts, size) == Composed("striped", parts, 0, 0, size, 0)

MCByte == 0..49
MCPositions == {-1, 0, 1, 2, 3, 5, 9}
MCCounts == {-1, 0, 1, 3, 6, 9}

(* Whole stores, a null and a one-byte part in a concatenation, a window   *)
(* cut by the end of its image, a raw image with half a sector at its end, *)
(* stripes over three parts and stripes with a short or an uneven part.    *)
MCStores ==
  { Memory(Whole(1, 9)), Window(Whole(1, 6), 2, 3), Window(Cut(1, 6, 4), 1, 5),
    Optical(Whole(1, 10), 1), Optical(Cut(1, 8, 6), 2), Optical(Null, 1),
    Concat(<<Whole(1, 2), Null, Whole(2, 1), Whole(3, 3)>>), Concat(<<Whole(1, 2), Cut(2, 3, 1)>>),
    Concat(<<Null>>),
    Striped(<<Whole(1, 2), Whole(2, 2), Whole(3, 2)>>, 1), Striped(<<Whole(1, 4), Whole(2, 4)>>, 2),
    Striped(<<Whole(1, 2), Cut(2, 2, 1)>>, 1), Striped(<<Whole(1, 1), Whole(2, 3)>>, 1),
    Striped(<<Whole(1, 2)>>, 0) }

(* A logical volume whose first extent lies past the end of a cut image.   *)
MCHoles == { Concat(<<Cut(1, 2, 1), Whole(2, 2)>>) }
=============================================================================
