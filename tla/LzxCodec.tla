------------------------------ MODULE LzxCodec ------------------------------
(***************************************************************************)
(* LZX as cabinets, Xbox executables and WIM chunks hold it, and WIM's     *)
(* other codec, Xpress with Huffman codes.  A stream is the sequence of    *)
(* the numbers its reads yield (see Inflate); how the bits of these lie    *)
(* among words and bytes, and how a reader aligns itself to a word, is     *)
(* left out.  Alphabets, windows and frames are fields of the constants.   *)
(***************************************************************************)
EXTENDS Inflate

CONSTANTS
  Lzx,      \* [literals, longest, lengthSymbols, primary, least, pretree, zeroRuns,
            \*  sameRun, slots, extra, aligned, alignedLongest, frame, e8, tail, wimSize]
  Xpress    \* [literals, nibble, byte, longest, least, symbols]

Slots(window) == Cardinality({i \in DOMAIN Lzx.slots : Lzx.slots[i] < window})
MainSymbols(window) == Lzx.literals + Slots(window) * (Lzx.primary + 1)

(* n numbers taken and none kept: st when they are there.                  *)
Took(in, st, n) == IF Held(in, st.at, n) THEN [st EXCEPT !.at = @ + n] ELSE Fail(st)

-----------------------------------------------------------------------------
(* readCodeLengths: the lengths of a table given as differences from those *)
(* of the block before, in a code of their own.                            *)
WriteLengths(st, table, index, run, v) ==
  [st EXCEPT !.lengths[table] = [i \in DOMAIN @ |-> IF i \in index + 1..index + run THEN v ELSE @[i]],
             !.index = index + run]

Difference(length, code) == (length - code) % (Lzx.longest + 1)

FillTurn(in, st, pretree, table, to) ==
  LET kind == in[st.at] - Lzx.longest
      length == st.lengths[table][st.index + 1]
      zeros == Lzx.zeroRuns[kind] + in[st.at + 1]
      same == Lzx.sameRun + in[st.at + 1]
      room == to - st.index
      write(taken, run, v) == WriteLengths(Took(in, st, taken), table, st.index, run, v)
  IN  IF st.state # "on" \/ room = 0 THEN st
      ELSE IF ~Held(in, st.at, 1) \/ ~HasCode(pretree, in[st.at]) THEN Fail(st)
      ELSE IF kind =< 0 THEN write(1, 1, Difference(length, in[st.at]))
      ELSE IF kind \in {1, 2}
      THEN IF ~Held(in, st.at, 2) \/ zeros > room THEN Fail(st) ELSE write(2, zeros, 0)
      ELSE IF kind > 3 \/ ~Held(in, st.at, 3) \/ ~HasCode(pretree, in[st.at + 2]) THEN Fail(st)
      ELSE IF same > room \/ in[st.at + 2] > Lzx.longest THEN Fail(st)
      ELSE write(3, same, Difference(length, in[st.at + 2]))
FillLengths(in, st, pretree, table, from, to) ==
  Turns([st EXCEPT !.index = from], to - from, LAMBDA s : FillTurn(in, s, pretree, table, to))

ReadLengths(in, st, table, from, to) ==
  IF st.state # "on" \/ ~Held(in, st.at, Lzx.pretree) THEN Fail(st)
  ELSE LET pretree == SubSeq(in, st.at, st.at + Lzx.pretree - 1)
       IN  IF ~TreeOK(pretree, Lzx.longest) \/ NoCodes(pretree) THEN Fail(st)
           ELSE FillLengths(in, Took(in, st, Lzx.pretree), pretree, table, from, to)

Built(st, table, longest, mayBeEmpty) ==
  IF st.state # "on" \/ ~TreeOK(st.lengths[table], longest) THEN Fail(st)
  ELSE IF NoCodes(st.lengths[table]) /\ ~mayBeEmpty THEN Fail(st) ELSE st

-----------------------------------------------------------------------------
(* readBlockHeader.  A WIM block of a whole frame says so in one bit.      *)
BlockSize(in, st, kind) ==
  IF kind = "classic" \/ (Held(in, st.at + 1, 1) /\ in[st.at + 1] = 0)
  THEN LET n == IF kind = "classic" THEN 2 ELSE 3
       IN  IF ~Held(in, st.at, n) THEN Fail(st)
           ELSE [st EXCEPT !.at = @ + n, !.type = in[st.at], !.left = in[st.at + n - 1]]
  ELSE IF ~Held(in, st.at, 2) THEN Fail(st)
  ELSE [st EXCEPT !.at = @ + 2, !.type = in[st.at], !.left = Lzx.frame]

AlignedTree(in, st) ==
  IF st.type # 2 \/ st.state # "on" THEN st
  ELSE IF ~Held(in, st.at, Lzx.aligned) THEN Fail(st)
  ELSE Built([st EXCEPT !.at = @ + Lzx.aligned,
                        !.lengths["aligned"] = SubSeq(in, st.at, st.at + Lzx.aligned - 1)],
             "aligned", Lzx.alignedLongest, FALSE)

CodedHeader(in, st) ==
  LET main == Len(st.lengths["main"])
      literals == ReadLengths(in, st, "main", 0, Lzx.literals)
      both == Built(ReadLengths(in, literals, "main", Lzx.literals, main), "main", Lzx.longest, FALSE)
  IN  Built(ReadLengths(in, both, "length", 0, Lzx.lengthSymbols), "length", Lzx.longest, TRUE)

(* An uncompressed block starts with the recent offsets; none may be 0.    *)
PlainHeader(in, st) ==
  IF ~Held(in, st.at, 3) THEN Fail(st)
  ELSE IF \E i \in 0..2 : in[st.at + i] = 0 THEN Fail(st)
  ELSE [st EXCEPT !.at = @ + 3, !.recent = SubSeq(in, st.at, st.at + 2)]

BlockHeader(in, st, kind) ==
  LET sized == AlignedTree(in, BlockSize(in, st, kind))
  IN  IF sized.state # "on" THEN sized
      ELSE IF sized.type \in {1, 2} THEN CodedHeader(in, sized)
      ELSE IF sized.type = 3 THEN PlainHeader(in, sized)
      ELSE Fail(sized)

-----------------------------------------------------------------------------
(* decodeUncompressed: an odd number of bytes is followed by one more.     *)
PlainBlock(in, st) ==
  IF ~Held(in, st.at, st.left) THEN Fail(st)
  ELSE LET end == st.at + st.left
       IN  [st EXCEPT !.out = @ \o SubSeq(in, st.at, end - 1), !.left = 0,
                      !.at = IF st.left % 2 = 1 /\ Held(in, end, 1) THEN end + 1 ELSE end]

(* Where a match lies: one of the three recent offsets, which then comes   *)
(* first, or a slot's base and extra bits, the lowest of them from a tree  *)
(* in aligned blocks.  st.at is behind the length.                         *)
Offset(in, st, slot) ==
  LET wide == Lzx.extra[slot + 1] >= 3 /\ st.type = 2
      n == IF wide THEN 2 ELSE 1
      low == IF wide THEN in[st.at + 1] ELSE 0
      d == Lzx.slots[slot + 1] + (IF wide THEN 8 * in[st.at] ELSE in[st.at]) + low - 2
  IN  IF slot =< 2
      THEN [st EXCEPT !.recent[slot + 1] = st.recent[1], !.recent[1] = st.recent[slot + 1]]
      ELSE IF ~Held(in, st.at, n) THEN Fail(st)
      ELSE IF wide /\ ~HasCode(st.lengths["aligned"], low) THEN Fail(st)
      ELSE [st EXCEPT !.at = @ + n, !.recent = <<d, @[1], @[2]>>]

(* The match itself, n long: it stays within its block and the window.     *)
LzxCopy(st, n, window) ==
  LET d == st.recent[1]
  IN  IF st.state # "on" THEN st
      ELSE IF d = 0 \/ d > window \/ d > Len(st.out) THEN Fail(st)
      ELSE [st EXCEPT !.out = Copied(@, d, n), !.left = @ - n]

LzxReference(in, st, symbol, window) ==
  LET header == symbol % (Lzx.primary + 1)
      slot == symbol \div (Lzx.primary + 1)
      long == header = Lzx.primary
      n == Lzx.least + header + (IF long THEN in[st.at + 1] ELSE 0)
  IN  IF slot >= Slots(window) THEN Fail(st)
      ELSE IF long /\ (~Held(in, st.at, 2) \/ ~HasCode(st.lengths["length"], in[st.at + 1])) THEN Fail(st)
      ELSE IF n > st.left THEN Fail(st)
      ELSE LzxCopy(Offset(in, Took(in, st, IF long THEN 2 ELSE 1), slot), n, window)

LzxSymbol(in, st, window) ==
  IF st.state # "on" \/ st.left = 0 THEN st
  ELSE IF ~Held(in, st.at, 1) \/ ~HasCode(st.lengths["main"], in[st.at]) THEN Fail(st)
  ELSE IF in[st.at] < Lzx.literals
  THEN [st EXCEPT !.at = @ + 1, !.left = @ - 1, !.out = Append(@, in[st.at])]
  ELSE LzxReference(in, st, in[st.at] - Lzx.literals, window)
CodedBlock(in, st, window) == Turns(st, st.left, LAMBDA s : LzxSymbol(in, s, window))

(* Whether the output has calls to translate: WIM looks at what its blocks *)
(* were, the others at their header.                                       *)
MarksE8(st) == st.type = 3 \/ st.lengths["main"][Lzx.e8 + 1] # 0
Marked(done, kind) ==
  IF kind = "wim" /\ done.state = "on" /\ MarksE8(done) THEN [done EXCEPT !.e8 = Lzx.wimSize] ELSE done
LzxBlock(in, header, size, kind, window) ==
  IF header.state # "on" \/ header.left = 0 \/ header.left > size - Len(header.out) THEN Fail(header)
  ELSE Marked(IF header.type = 3 THEN PlainBlock(in, header) ELSE CodedBlock(in, header, window), kind)

NextLzxBlock(in, st, size, kind, window) ==
  IF st.state # "on" \/ Len(st.out) >= size THEN st
  ELSE LzxBlock(in, BlockHeader(in, st, kind), size, kind, window)
LzxBlocks(in, st, size, kind, window) ==
  Turns(st, size, LAMBDA s : NextLzxBlock(in, s, size, kind, window))

-----------------------------------------------------------------------------
(* undoClassicE8, undoWimE8: behind each E8, an absolute place becomes a   *)
(* distance again.  Numbers are as many values as Number takes, the lowest *)
(* first, and signed.                                                      *)
NumberLen == 4
NumberRange == Lzx.literals^NumberLen
Unsigned(out, p) ==
  LET v == [i \in 0..NumberLen - 1 |-> out[p + i] * Lzx.literals^i]
  IN  FoldFunction(+, 0, v)
Signed(n) == IF 2 * n >= NumberRange THEN n - NumberRange ELSE n
Written(out, p, n) ==
  [i \in DOMAIN out |-> IF i \in p..p + NumberLen - 1
                        THEN ((n % NumberRange) \div Lzx.literals^(i - p)) % Lzx.literals
                        ELSE out[i]]
Relative(absolute, current, size) ==
  IF absolute >= 0 THEN absolute - current ELSE absolute + size

UndoOne(st, size) ==      \* pos counts from 0
  LET absolute == Signed(Unsigned(st.out, st.pos + 2))
      past == [st EXCEPT !.pos = @ + 1 + NumberLen]
  IN  IF st.pos >= Len(st.out) - Lzx.tail THEN st
      ELSE IF st.out[st.pos + 1] # Lzx.e8 THEN [st EXCEPT !.pos = @ + 1]
      ELSE IF absolute >= -st.pos /\ absolute < size
      THEN [past EXCEPT !.out = Written(@, st.pos + 2, Relative(absolute, st.pos, size))] ELSE past
UndoE8(out, size) == Turns([out |-> out, pos |-> 0], Len(out), LAMBDA st : UndoOne(st, size)).out

LzxStart(in, kind, window) ==
  LET st == [at |-> 1, out |-> <<>>, state |-> "on", type |-> 0, left |-> 0, e8 |-> 0,
             recent |-> <<1, 1, 1>>, index |-> 0,
             lengths |-> [main |-> Repeat(0, MainSymbols(window)),
                          length |-> Repeat(0, Lzx.lengthSymbols), aligned |-> <<>>]]
  IN  IF kind = "wim" THEN st
      ELSE IF ~Held(in, 1, 1) THEN Fail(st)
      ELSE IF in[1] = 0 THEN Took(in, st, 1)
      ELSE IF ~Held(in, 1, 2) THEN Fail(st) ELSE [st EXCEPT !.at = 3, !.e8 = in[2]]

WithoutE8(st) == IF st.state # "failed" /\ st.e8 > 0 THEN [st EXCEPT !.out = UndoE8(@, st.e8)] ELSE st
LzxDecoded(in, size, kind, window) ==
  IF in = <<>> \/ size = 0 \/ (kind = "wim" /\ size > window) THEN NoOutput
  ELSE Outcome(WithoutE8(LzxBlocks(in, LzxStart(in, kind, window), size, kind, window)))

-----------------------------------------------------------------------------
(* Xpress: lengths of all symbols, which must use up every code, then the  *)
(* symbols.  A symbol that is not a literal names the bits of a distance   *)
(* and a length, to which bytes and words may be added.                    *)
XpressTree(lengths) ==
  /\ TreeOK(lengths, Xpress.longest)
  /\ Shares(lengths, Xpress.longest) = 2^Xpress.longest

(* decodeMatchLength: how many numbers a length takes, and what it is.     *)
MatchLength(in, at, nibble) ==
  IF nibble # Xpress.nibble - 1 THEN [ok |-> TRUE, n |-> 0, length |-> nibble]
  ELSE IF ~Held(in, at, 1) THEN [ok |-> FALSE]
  ELSE IF in[at] # Xpress.byte - 1
       THEN [ok |-> TRUE, n |-> 1, length |-> Xpress.nibble - 1 + in[at]]
  ELSE LET short == Held(in, at + 1, 1) /\ in[at + 1] # 0
           n == IF short THEN 2 ELSE 3
       IN  IF ~Held(in, at, n) THEN [ok |-> FALSE]
           ELSE [ok |-> in[at + n - 1] >= Xpress.nibble - 1, n |-> n, length |-> in[at + n - 1]]

XpressReference(in, st, code, size) ==
  LET length == MatchLength(in, st.at + 1, code % Xpress.nibble)
      suffix == st.at + 1 + length.n
      d == 2^(code \div Xpress.nibble) + in[suffix]
      n == length.length + Xpress.least
  IN  IF ~length.ok THEN Fail(st)
      ELSE IF ~Held(in, suffix, 1) THEN Fail(st)
      ELSE IF d > Len(st.out) \/ n > size - Len(st.out) THEN Fail(st)
      ELSE [st EXCEPT !.at = suffix + 1, !.out = Copied(@, d, n)]

XpressSymbol(in, lengths, st, size) ==
  IF st.state # "on" \/ Len(st.out) >= size THEN st
  ELSE IF ~Held(in, st.at, 1) \/ ~HasCode(lengths, in[st.at]) THEN Fail(st)
  ELSE IF in[st.at] < Xpress.literals THEN [st EXCEPT !.at = @ + 1, !.out = Append(@, in[st.at])]
  ELSE XpressReference(in, st, in[st.at] - Xpress.literals, size)

XpressDecoded(in, size) ==
  IF size = 0 \/ ~Held(in, 1, Xpress.symbols + 1) THEN NoOutput
  ELSE LET lengths == SubSeq(in, 1, Xpress.symbols)
       IN  IF ~XpressTree(lengths) THEN NoOutput
           ELSE Outcome(Turns([Start EXCEPT !.at = Xpress.symbols + 1], size,
                              LAMBDA s : XpressSymbol(in, lengths, s, size)))
=============================================================================
