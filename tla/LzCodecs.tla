------------------------------ MODULE LzCodecs ------------------------------
(***************************************************************************)
(* The older decompressors: SZDD's ring, ZIP's Shrink, OS/2 PACK's LZW     *)
(* with a recycled dictionary, and PACK2.  A compressed stream is the      *)
(* sequence of the codes (SZDD: the bytes) it holds.  What the code fixes (4096-entry      *)
(* tables, 9 to 13 bit codes and so on) are fields of the constants; what  *)
(* a decoder does at the edges of its table does not depend on how far     *)
(* away they are.                                                          *)
(***************************************************************************)
EXTENDS Inflate

CONSTANTS
  Szdd,     \* [byte, flags, nibble, ring, tail, least, blank]
  Shrink,   \* [literals, table, narrow, wide, grow, clear]
  Pack      \* [table, literals]

-----------------------------------------------------------------------------
(* SZDD: flag bits, the lowest first, say whether a literal or a place and *)
(* length in the ring follow; the output may end within a reference.       *)
SzddValue(st, size) ==
  LET v == st.ring[st.from]
  IN  IF Len(st.out) = size THEN st
      ELSE [st EXCEPT !.out = Append(@, v), !.ring[st.pos] = v,
                      !.pos = (@ + 1) % Szdd.ring, !.from = (@ + 1) % Szdd.ring]
SzddCopy(st, from, n, size) ==
  Turns([st EXCEPT !.from = from], n, LAMBDA s : SzddValue(s, size))

SzddItem(input, size, st) ==
  LET reload == st.flags = <<>>
      flags == IF reload THEN [i \in 1..Szdd.flags |-> (input[st.at] \div 2^(i - 1)) % 2] ELSE st.flags
      at == IF reload THEN st.at + 1 ELSE st.at
      from == [st EXCEPT !.flags = Tail(flags), !.at = at + 2 - Head(flags)]
      literal == [from EXCEPT !.ring[st.pos] = input[at]]
      place == input[at] + (input[at + 1] \div Szdd.nibble) * Szdd.byte
  IN  IF st.state = "failed" \/ Len(st.out) >= size THEN st
      ELSE IF reload /\ st.at > Len(input) THEN Fail(st)
      ELSE IF from.at - 1 > Len(input) THEN Fail(st)
      ELSE IF Head(flags) = 1 THEN SzddCopy(literal, st.pos, 1, size)
      ELSE SzddCopy(from, place, (input[at + 1] % Szdd.nibble) + Szdd.least, size)

SzddStart ==
  [at |-> 1, flags |-> <<>>, out |-> <<>>, state |-> "on", from |-> 0,
   pos |-> Szdd.ring - Szdd.tail, ring |-> [i \in 0..Szdd.ring - 1 |-> Szdd.blank]]
SzddDecoded(input, size) ==
  LET st == Turns(SzddStart, Len(input) + 1, LAMBDA s : SzddItem(input, size, s))
  IN  IF st.state = "failed" THEN NoOutput ELSE Output(st.out)

-----------------------------------------------------------------------------
(* Shrink: the code before all others marks commands; parent holds, for    *)
(* each code, its prefix, bogus for a literal, or free. A clear marks the  *)
(* prefixes of the codes in use up to the last one given out, frees the    *)
(* unmarked of these and starts the search for free codes over; a mark     *)
(* beyond the last one given out stays.                                    *)
Bogus == Shrink.literals
Free == Shrink.table
ShrinkCodes == 0..Shrink.table - 1
IsFree(st, c) == st.parent[c] = Free /\ c \notin st.marked

ShrinkClearAll(st) ==     \* mutant: prefixes of codes in use are freed as well
  [st EXCEPT !.parent = [c \in ShrinkCodes |-> IF c \in Bogus + 1..st.last THEN Free ELSE @[c]],
             !.last = Bogus]
ShrinkClear(st) ==
  LET searched == Bogus + 1..st.last
      prefixes == {st.parent[c] % Shrink.table : c \in {i \in searched : ~IsFree(st, i)}}
      marked == st.marked \cup {p \in prefixes : p > Bogus}
  IN  [st EXCEPT !.parent = [c \in ShrinkCodes |->
                               IF c \in searched \ marked THEN Free ELSE @[c]],
                 !.marked = marked \ searched, !.last = Bogus]

(* The values of a code, last first: a free code on the way stands for the *)
(* code before with the value it began with. Only what follows a free code *)
(* that comes first counts against the length of a chain.                  *)
UnwindStep(st, chain) ==
  LET on == [chain EXCEPT !.turns = @ + 1]
  IN  IF ~chain.ok \/ chain.code = Bogus THEN chain
      ELSE IF chain.code \notin ShrinkCodes \/ on.turns > Shrink.table
      THEN [chain EXCEPT !.ok = FALSE]
      ELSE IF IsFree(st, chain.code)
      THEN [on EXCEPT !.code = st.old, !.stack = Append(@, st.final)]
      ELSE [on EXCEPT !.code = st.parent[@] % Shrink.table, !.stack = Append(@, st.value[chain.code])]
UnwindFrom(st, code) ==
  [ok |-> TRUE, turns |-> 0] @@
  (IF code \in ShrinkCodes /\ IsFree(st, code) THEN [code |-> st.old, stack |-> <<st.final>>]
   ELSE [code |-> code, stack |-> <<>>])
Unwind(st, code) ==
  Turns(UnwindFrom(st, code), Shrink.table + 1, LAMBDA chain : UnwindStep(st, chain))

ShrinkCode(st, code, size) ==
  LET chain == Unwind(st, code)
      free == {c \in st.last + 1..Shrink.table - 1 : IsFree(st, c)}
      new == Min(free)
      final == chain.stack[Len(chain.stack)]
  IN  IF ~chain.ok \/ chain.stack = <<>> \/ Len(st.out) + Len(chain.stack) > size \/ free = {}
      THEN Fail(st)
      ELSE [st EXCEPT !.out = @ \o Reverse(chain.stack), !.final = final, !.last = new,
                      !.value[new] = final, !.parent[new] = st.old, !.old = code]

ShrinkTurn(in, st, size) ==
  LET at(n) == [st EXCEPT !.at = @ + n]
  IN  IF st.state = "failed" \/ Len(st.out) >= size THEN st
      ELSE IF ~Held(in, st.at, 1) THEN Fail(st)
      ELSE IF in[st.at] # Bogus THEN ShrinkCode(at(1), in[st.at], size)
      ELSE IF ~Held(in, st.at, 2) THEN Fail(st)
      ELSE IF in[st.at + 1] = Shrink.grow /\ st.width < Shrink.wide
           THEN [at(2) EXCEPT !.width = @ + 1]
      ELSE IF in[st.at + 1] = Shrink.clear THEN ShrinkClear(at(2))
      ELSE Fail(st)

(* ensureDecoded: the first code is a literal and is never given out.      *)
ShrinkStart(literal) ==
  [at |-> 2, width |-> Shrink.narrow, old |-> literal, final |-> literal, last |-> Bogus,
   out |-> <<literal>>, marked |-> {}, state |-> "on",
   parent |-> [c \in ShrinkCodes |-> IF c < Shrink.literals THEN Bogus ELSE Free],
   value |-> [c \in ShrinkCodes |-> IF c < Shrink.literals THEN c ELSE 0]]
ShrinkDecoded(in, size) ==
  IF ~Held(in, 1, 1) \/ in[1] >= Shrink.literals THEN NoOutput
  ELSE LET all == Turns(ShrinkStart(in[1]), Len(in), LAMBDA st : ShrinkTurn(in, st, size))
       IN  IF all.state = "on" /\ Len(all.out) = size THEN Output(all.out) ELSE NoOutput

-----------------------------------------------------------------------------
(* PACK: LZW whose dictionary gives its least recently made string that no *)
(* other extends to the next one. Code 0 stops.                            *)
PackCodes == 0..Pack.table - 1
FirstDynamic == Pack.literals + 1

(* addMru: a list that was emptied has lost its oldest end, and what is    *)
(* added to it is never found again.                                       *)
Unlink(lru, code) == SelectSeq(lru, LAMBDA c : c # code)
AddMru(lru, code) == IF lru = <<>> THEN <<>> ELSE Append(lru, code)

(* What takes the place of the oldest string: the last code, one value     *)
(* longer. An error leaves the state failed.                               *)
PackExtend(st, code) ==
  LET new == Head(st.lru)
      was == st.parent[new]
      freed == IF was # 0 THEN [st.use EXCEPT ![was] = @ - 1] ELSE st.use
      rest == Unlink(st.lru, new)
      back == IF was # 0 /\ freed[was] = 0 THEN AddMru(rest, was) ELSE rest
      source == IF code # new THEN code ELSE st.old
      used == IF freed[st.old] > 0 THEN freed[st.old] + 1 ELSE 1
      left == IF freed[st.old] > 0 THEN back ELSE Unlink(back, st.old)
  IN  IF st.lru = <<>> THEN Fail(st)
      ELSE IF new < FirstDynamic \/ st.use[new] # 0 THEN Fail(st)
      ELSE IF was # 0 /\ st.use[was] = 0 THEN Fail(st)
      ELSE IF st.size[st.old] = 0 \/ source = 0 \/ st.size[source] = 0 THEN Fail(st)
      ELSE IF st.size[st.old] + 1 > Pack.table - Pack.literals THEN Fail(st)
      ELSE [st EXCEPT !.first[new] = st.first[st.old], !.value[new] = st.first[source],
                      !.size[new] = st.size[st.old] + 1, !.parent[new] = st.old,
                      !.use = [freed EXCEPT ![st.old] = used, ![new] = 0],
                      !.lru = AddMru(left, new)]

(* The string of a code, and whether its prefixes are as long as they say. *)
PackString(st, code) ==
  LET n == st.size[code]
      node[k \in 0..n] == IF k = n THEN code ELSE st.parent[node[k + 1]]
  IN  [ok |-> n # 0 /\ \A k \in 1..n : node[k] # 0 /\ st.size[node[k]] = k,
       out |-> [k \in 1..n |-> st.value[node[k]]]]

PackCode(in, st) ==
  LET code == in[st.at]
      next == IF st.old = 0 THEN st ELSE PackExtend(st, code)
      string == PackString(next, code)
  IN  IF st.state # "on" THEN st
      ELSE IF ~Held(in, st.at, 1) THEN Fail(st)
      ELSE IF code = 0 THEN [st EXCEPT !.state = "end"]
      ELSE IF next.state = "failed" THEN next
      ELSE IF ~string.ok THEN Fail(next)
      ELSE [next EXCEPT !.out = @ \o string.out, !.old = code, !.at = @ + 1]

PackStart ==
  LET literal == 1..Pack.literals
  IN  [at |-> 1, old |-> 0, out |-> <<>>, state |-> "on",
       parent |-> [c \in PackCodes |-> 0],
       use |-> [c \in PackCodes |-> IF c \in literal THEN 1 ELSE 0],
       size |-> [c \in PackCodes |-> IF c \in literal THEN 1 ELSE 0],
       first |-> [c \in PackCodes |-> IF c \in literal THEN c - 1 ELSE 0],
       value |-> [c \in PackCodes |-> IF c \in literal THEN c - 1 ELSE 0],
       lru |-> [i \in 1..Pack.table - FirstDynamic |-> FirstDynamic + i - 1]]

(* A size of none is not compared.                                         *)
PackDecoded(in, size) ==
  LET all == Turns(PackStart, Len(in) + 1, LAMBDA st : PackCode(in, st))
  IN  IF all.state = "end" /\ size \in {-1, Len(all.out)} THEN Output(all.out) ELSE NoOutput
-----------------------------------------------------------------------------
(* OS/2 PACK2: frames of entropy-coded symbols that make up an             *)
(* intermediate stream of bytes, and in that stream blocks of literals and *)
(* LZ tokens behind an escape byte.  A frame is the sequence of the        *)
(* numbers its reads yield.  The shape of its trees, which sortIdsExact    *)
(* and buildTree derive from the weights, only decides how many bits a     *)
(* symbol takes and is left out; that symbols of no weight have no code,   *)
(* and that a tree without any yields 0 forever, are not.                  *)
CONSTANT
  Pack2   \* [marker, stored, byte, escape, plain, long, longBase, least, extra, class,
          \*  tables, modes, zeros, history, limit, most]

Symbols2 == Pack2.byte + Pack2.long + 1 + 3 * Pack2.tables
FirstNear == Pack2.byte + Pack2.long + 1
FirstWord == FirstNear + Pack2.tables
FirstToken == FirstWord + Pack2.tables
Word(bytes, p) == bytes[p] + Pack2.byte * bytes[p + 1]
WordBytes(v) == <<v % Pack2.byte, (v \div Pack2.byte) % Pack2.byte>>

-----------------------------------------------------------------------------
(* The frequencies: a symbol beyond the bytes stands for a run of zeros.   *)
Frequency(in, st) ==
  IF st.state # "on" \/ Len(st.frequencies) >= Symbols2 THEN st
  ELSE IF ~Held(in, st.at, 1) \/ in[st.at] > Pack2.byte THEN Fail(st)
  ELSE [st EXCEPT !.at = @ + 1,
                  !.frequencies = @ \o (IF in[st.at] = Pack2.byte THEN Repeat(0, Pack2.zeros)
                                        ELSE <<in[st.at]>>)]
Frequencies(in, st) ==
  [Turns(st, Symbols2, LAMBDA s : Frequency(in, s)) EXCEPT !.frequencies = SubSeq(@, 1, Symbols2)]

(* scaleWeights: the symbols of either class are weighted by a factor; a   *)
(* weight that is not zero stays so when all are scaled down.              *)
Class(s) == IF s \in Pack2.class THEN 1 ELSE 0
Weights(frequencies, factors) ==
  [i \in DOMAIN frequencies |-> frequencies[i] * factors[Class(i - 1) + 1]]

Contextual(frequencies, f) ==
  IF <<f[3], f[4]>> \in {<<f[2], f[1]>>, <<0, 0>>}
  THEN Weights(frequencies, <<f[1], f[2]>>)
  ELSE Weights(frequencies, <<f[4], f[3]>>)

-----------------------------------------------------------------------------
(* What was seen last comes first in a table of the most recent.           *)
Pushed(table, v) == <<v>> \o SubSeq(table, 1, Pack2.tables - 1)
Fronted(table, i) == <<table[i]>> \o RemoveAt(table, i)

Put(st, bytes) == [st EXCEPT !.out = @ \o bytes]

(* A value that may be the one this place had before: each mode of the     *)
(* wider distances has a place, and the short ones and the long tokens.    *)
Near == 3
Long == 4
Kept(st, place, symbol) == IF symbol = Pack2.byte THEN st.before[place] ELSE symbol

(* The bytes a token's tag calls for: one of a short distance, two of a    *)
(* wider one with a prefix of its own, or three, length first.             *)
OneByte(in, st) ==
  LET v == Kept(st, Near, in[st.at])
  IN  Put([st EXCEPT !.at = @ + 1, !.mode = 0, !.before[Near] = v], <<v % Pack2.byte>>)

TwoBytes(in, st) ==            \* mode, extra bits, value
  LET mode == in[st.at]
      v == Kept(st, mode, in[st.at + 2])
  IN  Put([st EXCEPT !.at = @ + 3, !.mode = 0, !.before[mode] = v],
          WordBytes((v + Pack2.modes[mode + 1].base) * Pack2.modes[mode + 1].unit + in[st.at + 1]))

LongByte(in, st) ==
  IF st.mode = 5
  THEN LET v == Kept(st, Long, in[st.at])
       IN  Put([st EXCEPT !.at = @ + 1, !.mode = 0, !.before[Long] = v], <<v % Pack2.byte>>)
  ELSE Put([st EXCEPT !.at = @ + 1, !.mode = @ + 1],
           <<IF in[st.at] = Pack2.byte THEN 0 ELSE (in[st.at] + 1) % Pack2.byte>>)

Tail2(in, st) ==
  IF ~Held(in, st.at, IF st.mode = 2 THEN 3 ELSE 1) THEN Fail(st)
  ELSE IF st.mode = 1 THEN OneByte(in, st)
  ELSE IF st.mode = 2 THEN TwoBytes(in, st) ELSE LongByte(in, st)

(* A main symbol: a byte, a token's tag, a word at a short distance, one   *)
(* of the recent words, or one of the recent tokens.                       *)
Tag(st, tag) ==
  LET put == [Put(st, <<Pack2.escape, tag>>) EXCEPT !.mode = Pack2.extra[tag + 1]]
  IN  IF put.mode = 0 THEN put ELSE [put EXCEPT !.tokens = Pushed(@, Len(st.out) + 1)]

NearWord(st, distance) ==
  LET from == Len(st.out) - distance + 1
      word == SubSeq(st.out, from, from + 1)
  IN  IF from < 1 THEN Fail(st)
      ELSE [Put(st, word) EXCEPT !.words = Pushed(@, Word(word, 1))]

RecentWord(st, i) ==
  LET words == Fronted(st.words, i)
  IN  [Put(st, WordBytes(words[1])) EXCEPT !.words = words]

Wide(tag) == (tag \div Pack2.plain) % 2 = 1
TokenBytes(tag) == IF tag = Pack2.long THEN 4 ELSE IF Wide(tag) THEN 3 ELSE 2
RecentToken(st, i) ==
  LET old == st.tokens[i]       \* counts from 0
      n == TokenBytes(st.out[old + 1])
      rest == RemoveAt(st.tokens, i)
  IN  IF old >= Len(st.out) THEN Fail(st)
      ELSE IF old + n > Len(st.out) THEN Fail(st)
      ELSE [Put(st, <<Pack2.escape>> \o SubSeq(st.out, old + 1, old + n))
              EXCEPT !.tokens = <<Len(st.out) + 1>> \o rest]

Spelled(st, symbol) ==
  IF symbol < Pack2.byte THEN Put(st, <<symbol>>)
  ELSE IF symbol < FirstNear THEN Tag(st, symbol - Pack2.byte)
  ELSE IF symbol < FirstWord THEN NearWord(st, symbol - FirstNear + 2)
  ELSE IF symbol < FirstToken THEN RecentWord(st, symbol - FirstWord + 1)
  ELSE RecentToken(st, symbol - FirstToken + 1)

MainSymbol(in, st) ==
  LET weights == IF st.context = 0 THEN st.primary ELSE st.contextual
      silent == NoCodes(weights)
      symbol == IF silent THEN 0 ELSE in[st.at]
  IN  IF ~silent /\ ~Held(in, st.at, 1) THEN Fail(st)
      ELSE Spelled([st EXCEPT !.at = IF silent THEN @ ELSE @ + 1, !.context = Class(symbol)], symbol)

IntermediateTurn(in, st, target) ==
  LET next == IF st.mode # 0 THEN Tail2(in, st) ELSE MainSymbol(in, st)
  IN  IF st.state # "on" \/ Len(st.out) >= target THEN st
      ELSE IF st.mode = 0 /\ Len(next.out) > Pack2.most THEN Fail(next) ELSE next
Intermediate(in, st, target) ==
  Turns(st, target, LAMBDA s : IntermediateTurn(in, s, target))

(* decodeFrame: a stored one, or the factors, the frequencies and symbols  *)
(* to exactly the length it names.                                         *)
FrameStart(in, at) ==
  Frequencies(in, [at |-> at + 5, out |-> <<>>, state |-> "on", mode |-> 0, context |-> 0,
                   before |-> [p \in 0..Long |-> 0], frequencies |-> <<>>,
                   words |-> Repeat(0, Pack2.tables), tokens |-> Repeat(0, Pack2.tables),
                   primary |-> <<>>, contextual |-> <<>>])

Weighted(st, factors) ==
  IF st.state # "on" THEN st
  ELSE [st EXCEPT !.primary = Weights(st.frequencies, <<factors[1], factors[2]>>),
                  !.contextual = Contextual(st.frequencies, factors)]

Frame(in, at) ==
  IF ~Held(in, at, 1) THEN [state |-> "failed"]
  ELSE IF in[at] = Pack2.stored
  THEN IF ~Held(in, at, 2) \/ ~Held(in, at + 2, in[at + 1]) THEN [state |-> "failed"]
       ELSE [state |-> "on", at |-> at + 2 + in[at + 1], out |-> SubSeq(in, at + 2, at + 1 + in[at + 1])]
  ELSE IF ~Held(in, at, 5) THEN [state |-> "failed"]
  ELSE LET st == Intermediate(in, Weighted(FrameStart(in, at), SubSeq(in, at + 1, at + 4)), in[at])
       IN  IF st.state = "on" /\ Len(st.out) # in[at] THEN [state |-> "failed"] ELSE st

-----------------------------------------------------------------------------
(* expandLzBlock: an escaped escape, or a reference of one of three widths *)
(* into the history and what the block made so far.                        *)
Token(block, p) ==
  LET tag == block[p + 1]
  IN  IF tag = Pack2.long
      THEN [n |-> 5, length |-> block[p + 2] + Pack2.longBase, distance |-> Word(block, p + 3) + 1]
      ELSE IF Wide(tag)
      THEN [n |-> 4, length |-> (tag % Pack2.plain) + Pack2.least, distance |-> Word(block, p + 2) + 1]
      ELSE [n |-> 3, length |-> tag + Pack2.least, distance |-> block[p + 2] + 1]

(* st.out is the history and what was made; base is how much was there.    *)
ExpandTurn(block, base, st) ==
  LET token == Token(block, st.at)
      put(n, values) == [st EXCEPT !.at = @ + n, !.out = @ \o values]
  IN  IF st.state = "failed" \/ st.at > Len(block) THEN st
      ELSE IF block[st.at] # Pack2.escape
      THEN IF Len(st.out) - base >= Pack2.limit THEN Fail(st) ELSE put(1, <<block[st.at]>>)
      ELSE IF ~Held(block, st.at, 2) THEN Fail(st)
      ELSE IF block[st.at + 1] = Pack2.plain THEN put(2, <<Pack2.escape>>)
      ELSE IF ~Held(block, st.at, TokenBytes(block[st.at + 1]) + 1) THEN Fail(st)
      ELSE IF token.distance > Len(st.out) THEN Fail(st)
      ELSE IF Len(st.out) - base + token.length > Pack2.limit THEN Fail(st)
      ELSE [st EXCEPT !.at = @ + token.n, !.out = Copied(@, token.distance, token.length)]
Expansion(st, n) == [st EXCEPT !.out = SubSeq(@, n + 1, Len(@))]
Expand(block, history) ==
  Outcome(Expansion(Turns([Start EXCEPT !.out = history], Len(block) + 1,
                       LAMBDA s : ExpandTurn(block, Len(history), s)), Len(history)))

Expanded(block, history) ==
  IF block[1] = 0 THEN Output(Tail(block)) ELSE Expand(Tail(block), history)

(* The blocks of an intermediate stream, behind their lengths; what a      *)
(* member has been decoded to is st.out.                                   *)
Join2(st, n, block, size) ==
  IF ~block.ok \/ Len(st.out) + Len(block.out) > size THEN Fail(st)
  ELSE [st EXCEPT !.p = @ + 2 + n, !.out = @ \o block.out,
                  !.history = Trailing(@ \o block.out, Len(Pack2.history))]
Block2(stream, st, size) ==
  LET n == Word(stream, st.p)
  IN  IF st.state # "on" \/ st.p > Len(stream) THEN st
      ELSE IF ~Held(stream, st.p, 2) THEN Fail(st)
      ELSE IF n = 0 \/ n > Pack2.limit \/ ~Held(stream, st.p + 2, n) THEN Fail(st)
      ELSE Join2(st, n, Expanded(SubSeq(stream, st.p + 2, st.p + 1 + n), st.history), size)
Blocks2(stream, st, size) ==
  Turns([st EXCEPT !.p = 1], Len(stream) \div 3 + 1, LAMBDA s : Block2(stream, s, size))

FrameBlocks(frame, st, size) ==
  IF frame.state # "on" THEN Fail(st) ELSE Blocks2(frame.out, [st EXCEPT !.at = frame.at], size)
NextFrame(in, st, size) ==
  IF st.state # "on" \/ Len(st.out) >= size THEN st
  ELSE IF ~Held(in, st.at, 1) \/ in[st.at] # Pack2.marker THEN Fail(st)
  ELSE FrameBlocks(Frame(in, st.at + 1), st, size)

(* decompressOs2Pack2                                                      *)
Pack2Decoded(in, size) ==
  LET start == [at |-> 1, p |-> 1, out |-> <<>>, state |-> "on", history |-> Pack2.history]
      frames == Cardinality({i \in DOMAIN in : in[i] = Pack2.marker})
  IN  IF ~Held(in, 1, 1) \/ in[1] # Pack2.marker THEN NoOutput
      ELSE Sized(Outcome(Turns(start, frames + 1, LAMBDA s : NextFrame(in, s, size))), size)
=============================================================================
