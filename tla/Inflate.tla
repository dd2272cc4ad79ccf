------------------------------ MODULE Inflate ------------------------------
(***************************************************************************)
(* Raw Deflate.  A compressed stream is the sequence of numbers   *)
(* its reads yield, one for each field or symbol; a read past the last of  *)
(* them fails, as one past the last bit does.  A prefix code is given by   *)
(* the lengths of its codes: a symbol of length zero has none, and reading *)
(* it fails.  What DeflateDecoder.cpp fixes as 256 literals, 29 lengths, a *)
(* 32 KiB window and so on are fields of Deflate, so that small streams go *)
(* through every path.                                                     *)
(***************************************************************************)
EXTENDS Integers, Sequences, FiniteSets, SequencesExt, FiniteSetsExt

CONSTANT
  Deflate   \* [literals, longest, longestCode, order, least, most, repeats,
            \*  lengthBase, distanceBase, fixed, window]

Repeat(x, n) == [i \in 1..n |-> x]

(* A loop that is over after n turns at most; its turn leaves what is over *)
(* as it is.  It is given the value before it, not an expression.          *)
Turns(start, n, Turn(_)) ==
  LET after[k \in 0..n] ==
        IF k = 0 THEN start ELSE CHOOSE next \in {Turn(st) : st \in {after[k - 1]}} : TRUE
  IN  after[n]
Held(in, at, n) == at + n - 1 =< Len(in)

-----------------------------------------------------------------------------
(* Prefix codes.  lengths[s + 1] is the length of symbol s's code.  A tree *)
(* is refused when the lengths claim more codes than there are; one that   *)
(* leaves codes unused is built, and one without symbols too.              *)
Shares(lengths, longest) ==
  MapThenSumSet(LAMBDA i : IF lengths[i] = 0 THEN 0 ELSE 2^(longest - lengths[i]),
                DOMAIN lengths)
TreeOK(lengths, longest) ==
  /\ \A i \in DOMAIN lengths : lengths[i] =< longest
  /\ Shares(lengths, longest) =< 2^longest
NoCodes(lengths) == \A i \in DOMAIN lengths : lengths[i] = 0
HasCode(lengths, s) == s + 1 \in DOMAIN lengths /\ lengths[s + 1] # 0

-----------------------------------------------------------------------------
(* How far a decoder has come: the next number, the output, and whether it *)
(* goes on, is at an end, has enough, or failed.                           *)
Start == [at |-> 1, out |-> <<>>, state |-> "on"]
Fail(st) == [st EXCEPT !.state = "failed"]
Full(st, policy) == [st EXCEPT !.state = IF policy = "prefix" THEN "enough" ELSE "failed"]

Emit(st, v, limit, policy) ==
  IF Len(st.out) = limit THEN Full(st, policy) ELSE [st EXCEPT !.out = Append(@, v)]

(* n more values of a history, each the one d before itself.               *)
Copied(history, d, n) ==
  LET v[i \in 1..Len(history) + n] == IF i =< Len(history) THEN history[i] ELSE v[i - d]
  IN  [i \in 1..Len(history) + n |-> v[i]]

(* The end of a sequence, at most n long.                                  *)
Trailing(s, n) == IF Len(s) =< n THEN s ELSE SubSeq(s, Len(s) - n + 1, Len(s))

(* appendMatch: the dictionary lies before the output, and only its last   *)
(* window values are in reach.                                             *)
Match(st, d, n, limit, policy, past, window) ==
  IF d > window \/ d > Len(past) + Len(st.out) THEN Fail(st)
  ELSE LET room == limit - Len(st.out)
           got == [st EXCEPT !.out =
                     SubSeq(Copied(past \o @, d, Min({n, room})), Len(past) + 1,
                            Len(past) + Len(@) + Min({n, room}))]
       IN  IF n > room THEN Full(got, policy) ELSE got

-----------------------------------------------------------------------------
EndOfBlock == Deflate.literals

(* The run a code-length symbol stands for: 16 repeats the length before   *)
(* it, 17 and 18 write zeros.                                              *)
LengthsRead(st, n, lengths) == [st EXCEPT !.at = @ + n, !.lengths = @ \o lengths]
CodeLength(in, codes, total, st) ==
  LET kind == in[st.at] - Deflate.longest
      times == Deflate.repeats[kind] + in[st.at + 1]
      refused == \/ kind = 1 /\ st.lengths = <<>>
                 \/ ~Held(in, st.at + 1, 1)
                 \/ times > total - Len(st.lengths)
  IN  IF ~st.ok \/ Len(st.lengths) = total THEN st
      ELSE IF ~Held(in, st.at, 1) \/ ~HasCode(codes, in[st.at]) THEN [st EXCEPT !.ok = FALSE]
      ELSE IF kind =< 0 THEN LengthsRead(st, 1, <<in[st.at]>>)
      ELSE IF refused THEN [st EXCEPT !.ok = FALSE]
      ELSE LengthsRead(st, 2, Repeat(IF kind = 1 THEN Last(st.lengths) ELSE 0, times))
CodeLengths(in, at, codes, total) ==
  Turns([ok |-> TRUE, at |-> at, lengths |-> <<>>], total,
        LAMBDA st : CodeLength(in, codes, total, st))

(* readDynamicTrees: three counts, the lengths of the code-length code in  *)
(* their fixed order, and the lengths of both alphabets in one sequence.   *)
SplitTrees(read, literals) ==
  IF ~read.ok THEN [ok |-> FALSE]
  ELSE LET literal == SubSeq(read.lengths, 1, literals)
           distance == SubSeq(read.lengths, literals + 1, Len(read.lengths))
       IN  IF ~HasCode(literal, EndOfBlock) \/ ~TreeOK(literal, Deflate.longest)
              \/ ~TreeOK(distance, Deflate.longest)
           THEN [ok |-> FALSE]
           ELSE [ok |-> TRUE, at |-> read.at, literal |-> literal, distance |-> distance]

DynamicTrees(in, at) ==
  IF ~Held(in, at, 3) THEN [ok |-> FALSE]
  ELSE LET n == [i \in 1..3 |-> in[at + i - 1] + Deflate.least[i]]
           place(s) == CHOOSE i \in DOMAIN Deflate.order : Deflate.order[i] = s
           codes == [i \in 1..Len(Deflate.order) |->
                       IF place(i - 1) =< n[3] THEN in[at + 2 + place(i - 1)] ELSE 0]
       IN  IF n[1] > Deflate.most[1] \/ n[2] > Deflate.most[2] \/ ~Held(in, at + 3, n[3])
           THEN [ok |-> FALSE]
           ELSE IF ~TreeOK(codes, Deflate.longestCode) \/ NoCodes(codes) THEN [ok |-> FALSE]
           ELSE SplitTrees(CodeLengths(in, at + 3 + n[3], codes, n[1] + n[2]), n[1])

FixedTrees(at) ==
  [ok |-> TRUE, at |-> at, literal |-> Deflate.fixed.literal, distance |-> Deflate.fixed.distance]

(* A length symbol is followed by its extra bits, a distance symbol and    *)
(* the distance's extra bits.                                              *)
Reference(in, st, trees, limit, policy, past, window) ==
  LET index == in[st.at] - EndOfBlock
      far == in[st.at + 2]
  IN  IF \/ index > Len(Deflate.lengthBase) \/ ~Held(in, st.at, 3)
         \/ ~HasCode(trees.distance, far) \/ far >= Len(Deflate.distanceBase)
         \/ ~Held(in, st.at, 4)
      THEN Fail(st)
      ELSE Match([st EXCEPT !.at = @ + 4], Deflate.distanceBase[far + 1] + in[st.at + 3],
                 Deflate.lengthBase[index] + in[st.at + 1], limit, policy, past, window)

(* The symbols of a block, to its end marker.                              *)
Symbol(in, st, trees, limit, policy, past, window) ==
  IF st.state # "on" THEN st
  ELSE IF ~Held(in, st.at, 1) \/ ~HasCode(trees.literal, in[st.at]) THEN Fail(st)
  ELSE IF in[st.at] = EndOfBlock THEN [st EXCEPT !.at = @ + 1, !.state = "end"]
  ELSE IF in[st.at] < EndOfBlock THEN Emit([st EXCEPT !.at = @ + 1], in[st.at], limit, policy)
  ELSE Reference(in, st, trees, limit, policy, past, window)
Symbols(in, st, trees, limit, policy, past, window) ==
  Turns(st, Len(in) + 1, LAMBDA s : Symbol(in, s, trees, limit, policy, past, window))

(* A stored block: its length, its complement, and the values, of which    *)
(* one is read before the limit is looked at.                              *)
Stored(in, st, limit, policy) ==
  LET n == in[st.at]
      room == limit - Len(st.out)
      has == Min({n, Len(in) - st.at - 1})
      took(k) == [st EXCEPT !.out = @ \o SubSeq(in, st.at + 2, st.at + 1 + k), !.at = @ + 2 + k]
  IN  IF ~Held(in, st.at, 2) \/ in[st.at + 1] # -n THEN Fail(st)
      ELSE IF has > room THEN Full(took(room), policy)
      ELSE IF has < n THEN Fail(st) ELSE [took(n) EXCEPT !.state = "end"]

Block(in, st, limit, policy, past, window) ==
  LET from == [st EXCEPT !.at = @ + 2]
      coded(trees) == IF ~trees.ok THEN Fail(st)
                      ELSE Symbols(in, [st EXCEPT !.at = trees.at], trees, limit, policy, past, window)
  IN  CASE in[st.at + 1] = 0 -> Stored(in, from, limit, policy)
        [] in[st.at + 1] = 1 -> coded(FixedTrees(from.at))
        [] in[st.at + 1] = 2 -> coded(DynamicTrees(in, from.at))
        [] OTHER -> Fail(st)

Ongoing(done, last) == IF done.state = "end" /\ ~last THEN [done EXCEPT !.state = "on"] ELSE done
NextBlock(in, st, limit, policy, past, window) ==
  IF st.state # "on" THEN st
  ELSE IF ~Held(in, st.at, 2) THEN Fail(st)
  ELSE Ongoing(Block(in, st, limit, policy, past, window), in[st.at] = 1)
Blocks(in, limit, policy, past, window) ==
  Turns(Start, Len(in) + 1, LAMBDA st : NextBlock(in, st, limit, policy, past, window))

(* decodeRaw and runRaw: a failure leaves no output.  A prefix of nothing  *)
(* is there without a look at the input.                                   *)
NoOutput == [ok |-> FALSE, out |-> <<>>]
Output(out) == [ok |-> TRUE, out |-> out]
Outcome(st) == IF st.state = "failed" THEN NoOutput ELSE Output(st.out)
Raw(in, limit, policy, dictionary, window) ==
  IF policy = "prefix" /\ limit = 0 THEN Output(<<>>)
  ELSE Outcome(Blocks(in, limit, policy, Trailing(dictionary, window), window))

Sized(raw, size) == IF raw.ok /\ Len(raw.out) = size THEN raw ELSE NoOutput

(* inflateRawPrefix, inflateRawExact; and (mutant) a prefix decoded as if   *)
(* the stream had to end with it.                                          *)
RawPrefixExact(in, wanted) == Sized(Raw(in, wanted, "exact", <<>>, Deflate.window), wanted)
RawPrefix(in, wanted) == Sized(Raw(in, wanted, "prefix", <<>>, Deflate.window), wanted)
RawExact(in, expected, dictionary) ==
  Sized(Raw(in, expected, "exact", dictionary, Deflate.window), expected)
=============================================================================
