------------------------------ MODULE LzmaCompat ------------------------------
(***************************************************************************)
(* compat/LzmaCompatDecode.c: the decoder of an older SDK as a machine that  *)
(* can stop before any byte of input or output and go on in another call.   *)
(* What must survive a call is in lzma_stream, where several variables share *)
(* temp1, temp2 and temp3; a step here is what runs between two places where *)
(* it may stop, and all that one step leaves to the next is in the record.   *)
(* It is given what LzmaCoding's encoder sends.                              *)
(***************************************************************************)
EXTENDS LzmaCoding

CONSTANTS
  CompatDictSize,   \* dictionarySize
  CompatRooms       \* room for output that is left when bits come, or comes

ASSUME CompatAssumption ==
  /\ CompatDictSize \in Nat \ {0} /\ CompatRooms \subseteq Nat
  /\ \A p \in LitProps : p[2] <= p[3]     \* numProbs is for lc + pb, not for lc + lp

VARIABLE compat   \* lzma_stream
compatVars == <<codingVars, compat>>

(* Where the probabilities of each kind begin.                                *)
cLenLow       == 2
cLenMid       == cLenLow + 16 * LowSymbols
cLenHigh      == cLenMid + 16 * LowSymbols
cNumLenProbs  == cLenHigh + 2 ^ LenHighBits
cIsMatch      == 0
cIsRep        == cIsMatch + 12 * 16
cIsRepG0      == cIsRep + 12
cIsRepG1      == cIsRepG0 + 12
cIsRepG2      == cIsRepG1 + 12
cIsRep0Long   == cIsRepG2 + 12
cPosSlot      == cIsRep0Long + 12 * 16
cSpecPos      == cPosSlot + 4 * 2 ^ SlotBits
cAlign        == cSpecPos + FullDistances - EndSlot
cLenCoder     == cAlign + 2 ^ AlignBits
cRepLenCoder  == cLenCoder + cNumLenProbs
cLiteral      == cRepLenCoder + cNumLenProbs
cLitSize      == 3 * 2 ^ ByteBits
-----------------------------------------------------------------------------
(* lzmaCompatInit, and the modes before the first symbol, a byte at a time.   *)
lzmaCompatInit ==
  [mode |-> "init", last2 |-> "", last3 |-> "", state |-> 0, isPreviousMatch |-> FALSE, previousByte |-> 0,
   matchByte |-> 0, reps |-> <<1, 1, 1, 1>>, len |-> 0, totalOut |-> 0, dictionary |-> <<>>, dictionaryPos |-> 0,
   props |-> <<0, 0, 0>>, numProbs |-> 0, probs |-> 0, mi |-> 0, posState |-> 0, temp1 |-> 0, temp2 |-> 0, temp3 |-> 0,
   room |-> 0, wire |-> <<>>, asked |-> <<>>, out |-> <<>>]

HeaderByte(c, b) ==
  CASE c.mode = "init" ->
         [c EXCEPT !.mode = IF b > 9 * 5 * 5 THEN "error" ELSE "getdict",
                   !.props = <<b % 9, (b % 45) \div 9, b \div 45>>,
                   !.numProbs = cLiteral + cLitSize * 2 ^ ((b % 9) + (b \div 45)),
                   !.temp1 = 0, !.temp3 = 0]
    [] c.mode = "getdict" ->
         LET size == c.temp3 + b * 2 ^ (8 * c.temp1) IN
         IF c.temp1 < 3 THEN [c EXCEPT !.temp1 = @ + 1, !.temp3 = size]
         ELSE [c EXCEPT !.mode = "rdi", !.temp1 = 5, !.temp3 = size, !.dictionary = [k \in 1 .. size |-> 0]]
    [] c.mode = "rdi" -> [c EXCEPT !.temp1 = @ - 1, !.mode = IF c.temp1 = 1 THEN "block" ELSE "rdi"]

CompatHeader(props) == <<(props[3] * 5 + props[2]) * 9 + props[1], CompatDictSize, 0, 0, 0>> \o <<0, 1, 2, 3, 4>>
-----------------------------------------------------------------------------
(* A bit is the next of wire; prob is where its probability is.               *)
Comes(c)     == Head(c.wire)[2]
AtProb(c, prob)  == [c EXCEPT !.wire = Tail(@), !.asked = Append(@, prob)]

\* DECODE_BIT: the bit goes to temp3, and label is where the decoder goes on.
DecodeBit(c, prob, label) == [AtProb(c, prob) EXCEPT !.temp3 = Comes(c), !.mode = label]

\* DECODE_LEN and DECODE_BIT_TREE.
CompatLen(c, base, label) == DecodeBit([c EXCEPT !.probs = base, !.last2 = label], base, "lend1")
BitTreeStep(c)               == [AtProb(c, c.probs + c.mi) EXCEPT !.mi = 2 * @ + Comes(c), !.mode = "btd_loop"]
BitTree(c, base, levels, label) ==
  BitTreeStep([c EXCEPT !.probs = base, !.temp3 = levels, !.last3 = label, !.mi = 1, !.temp1 = levels])

CompatDistanceBack(c)   == IF c.dictionaryPos < c.reps[1] THEN c.dictionaryPos - c.reps[1] + Len(c.dictionary)
                 ELSE c.dictionaryPos - c.reps[1]
PutOut(c, b) ==
  [c EXCEPT !.previousByte = b, !.out = Append(@, b), !.totalOut = @ + 1, !.room = @ - 1,
            !.dictionary[c.dictionaryPos + 1] = b, !.dictionaryPos = (@ + 1) % Len(c.dictionary)]
CopyByte(c)  == PutOut(c, c.dictionary[CompatDistanceBack(c) + 1])
-----------------------------------------------------------------------------
(* Literals: symbol is temp2, matchBit temp1, bit temp3.                      *)
LiteralBit(c, label) == [AtProb(c, c.probs + c.temp2) EXCEPT !.temp2 = 2 * @ + Comes(c), !.mode = label]
LiteralMatched(c) ==
  LET matchBit == c.matchByte \div 2 ^ (ByteBits - 1)
  IN [AtProb(c, c.probs + (1 + matchBit) * 2 ^ ByteBits + c.temp2) EXCEPT
        !.temp1 = matchBit, !.matchByte = (2 * @) % 2 ^ ByteBits, !.temp2 = 2 * @ + Comes(c), !.temp3 = Comes(c),
        !.mode = "litdm1"]
LiteralDone(c) == [c EXCEPT !.previousByte = c.temp2 % 2 ^ ByteBits, !.isPreviousMatch = FALSE, !.mode = "output_1"]

CompatLiteral(c) ==
  LET l == [c EXCEPT !.state = IF @ < 4 THEN 0 ELSE IF @ < 10 THEN @ - 3 ELSE @ - 6, !.temp2 = 1,
              !.probs = cLiteral + cLitSize * ((c.totalOut % 2 ^ c.props[2]) * 2 ^ c.props[1]
                                               + c.previousByte \div 2 ^ (ByteBits - c.props[1]))]
  IN IF c.isPreviousMatch THEN LiteralMatched([l EXCEPT !.matchByte = c.dictionary[CompatDistanceBack(c) + 1]])
     ELSE LiteralBit(l, "litd")

\* Mutant: the bits after the first that differs are taken with the others.
AfterMatched_GoesOn(c) ==
  IF c.temp2 >= 2 ^ ByteBits THEN LiteralDone(c) ELSE LiteralMatched(c)

\* The bit was that of matchByte, or the rest comes as without it.
AfterMatched(c) ==
  IF c.temp2 >= 2 ^ ByteBits THEN LiteralDone(c)
  ELSE IF c.temp1 # c.temp3 THEN LiteralBit(c, "litdm2") ELSE LiteralMatched(c)
AfterLiteralBit(c) == IF c.temp2 >= 2 ^ ByteBits THEN LiteralDone(c) ELSE LiteralBit(c, c.mode)
-----------------------------------------------------------------------------
(* Matches: posSlot, result and symbol are temp2, numLevels temp3, i temp1.   *)
WithReps(c, reps) == CompatLen([c EXCEPT !.reps = reps], cRepLenCoder, "lend_c1")

ReverseStep(c) ==
  [AtProb(c, c.probs + c.mi) EXCEPT !.mi = 2 * @ + Comes(c), !.temp2 = @ + Comes(c) * 2 ^ c.temp1, !.mode = "rdrbtd"]
ReverseTreeOf(c, base, levels) ==
  ReverseStep([c EXCEPT !.probs = base, !.temp3 = levels, !.mi = 1, !.temp2 = 0, !.temp1 = 0])
DirectBit(c) == [AtProb(c, NoProb) EXCEPT !.temp2 = 2 * @ + Comes(c), !.mode = "norm"]

\* The distance is known: the end, an error, or len bytes to copy.
CheckRep0(c) ==
  CASE c.reps[1] = 0 -> [c EXCEPT !.len = -1, !.mode = "end"]
    [] c.reps[1] # 0 /\ c.reps[1] > c.totalOut -> [c EXCEPT !.mode = "error"]
    [] c.reps[1] # 0 /\ c.reps[1] <= c.totalOut -> [c EXCEPT !.len = @ + 2, !.mode = "output_3"]
PlusOne(c) == CheckRep0([c EXCEPT !.reps[1] = (@ + 1) % (MaxDistance + 1)])

CompatDistance(c) ==
  LET slot == c.temp2
      bits == (slot \div 2) - 1
      top  == (2 + (slot % 2)) * 2 ^ bits
      t    == [c EXCEPT !.reps[1] = top]
  IN IF slot < StartSlot THEN PlusOne([c EXCEPT !.reps[1] = slot])
     ELSE IF slot < EndSlot THEN ReverseTreeOf(t, cSpecPos + top - slot - 1, bits)
     ELSE DirectBit([t EXCEPT !.temp2 = 0, !.temp1 = bits - AlignBits])

CompatMatch(c) ==
  CompatLen([c EXCEPT !.reps = <<@[1]>> \o SubSeq(@, 1, 3), !.state = IF @ < 7 THEN 7 ELSE 10], cLenCoder, "lend_c2")

AfterLen(c, base, len, levels) ==
  BitTree([c EXCEPT !.len = len], c.probs + base, levels, "lend_res")
-----------------------------------------------------------------------------
(* switch (mode): a step.                                                     *)
CompatStep(c) ==
  LET s == c.state
      r == c.reps
      bit == c.temp3
  IN CASE c.mode = "block" ->
            LET p == c.totalOut % 2 ^ c.props[3] IN DecodeBit([c EXCEPT !.posState = p], cIsMatch + s * 16 + p, "type")
       [] c.mode = "type" ->
            IF bit = 0 THEN CompatLiteral(c) ELSE DecodeBit([c EXCEPT !.isPreviousMatch = TRUE], cIsRep + s, "isrep")
       [] c.mode = "litdm1" -> AfterMatched(c)
       [] c.mode \in {"litd", "litdm2"} -> AfterLiteralBit(c)
       [] c.mode = "output_1" -> [PutOut(c, c.previousByte) EXCEPT !.mode = "block"]
       [] c.mode = "isrep" -> IF bit = 1 THEN DecodeBit(c, cIsRepG0 + s, "isrepg0") ELSE CompatMatch(c)
       [] c.mode = "isrepg0" ->
            IF bit = 0 THEN DecodeBit(c, cIsRep0Long + s * 16 + c.posState, "isrep0long")
            ELSE DecodeBit(c, cIsRepG1 + s, "isrepg1")
       [] c.mode = "isrep0long" ->
            IF bit = 1 THEN WithReps(c, r)
            ELSE IF c.totalOut = 0 THEN [c EXCEPT !.mode = "error"]
            ELSE [c EXCEPT !.state = IF s < 7 THEN 9 ELSE 11, !.mode = "output_2"]
       [] c.mode = "output_2" -> [CopyByte(c) EXCEPT !.mode = "block"]
       [] c.mode = "isrepg1" ->
            IF bit = 0 THEN WithReps(c, <<r[2], r[1], r[3], r[4]>>) ELSE DecodeBit(c, cIsRepG2 + s, "isrepg2")
       [] c.mode = "isrepg2" ->
            WithReps(c, IF bit = 0 THEN <<r[3], r[1], r[2], r[4]>> ELSE <<r[4], r[1], r[2], r[3]>>)
       [] c.mode = "lend1" ->
            IF bit = 0 THEN AfterLen(c, cLenLow + c.posState * LowSymbols, 0, 3) ELSE DecodeBit(c, c.probs + 1, "lend2")
       [] c.mode = "lend2" ->
            IF bit = 0 THEN AfterLen(c, cLenMid + c.posState * LowSymbols, LowSymbols, 3)
            ELSE AfterLen(c, cLenHigh, 2 * LowSymbols, LenHighBits)
       [] c.mode = "btd_loop" ->
            IF c.temp1 > 1 THEN BitTreeStep([c EXCEPT !.temp1 = @ - 1])
            ELSE [c EXCEPT !.temp1 = 0, !.temp2 = c.mi - 2 ^ c.temp3, !.mode = c.last3]
       [] c.mode = "lend_res" -> [c EXCEPT !.len = @ + c.temp2, !.mode = c.last2]
       [] c.mode = "lend_c1" -> CheckRep0([c EXCEPT !.state = IF s < 7 THEN 8 ELSE 11])
       [] c.mode = "lend_c2" -> BitTree(c, cPosSlot + (IF c.len < 4 THEN c.len ELSE 3) * 2 ^ SlotBits, SlotBits, "btd_c1")
       [] c.mode = "btd_c1" -> CompatDistance(c)
       [] c.mode = "norm" ->
            IF c.temp1 > 1 THEN DirectBit([c EXCEPT !.temp1 = @ - 1])
            ELSE ReverseTreeOf([c EXCEPT !.reps[1] = @ + c.temp2 * 2 ^ AlignBits], cAlign, AlignBits)
       [] c.mode = "rdrbtd" ->
            IF c.temp1 + 1 < c.temp3 THEN ReverseStep([c EXCEPT !.temp1 = @ + 1])
            ELSE PlusOne([c EXCEPT !.reps[1] = @ + c.temp2])
       [] c.mode = "output_3" -> [CopyByte(c) EXCEPT !.len = @ - 1, !.mode = IF c.len = 1 THEN "block" ELSE "output_3"]

\* lzmaCompatDecode: it stops where there is no room, no bit, or nothing more to do.
NeedsRoom(c) == c.mode \in {"output_1", "output_2", "output_3"} /\ c.room = 0
Waits(c) == c.mode = "block" /\ c.wire = <<>>
RECURSIVE lzmaCompatDecode(_)
lzmaCompatDecode(c) ==
  IF Waits(c) \/ NeedsRoom(c) \/ c.mode \in {"end", "error"} THEN c ELSE lzmaCompatDecode(CompatStep(c))
-----------------------------------------------------------------------------
\* After the header and the bytes of a history.
StartCompat(props, bytes) ==
  LET c == FoldLeft(HeaderByte, lzmaCompatInit, CompatHeader(props))
      p == Len(bytes) % CompatDictSize
  IN [c EXCEPT !.totalOut = Len(bytes), !.out = bytes, !.dictionaryPos = p,
        !.previousByte = IF bytes = <<>> THEN 0 ELSE Last(bytes),
        !.dictionary = [k \in DOMAIN @ |-> IF k <= Len(bytes) THEN bytes[k] ELSE 0]]

CompatInit == CodingInit /\ compat = StartCompat(sender.props, sender.bytes)

\* The bits of the next symbol arrive, or there is room again.
CompatBits ==
  /\ Waits(compat) /\ CodingNext
  /\ \E r \in CompatRooms :
       compat' = IF symbolsCoded = MaxSymbols THEN compat
                 ELSE lzmaCompatDecode([compat EXCEPT !.wire = lastSent'.bits, !.room = r, !.asked = <<>>])
CompatRoom ==
  /\ NeedsRoom(compat)
  /\ \E r \in CompatRooms : compat' = lzmaCompatDecode([compat EXCEPT !.room = r])
  /\ UNCHANGED codingVars
CompatOver == compat.mode = "end" /\ UNCHANGED compatVars

CompatNext == CompatBits \/ CompatRoom \/ CompatOver
-----------------------------------------------------------------------------
CompatPairsFrom(bits, e) ==
  Paired(bits, lzmaCompatDecode([StartCompat(e.props, e.bytes) EXCEPT !.state = e.state, !.isPreviousMatch = e.state >= 7,
                                   !.reps = e.reps, !.wire = bits, !.room = 1000]).asked)
PairsOfCompat(e, sym) == CompatPairsFrom(Encoded(e, sym).bits, e)
CompatPairs ==
  UNION {{<<props, q>> : q \in UNION {PairsOfCompat(e, sym) : e \in Situations(props), sym \in Symbols}
                              \cup UNION {PairsOfCompat(e, sym) : e \in {f \in Situations(props) : f.state = 0 /\ Last(f.bytes) = 0},
                                                                   sym \in {f \in FarSymbols : f.kind = "rep" \/ f.dist < 8}}}
         : props \in LitProps}

\* Its array has a third layout, and two bits share a probability in it if they do in the
\* encoder's; none lies behind the numProbs that are allocated.
SameCompatModel == OneToOne(CompatPairs)

(* However little room for output a call has, the decoder goes on in the next where it   *)
(* stopped: after each symbol it has the encoder's bytes, state and repeated distances, *)
(* has asked for each of its bits with the same probability, and for none that is not    *)
(* allocated; it ends at the end marker (lzmaCompatDecode against LzmaEnc.c).           *)
CompatDecodes ==
  /\ compat.mode # "error"
  /\ compat.out = SubSeq(sender.bytes, 1, Len(compat.out)) /\ compat.totalOut = Len(compat.out)
  /\ \A k \in DOMAIN compat.asked : compat.asked[k] < compat.numProbs
  /\ Waits(compat) => /\ compat.out = sender.bytes /\ compat.state = sender.state /\ compat.reps = sender.reps
                      /\ lastSent.kind # "end"
  /\ compat.mode = "end" => lastSent.kind = "end" /\ compat.out = sender.bytes
  /\ OnlyEnd => SameCompatModel
=============================================================================
