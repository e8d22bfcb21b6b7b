------------------------------ MODULE PpmdCoding ------------------------------
(***************************************************************************)
(* Symbols coded with the model of Ppmd7: Ppmd7Enc.c cuts the range of its *)
(* range coder for a symbol, in one step or after escapes to shorter       *)
(* contexts; Ppmd7Dec.c finds the step that its number is in.  A behaviour *)
(* codes one input, byte by byte, and decodes each byte with the numbers   *)
(* at both ends of what the encoder left of the range.                     *)
(***************************************************************************)
EXTENDS Ppmd7

CONSTANTS
  Texts,       \* what is coded: sequences of bytes
  RangeBits    \* of the range, 32 in the code; the others are smaller by as much

ASSUME RangeAssumption == RangeBits \in 29 .. 30 /\ \A t \in Texts : \A k \in DOMAIN t : t[k] \in 0 .. 255

VARIABLES
  ppmd,      \* the model of the encoder
  range,     \* of the range coder
  written,   \* how many bytes the encoder shifted out, without the five of the end
  text,      \* what is coded
  at,        \* how much of it was
  outcomes   \* what the decoder got for the last symbol, at both ends

ppmdVars == <<ppmd, range, written, text, at, outcomes>>

TopValue == 2 ^ (RangeBits - 8)     \* kTopValue
EndMark  == -1                      \* PPMD7_SYM_END
NoSymbol == -2

-----------------------------------------------------------------------------
(* A coder in the middle of a symbol: [p, range, bytes, masked, sym, cuts]; sym *)
(* is there when the symbol is coded, masked are the symbols that it cannot be  *)
(* any more, cuts are the parts of the range that were taken, bytes were        *)
(* shifted out of the number or into it.                                        *)
Start(p, r, n) == [p |-> p, range |-> r, bytes |-> n, masked |-> {}, sym |-> NoSymbol, cuts |-> <<>>]

Norm1(k) == IF k.range < TopValue THEN [k EXCEPT !.range = @ * 256, !.bytes = @ + 1] ELSE k   \* RC_NORM_1
Norm(k)  == Norm1(Norm1(k))                                                                  \* RC_NORM

MinContext(k) == k.p.ctx[k.p.minContext]

\* Ppmd7_GetBinSumm
BinIndex(p) ==
  LET c == p.ctx[p.minContext]
      s == c.states[1]
  IN <<s.freq - 1, p.prevSuccess + (IF p.runLength < 0 THEN 32 ELSE 0) + NS2BSIndx(Num(p.ctx[c.suffix]) - 1)
                   + HiBits(s.sym, 16) + HiBits(FoundState(p).sym, 8)>>

\* A part of the range is taken.
Cut(k, start, size) == [k EXCEPT !.range = size, !.cuts = Append(@, <<start, size>>)]

\* The coder with a symbol of MinContext found: it is counted.
Coded(k, i, start, size, Update(_)) ==
  LET sym == MinContext(k).states[i].sym
      c   == Cut(k, start, size)
  IN [c EXCEPT !.sym = sym, !.p = Update([@ EXCEPT !.found = <<k.p.minContext, i>>])]

\* The sum of the frequencies of states i to j, of those that are not masked.
FreqOf(s, masked) == IF s.sym \in masked THEN 0 ELSE s.freq
RECURSIVE FreqSum(_, _, _, _)
FreqSum(c, masked, i, j) ==
  LET mid == (i + j) \div 2 IN
  IF i > j THEN 0 ELSE IF i = j THEN FreqOf(c.states[i], masked)
  ELSE FreqSum(c, masked, i, mid) + FreqSum(c, masked, mid + 1, j)
AllFreqs(c, masked) == FreqSum(c, masked, 1, Num(c))

\* The one of states i to j that count falls on, when it is less than their sum.
RECURSIVE Hit(_, _, _, _, _)
Hit(c, masked, i, j, count) ==
  LET mid  == (i + j) \div 2
      left == FreqSum(c, masked, i, mid)
  IN IF i = j THEN i ELSE IF count < left THEN Hit(c, masked, i, mid, count) ELSE Hit(c, masked, mid + 1, j, count - left)

\* A context of several states; i is the one that is coded, 0 is an escape.
CodeMulti(k, i) ==
  LET c == MinContext(k)
      r == k.range \div c.summ
      sum == AllFreqs(c, {})
      q   == [k EXCEPT !.p.prevSuccess = 0]
  IN IF i = 1 THEN Norm(Coded(k, 1, 0, r * c.states[1].freq, Update1_0))
     ELSE IF i # 0 THEN Norm(Coded(q, i, r * FreqSum(c, {}, 1, i - 1), r * c.states[i].freq, Update1))
     ELSE [Cut(q, r * sum, r * (c.summ - sum)) EXCEPT !.masked = Syms(c), !.p.hiBitsFlag = HiBits(FoundState(k.p).sym, 8)]

\* A context of one state; i is 1 if it is coded.
CodeBin(k, i) ==
  LET b     == BinIndex(k.p)
      pr    == Bin(k.p, b)
      bound == (k.range \div BinScale) * pr
      less  == pr - (pr + 32) \div 128
      q     == [k EXCEPT !.p.hiBitsFlag = HiBits(FoundState(k.p).sym, 8)]
  IN IF i = 1
     THEN Norm1(Coded([q EXCEPT !.p = SetBin(@, b, less + 128)], 1, 0, bound, UpdateBin))
     ELSE [Cut(q, bound, k.range - bound)
           EXCEPT !.masked = Syms(MinContext(k)),
                  !.p = [SetBin(@, b, less) EXCEPT !.initEsc = ExpEscape[less \div 1024 + 1], !.prevSuccess = 0]]

\* After an escape: the next suffix that has other symbols, none at the end marker.
RECURSIVE Escaped(_)
Escaped(k) ==
  LET q == [k EXCEPT !.p.orderFall = @ + 1]
      s == MinContext(k).suffix
      r == [q EXCEPT !.p.minContext = s]
  IN IF s = NoRef THEN [q EXCEPT !.sym = EndMark]
     ELSE IF Num(k.p.ctx[s]) = Num(MinContext(k)) THEN Escaped(r) ELSE r

CodeMasked(k, i) ==
  LET c     == MinContext(k)
      see   == SeeIndex(k.p, Cardinality(k.masked))
      p     == MakeEscFreq(k.p, Cardinality(k.masked))
      freqs == AllFreqs(c, k.masked)
      total == freqs + p.got
      r     == k.range \div total
  IN IF i # 0 THEN Norm(Coded([k EXCEPT !.p = SeeUpdate(p, see)], i, r * FreqSum(c, k.masked, 1, i - 1), r * c.states[i].freq, Update2))
     ELSE [Cut(k, r * freqs, r * p.got)
           EXCEPT !.masked = @ \cup Syms(c),
                  !.p = IF see = DummySee THEN p ELSE SetSee(p, see, [See(p, see) EXCEPT !.summ = AsUInt16(@ + total)])]

CountedAt(k, i) == IF k.masked # {} THEN CodeMasked(k, i) ELSE IF Num(MinContext(k)) = 1 THEN CodeBin(k, i) ELSE CodeMulti(k, i)

\* When the symbol is found the model is updated, or the escape is made ready for the next context.
CodeAt(k, i) ==
  LET Then(q) == IF q.sym = NoSymbol THEN Escaped(Norm(q)) ELSE [q EXCEPT !.p = NextContext(@, k.masked # {})]
  IN Then(CountedAt(k, i))
-----------------------------------------------------------------------------
\* Ppmd7z_EncodeSymbol
RECURSIVE EncodeFrom(_, _)
EncodeFrom(k, sym) ==
  IF k.sym # NoSymbol THEN k
  ELSE LET c == MinContext(k)
           i == IF sym \in Syms(c) THEN Find(c, sym) ELSE 0
       IN EncodeFrom(CodeAt(k, i), sym)

EncodeSymbol(p, r, n, sym) == EncodeFrom(Start(p, r, n), sym)

\* How the decoder chooses a state, from its number code: 0 is an escape, -1 an error.
Chosen(c, masked, freqs, total, count) ==
  IF count < freqs THEN Hit(c, masked, 1, Num(c), count) ELSE IF count < total THEN 0 ELSE -1

DecodeMulti(k, code) ==
  LET c == MinContext(k) IN Chosen(c, {}, AllFreqs(c, {}), c.summ, code \div (k.range \div c.summ))

DecodeBin(k, code) == IF code < (k.range \div BinScale) * Bin(k.p, BinIndex(k.p)) THEN 1 ELSE 0

DecodeMasked(k, code) ==
  LET freqs == AllFreqs(MinContext(k), k.masked)
      total == freqs + MakeEscFreq(k.p, Cardinality(k.masked)).got
  IN Chosen(MinContext(k), k.masked, freqs, total, code \div (k.range \div total))

DecodeAt(k, code) ==
  IF k.masked # {} THEN DecodeMasked(k, code) ELSE IF Num(MinContext(k)) = 1 THEN DecodeBin(k, code) ELSE DecodeMulti(k, code)

\* Ppmd7z_DecodeSymbol, with a code from each cut: its first number or its last.
DecodeSymbol(p, r, n, cuts, last) ==
  LET Step(k, cut) ==
        LET i == DecodeAt(k, IF last THEN cut[1] + cut[2] - 1 ELSE cut[1]) IN
        IF k.sym # NoSymbol \/ i < 0 THEN [k EXCEPT !.sym = NoSymbol] ELSE CodeAt(k, i)
  IN FoldLeft(Step, Start(p, r, n), cuts)
-----------------------------------------------------------------------------
(* ppmd_decompress: five bytes of properties, the number of bytes that are      *)
(* wanted, and data that must be the stream for them and no more.               *)
NoModel == [maxOrder |-> 0]
HasModel  == ppmd # NoModel

MinOrder   == 2        \* PPMD7_MIN_ORDER
MaxOrder   == 64       \* PPMD7_MAX_ORDER
MinMemSize == 2048     \* PPMD7_MIN_MEM_SIZE; PPMD7_MAX_MEM_SIZE is more than TLC counts

\* What its properties are good for.
OpenModel(size, order) ==
  IF order \in MinOrder .. MaxOrder /\ size >= MinMemSize THEN InitModel(size, order) ELSE NoModel

\* A byte past the end was asked for: it is a zero, and noted.
Extra(k, length) == 5 + k.bytes > length

\* k is the decoder with the last byte, length the data's, and left what is left of
\* the encoder's number: bytes past the end are zeroes that make the call fail.
Finishes(k, left, length) == ~Extra(k, length) /\ k.sym \in 0 .. 255 /\ 5 + k.bytes = length /\ left = 0
-----------------------------------------------------------------------------
PpmdStart ==
  /\ at = 0 /\ ppmd = NoModel
  /\ range = 2 ^ RangeBits - 1 /\ written = 0 /\ outcomes = {}

PpmdInit == text \in Texts /\ PpmdStart

PpmdOpen ==
  /\ ~HasModel /\ \E size \in MemSizes, order \in Orders : ppmd' = OpenModel(size, order)
  /\ UNCHANGED <<range, written, text, at, outcomes>>

\* The encoder is at e.
EncoderAt(e) ==
  /\ at' = at + 1 /\ ppmd' = e.p /\ range' = e.range /\ written' = e.bytes
  /\ outcomes' = {DecodeSymbol(ppmd, range, written, e.cuts, last) : last \in BOOLEAN}

\* One symbol; after all the encoder may write an end marker.
PpmdCode ==
  /\ HasModel /\ at <= Len(text) /\ UNCHANGED text
  /\ EncoderAt(EncodeSymbol(ppmd, range, written, IF at = Len(text) THEN EndMark ELSE text[at + 1]))

PpmdOver == at > Len(text) /\ UNCHANGED ppmdVars
PpmdNext == PpmdOpen \/ PpmdCode \/ PpmdOver
PpmdSpec == PpmdInit /\ [][PpmdNext]_ppmdVars
-----------------------------------------------------------------------------
(* Properties                                                              *)
Contexts == DOMAIN ppmd.ctx
Root     == AlignOffset(ppmd.size) + ppmd.size - UnitSize

\* What is in memory: blocks <<offset, units>>, and how many there are.
Several     == {c \in Contexts : Num(ppmd.ctx[c]) > 1}
UnitsOf(c)  == Indx2Units[Units2Indx[(Num(ppmd.ctx[c]) + 1) \div 2]]
Gap         == IF ppmd.loUnit = ppmd.hiUnit THEN {} ELSE {<<ppmd.loUnit, (ppmd.hiUnit - ppmd.loUnit) \div UnitSize>>}
FreeOf(i)   == {<<ppmd.free[i][k], Indx2Units[i]>> : k \in DOMAIN ppmd.free[i]}
Blocks      == {<<c, 1>> : c \in Contexts} \cup {<<ppmd.ctx[c].at, UnitsOf(c)>> : c \in Several}
               \cup UNION {FreeOf(i) : i \in DOMAIN ppmd.free} \cup Gap
BlocksCount == Cardinality(Contexts) + Cardinality(Several) + Cardinality(Gap)
               + MapThenSumSet(LAMBDA i : Len(ppmd.free[i]), DOMAIN ppmd.free)

\* The areas of the memory stay in order ("these addresses don't cross at any time"),
\* and from UnitsStart to the end every unit is in one block, a context, a vector of
\* states, a free one or the gap that was never used: nothing overlaps and nothing is
\* lost, through splits, glueing, moves of vectors and blocks from the text's side.
MemoryIsTiled ==
  /\ AlignOffset(ppmd.size) <= ppmd.text /\ ppmd.text < ppmd.unitsStart
  /\ ppmd.unitsStart <= ppmd.loUnit /\ ppmd.loUnit <= ppmd.hiUnit /\ ppmd.hiUnit <= Root
  /\ LET starts == {b[1] : b \in Blocks}
         ends   == {b[1] + b[2] * UnitSize : b \in Blocks}
     IN /\ Cardinality(starts) = BlocksCount /\ ppmd.unitsStart \in starts
        /\ ends = (starts \ {ppmd.unitsStart}) \cup {Root + UnitSize}

\* The length of the chain of suffixes.
RECURSIVE OrderOf(_)
OrderOf(c) == IF c = Root THEN 0 ELSE 1 + OrderOf(ppmd.ctx[c].suffix)

\* What follows a state: nothing yet, only at the root; a place in the text that was
\* written; or a context one order higher, or as high if that is the highest order.
GoodSuccessor(c, s) ==
  \/ s.succ = NoRef /\ c = Root
  \/ s.succ > AlignOffset(ppmd.size) /\ s.succ <= ppmd.text
  \/ s.succ \in Contexts /\ OrderOf(s.succ) = Min({OrderOf(c) + 1, ppmd.maxOrder})

\* A context knows no symbol that its suffix does not know (the loops that look for
\* a symbol in a suffix have no other end), and each symbol once; all successors are
\* good, OrderFall is how far the highest order is.
ContextsAreLinked ==
  /\ \A c \in Contexts :
       LET x == ppmd.ctx[c] IN
       /\ Cardinality(Syms(x)) = Num(x)
       /\ c # Root => Syms(x) \subseteq Syms(ppmd.ctx[x.suffix])
       /\ \A k \in DOMAIN x.states : GoodSuccessor(c, x.states[k])
  /\ {ppmd.minContext, ppmd.maxContext} \subseteq Contexts
  /\ at <= Len(text) => ppmd.minContext = ppmd.maxContext /\ ppmd.orderFall = ppmd.maxOrder - OrderOf(ppmd.minContext)

\* Every frequency fits and is not 0 (a block that began with one would be taken for a
\* free one), an escape has a share of every sum, and sums leave the range coder enough.
FrequenciesFit ==
  \A c \in Contexts :
    LET x == ppmd.ctx[c]
        sum == AllFreqs(x, {})
    IN /\ \A k \in DOMAIN x.states : x.states[k].freq \in 1 .. IF Num(x) = 1 THEN 128 ELSE MaxFreq
       /\ Num(x) > 1 => sum < x.summ /\ x.summ <= 2 ^ 15

\* The decoder finds the byte at either end of what the encoder left for it, with the
\* same model and range, having read as many bytes as the encoder wrote: a call that is
\* given the stream up to here succeeds, and fails with one byte less or more.
BytesDecode ==
  /\ range >= TopValue
  /\ at > 0 => \A k \in outcomes : k.p = ppmd /\ k.range = range
                                   /\ k.sym = IF at > Len(text) THEN EndMark ELSE text[at]
  /\ at \in 1 .. Len(text) =>
       \A k \in outcomes, d \in {-1, 0, 1} : Finishes(k, 0, 5 + written + d) <=> d = 0

\* All of it, of every stream that was opened.
PpmdDecodes == HasModel => MemoryIsTiled /\ ContextsAreLinked /\ FrequenciesFit /\ BytesDecode
=============================================================================
