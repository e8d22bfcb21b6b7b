----------------------------- MODULE LzmaCoding -----------------------------
(***************************************************************************)
(* The symbols of LZMA as bits: LzmaEnc.c turns a literal, a match or a      *)
(* repeated match into bits, each with the probability it is coded with;     *)
(* LzmaDec.c asks for bits with probabilities of its own, in one array of     *)
(* another layout, and must take the same turns.  What one bit is on the      *)
(* wire is in RangeCoder.                                                   *)
(*                                                                         *)
(* Sizes are smaller than in the code and in the same relations: ByteBits     *)
(* for 8, LenHighBits for 8, SlotBits for kNumPosSlotBits (6), AlignBits for  *)
(* kNumAlignBits (4), EndSlot for kEndPosModelIndex (14), LogBits for          *)
(* kNumLogBits (13).  kLenNumLowBits (3) and the states are those of the code. *)
(***************************************************************************)
EXTENDS LzmaStates, Integers, FiniteSets, SequencesExt

CONSTANTS
  ByteBits, LenHighBits, SlotBits, AlignBits, EndSlot, LogBits,
  LitProps,      \* <<lc, lp, pb>>
  Histories,     \* what was coded before, all of it literals
  Lengths,       \* lengths of matches
  Distances,     \* distances - 1 of matches
  MaxSymbols     \* symbols in a behaviour

ASSUME LzmaCodingAssumption ==
  /\ \A p \in LitProps : p[1] <= ByteBits /\ p[3] <= 4
  /\ EndSlot % 2 = 0 /\ (EndSlot \div 2) - 1 > AlignBits /\ EndSlot < 2^SlotBits
  /\ LogBits >= EndSlot \div 2

VARIABLES
  sender,    \* the encoder: props, state, reps, and the bytes coded so far
  taker,     \* the decoder: the same, from the bits, and if it met the end
  lastSent,      \* the last symbol and its bits: <<probability, bit>>
  symbolsCoded      \* symbols so far; the end marker counts as all

codingVars == <<sender, taker, lastSent, symbolsCoded>>

Bit(x, k)  == (x \div 2^k) % 2
Masked(x, lp, lc) == (x % 2^(ByteBits + lp)) - (x % 2^(ByteBits - lc))     \* x & lpMask
PosState(e) == Len(e.bytes) % 2^e.props[3]
StartSlot  == 4                             \* kStartPosModelIndex
FullDistances == 2^(EndSlot \div 2)          \* kNumFullDistances
LowSymbols == 8                             \* kLenNumLowSymbols
MaxDistance == 2^(2^(SlotBits - 1)) - 1      \* (UInt32)0xFFFFFFFF

Before(s, d) == s[Len(s) + 1 - d]           \* the byte at distance d
-----------------------------------------------------------------------------
(* g_FastPos (LzmaEnc_FastPosInit): slot s >= 2 has 2^(s/2 - 1) entries.  The     *)
(* table ends at 2^LogBits; GetPosSlot shifts greater distances.                *)
FastPos == FoldLeft(LAMBDA t, s : t \o [j \in 1..2^((s \div 2) - 1) |-> s], <<0, 1>>,
                    [i \in 1..(2 * LogBits - 2) |-> i + 1])
GetPosSlot(d) ==
  LET small == (EndSlot \div 2) - 1
      shift == IF d < 2^(LogBits + small) THEN small ELSE small + LogBits - 1
  IN IF d < FullDistances THEN FastPos[d + 1] ELSE FastPos[d \div 2^shift + 1] + 2 * shift

(* A probability is <<table, part, index>>.  A tree from the highest bit on, from  *)
(* the lowest bit on (RcTree_ReverseEncode), and the bits without a probability.   *)
Tree(table, part, base, bits, x) ==
  [i \in 1..bits |-> << <<table, part, base + 2^(i - 1) + x \div 2^(bits + 1 - i)>>, Bit(x, bits - i)>>]
Reversed(x, k) == FoldLeft(LAMBDA m, i : 2 * m + Bit(x, i - 1), 1, [i \in 1..k |-> i])
ReverseTree(table, base, bits, x) ==
  [i \in 1..bits |-> << <<table, 0, base + Reversed(x, i - 1)>>, Bit(x, i - 1)>>]
DirectBits(bits, x) == [i \in 1..bits |-> << <<"none", 0, 0>>, Bit(x, bits - i)>>]

One(table, i, j) == << << <<table, i, j>>, 1>> >>
Zero(table, i, j) == << << <<table, i, j>>, 0>> >>
-----------------------------------------------------------------------------
\* LitEnc_Encode, LitEnc_EncodeMatched: `offs` is kept while the bits are those
\* of the byte at distance reps[0].
MatchedTree(part, x, byte) ==
  FoldLeft(LAMBDA r, i :
             LET bit  == Bit(x, ByteBits - i)
                 mbit == Bit(byte, ByteBits - i)
                 ctx  == r.offs + (IF mbit = 1 THEN r.offs ELSE 0) + 2^(i - 1) + x \div 2^(ByteBits + 1 - i)
             IN [out |-> Append(r.out, << <<"lit", part, ctx>>, bit>>), offs |-> IF bit = mbit THEN r.offs ELSE 0],
           [out |-> <<>>, offs |-> 2^ByteBits], [i \in 1..ByteBits |-> i]).out

\* LIT_PROBS: which set of probabilities, by position and last byte.
LitProbs(e) ==
  IF e.bytes = <<>> THEN 0
  ELSE 3 * (Masked(Len(e.bytes) * 2^ByteBits + Last(e.bytes), e.props[2], e.props[1]) * 2^e.props[1])

EncodeLiteral(e, x) ==
  [bits |-> Zero("isMatch", e.state, PosState(e))
            \o (IF e.state \in LitStates THEN Tree("lit", LitProbs(e), 0, ByteBits, x)
                ELSE MatchedTree(LitProbs(e), x, Before(e.bytes, e.reps[1]))),
   enc  |-> [e EXCEPT !.state = After(NextLit, e.state), !.bytes = Append(@, x)]]

\* Mutant: low and mid share their probabilities.
EncodeLen_NoMid(low, high, sym, posState) ==
  LET mid == sym >= LowSymbols
  IN IF sym >= 2 * LowSymbols
     THEN One(low, 0, 0) \o One(low, 0, LowSymbols) \o Tree(high, 0, 0, LenHighBits, sym - 2 * LowSymbols)
     ELSE (IF mid THEN One(low, 0, 0) \o Zero(low, 0, LowSymbols) ELSE Zero(low, 0, 0))
          \o Tree(low, 0, posState * 2 * LowSymbols, 3, sym % LowSymbols)

\* LenEnc_Encode: low and mid share the array with their two choices.
EncodeLen(low, high, sym, posState) ==
  LET mid  == sym >= LowSymbols
      base == posState * 2 * LowSymbols + (IF mid THEN LowSymbols ELSE 0)
  IN IF sym >= 2 * LowSymbols
     THEN One(low, 0, 0) \o One(low, 0, LowSymbols) \o Tree(high, 0, 0, LenHighBits, sym - 2 * LowSymbols)
     ELSE (IF mid THEN One(low, 0, 0) \o Zero(low, 0, LowSymbols) ELSE Zero(low, 0, 0))
          \o Tree(low, 0, base, 3, sym % LowSymbols)

\* Byte by byte, a distance of less than len repeats what is copied.
Copied(bytes, d, len) ==
  IF d > Len(bytes) THEN bytes ELSE FoldLeft(LAMBDA b, i : Append(b, Before(b, d)), bytes, [i \in 1..len |-> i])

\* Repeated distance k (0..3); length 1 is the short form of k = 0.
EncodeRep(e, k, len) ==
  LET s  == e.state
      ps == PosState(e)
      r  == e.reps
      which == CASE k = 0 -> Zero("isRepG0", s, 0) \o (IF len = 1 THEN Zero("isRep0Long", s, ps) ELSE One("isRep0Long", s, ps))
                 [] k = 1 -> One("isRepG0", s, 0) \o Zero("isRepG1", s, 0)
                 [] k = 2 -> One("isRepG0", s, 0) \o One("isRepG1", s, 0) \o Zero("isRepG2", s, 0)
                 [] k = 3 -> One("isRepG0", s, 0) \o One("isRepG1", s, 0) \o One("isRepG2", s, 0)
  IN [bits |-> One("isMatch", s, ps) \o One("isRep", s, 0) \o which
               \o (IF len = 1 THEN <<>> ELSE EncodeLen("repLenLow", "repLenHigh", len - 2, ps)),
      enc  |-> [props |-> e.props, state |-> After(IF len = 1 THEN NextShort ELSE NextRep, s),
                reps  |-> ToFront(r, k),
                bytes |-> Copied(e.bytes, r[k + 1], len)]]

\* The slot of a distance, and its other bits.
EncodeDistance(d, len) ==
  LET slot   == GetPosSlot(d)
      footer == (slot \div 2) - 1
  IN Tree("posSlot", LenToPos(len), 0, SlotBits, slot)
     \o (IF d < StartSlot THEN <<>>
         ELSE IF d < FullDistances
         THEN ReverseTree("pos", (2 + (slot % 2)) * 2^footer, footer, d)
         ELSE DirectBits(footer - AlignBits, d \div 2^AlignBits) \o ReverseTree("align", 0, AlignBits, d))

EncodeMatch(e, d, len) ==
  LET ps == PosState(e)
  IN [bits |-> One("isMatch", e.state, ps) \o Zero("isRep", e.state, 0)
               \o EncodeLen("lenLow", "lenHigh", len - 2, ps) \o EncodeDistance(d, len),
      enc  |-> [props |-> e.props, state |-> After(NextMatch, e.state), reps |-> <<d + 1>> \o SubSeq(e.reps, 1, 3),
                bytes |-> Copied(e.bytes, d + 1, len)]]

\* WriteEndMarker: a match of length 2 whose distance has all bits set.
EncodeEnd(e) ==
  LET ps == PosState(e)
      topSlot == 2^SlotBits - 1
  IN [bits |-> One("isMatch", e.state, ps) \o Zero("isRep", e.state, 0) \o EncodeLen("lenLow", "lenHigh", 0, ps)
               \o Tree("posSlot", 0, 0, SlotBits, topSlot)
               \o DirectBits((topSlot \div 2 - 1) - AlignBits, MaxDistance \div 2^AlignBits)
               \o ReverseTree("align", 0, AlignBits, MaxDistance),
      enc  |-> [e EXCEPT !.state = After(NextMatch, @)]]

Encoded(e, sym) ==
  CASE sym.kind = "lit"   -> EncodeLiteral(e, sym.byte)
    [] sym.kind = "match" -> EncodeMatch(e, sym.dist, sym.len)
    [] sym.kind = "rep"   -> EncodeRep(e, sym.rep, sym.len)
    [] sym.kind = "end"   -> EncodeEnd(e)
-----------------------------------------------------------------------------
(* The decoder's one array (LzmaDec.c; kStartOffset moves all of it): where the     *)
(* probabilities of each kind begin.                                            *)
NumStates2  == 16                           \* kNumStates2, and posState << 4
LenHigh     == 2 * (16 * LowSymbols)
NumLenProbs == LenHigh + 2^LenHighBits
SpecPos     == 0
IsRep0Long  == SpecPos + FullDistances
RepLenCoder == IsRep0Long + NumStates2 * 16
LenCoder    == RepLenCoder + NumLenProbs
IsMatch     == LenCoder + NumLenProbs
Align       == IsMatch + NumStates2 * 16
IsRep       == Align + 2^AlignBits
IsRepG0     == IsRep + 12
IsRepG1     == IsRepG0 + 12
IsRepG2     == IsRepG1 + 12
PosSlot     == IsRepG2 + 12
Literal     == PosSlot + 4 * 2^SlotBits
NoProb      == -1                           \* a bit that is decoded without one

(* The bits that are left, the probabilities asked for, and the bit that came.    *)
Reader(bits) == [bits |-> bits, asked |-> <<>>, bit |-> 0, v |-> 0]
Ask(r, index) ==
  [r EXCEPT !.asked = Append(@, index), !.bits = IF @ = <<>> THEN @ ELSE Tail(@),
            !.bit = IF r.bits = <<>> THEN 0 ELSE Head(r.bits)[2]]
Put(r, v) == [r EXCEPT !.v = v]

WithBit(r) == Put(r, 2 * r.v + r.bit)
Plus(r, n) == Put(r, r.v + n)

\* TREE_GET_BIT and TREE_DECODE.
TreeBit(r, base) == WithBit(Ask(r, base + r.v))
TreeDecode(r, base, bits) ==
  Plus(FoldLeft(LAMBDA s, i : TreeBit(s, base), Put(r, 1), [i \in 1..bits |-> i]), -(2^bits))

\* MATCHED_LITER_DEC; offs and matchByte have ByteBits + 1 bits that matter.
MatchedBit(m, base) ==
  LET byte == 2 * m.byte
      offs == IF Bit(byte, ByteBits) = 1 THEN m.offs ELSE 0       \* offs & matchByte
      a    == Ask(m.r, base + (offs + m.offs) + m.r.v)
  IN [r |-> WithBit(a), byte |-> byte,
      offs |-> IF a.bit = 0 THEN m.offs - offs ELSE offs]          \* offs ^= bit

MatchedDecode(r, base, byte) ==
  FoldLeft(LAMBDA m, i : MatchedBit(m, base), [r |-> Put(r, 1), byte |-> byte, offs |-> 2^ByteBits],
           [i \in 1..ByteBits |-> i]).r

\* REV_BIT_VAR; REV_BIT_CONST and REV_BIT_LAST are this with the value in i.
ReverseBit(w, base) ==
  LET a == Ask(w.r, base + w.r.v)
  IN [r |-> Put(a, IF a.bit = 0 THEN w.r.v + w.m ELSE w.r.v + 2 * w.m), m |-> 2 * w.m]
ReverseDecode(r, base, start, bits) ==
  LET Done(w) == Plus(w.r, -w.m)
  IN Done(FoldLeft(LAMBDA s, i : ReverseBit(s, base), [r |-> Put(r, start + 1), m |-> 1], [i \in 1..bits |-> i]))

DirectDecode(r, start, bits) ==
  FoldLeft(LAMBDA s, i : WithBit(Ask(s, NoProb)), Put(r, start), [i \in 1..bits |-> i])
-----------------------------------------------------------------------------
(* LZMA_DECODE_REAL.                                                          *)
DecodeLiteral(r, t) ==
  LET base == Literal + (IF t.bytes = <<>> THEN 0
                         ELSE 3 * (Masked(Len(t.bytes) * 2^ByteBits + Last(t.bytes), t.props[2], t.props[1])
                                   * 2^t.props[1]))
      plain == t.state < 7
      got  == IF plain THEN TreeDecode(r, base, ByteBits)
              ELSE Plus(MatchedDecode(r, base, Before(t.bytes, t.reps[1])), -(2^ByteBits))
      less == IF plain THEN (IF t.state < 4 THEN t.state ELSE 3) ELSE (IF t.state < 10 THEN 3 ELSE 6)
  IN [r |-> got, t |-> [t EXCEPT !.state = @ - less, !.bytes = Append(@, got.v)]]

DecodeLen(r, base, posState) ==
  LET choice  == Ask(r, base)
      choice2 == Ask(choice, base + LowSymbols)
      low(c, more) == Plus(TreeDecode(c, base + posState + more, 3), more)
  IN CASE choice.bit = 0 -> low(choice, 0)
       [] choice.bit = 1 /\ choice2.bit = 0 -> low(choice2, LowSymbols)
       [] OTHER -> Plus(TreeDecode(choice2, base + LenHigh, LenHighBits), 2 * LowSymbols)

WithAlign(r) == Plus(ReverseDecode(r, Align, 0, AlignBits), r.v * 2^AlignBits)

DistanceOf(slot) ==
  LET direct == (slot.v \div 2) - 1
      top    == 2 + (slot.v % 2)
  IN CASE slot.v < StartSlot -> slot
       [] slot.v >= StartSlot /\ slot.v < EndSlot -> ReverseDecode(slot, SpecPos, top * 2^direct, direct)
       [] OTHER -> WithAlign(DirectDecode(slot, top, direct - AlignBits))

DecodeDistance(r, len) ==
  DistanceOf(TreeDecode(r, PosSlot + (IF len < 4 THEN len ELSE 3) * 2^SlotBits, SlotBits))

\* `dic[dicPos - rep0 ..]`: byte by byte; a distance beyond the start is an error.
DecodeCopy(t, len) ==
  IF t.reps[1] > Len(t.bytes) THEN [t EXCEPT !.over = TRUE] ELSE [t EXCEPT !.bytes = Copied(@, t.reps[1], len)]

DecodeRep(r, t, ps) ==
  LET g0    == Ask(r, IsRepG0 + t.state)
      long  == Ask(g0, IsRep0Long + ps + t.state)
      g1    == Ask(g0, IsRepG1 + t.state)
      g2    == Ask(g1, IsRepG2 + t.state)
      which == IF g0.bit = 0 THEN 0 ELSE IF g1.bit = 0 THEN 1 ELSE IF g2.bit = 0 THEN 2 ELSE 3
      after == CASE which = 0 -> long [] which = 1 -> g1 [] OTHER -> g2
      p     == t.reps
      reps  == CASE which = 0 -> p
                 [] which = 1 -> <<p[2], p[1], p[3], p[4]>>
                 [] which = 2 -> <<p[3], p[1], p[2], p[4]>>
                 [] which = 3 -> <<p[4], p[1], p[2], p[3]>>
      moved == [t EXCEPT !.reps = reps, !.state = IF t.state < 7 THEN 8 ELSE 11]
      Copy(len) == [r |-> len, t |-> DecodeCopy(moved, len.v + 2)]
  IN IF which = 0 /\ long.bit = 0
     THEN [r |-> long, t |-> DecodeCopy([t EXCEPT !.state = IF t.state < 7 THEN 9 ELSE 11], 1)]
     ELSE Copy(DecodeLen(after, RepLenCoder, ps))

CopyMatch(dist, len, t) ==
  [r |-> dist,
   t |-> IF dist.v = MaxDistance THEN [t EXCEPT !.over = TRUE]
         ELSE DecodeCopy([t EXCEPT !.state = IF @ < 7 THEN 7 ELSE 10, !.reps = <<dist.v + 1, @[1], @[2], @[3]>>], len)]

DecodeMatch(r, t, ps) ==
  LET WithLen(len) == CopyMatch(DecodeDistance(len, len.v), len.v + 2, t)
  IN WithLen(DecodeLen(r, LenCoder, ps))

DecodedSymbol(bits, t) ==
  LET ps    == PosState(t) * NumStates2
      match == Ask(Reader(bits), IsMatch + ps + t.state)
      rep   == Ask(match, IsRep + t.state)
  IN CASE match.bit = 0 -> DecodeLiteral(match, t)
       [] match.bit = 1 /\ rep.bit = 0 -> DecodeMatch(rep, t, ps)
       [] OTHER -> DecodeRep(rep, t, ps)
-----------------------------------------------------------------------------
Start(props, bytes) == [props |-> props, state |-> 0, reps |-> <<1, 1, 1, 1>>, bytes |-> bytes]

CodingInit ==
  /\ \E props \in LitProps, bytes \in Histories : sender = Start(props, bytes)
  /\ taker = sender @@ [over |-> FALSE]
  /\ lastSent = [kind |-> "none", bits |-> <<>>, rest |-> <<>>] /\ symbolsCoded = 0

Lit(x)       == [kind |-> "lit", byte |-> x]
Match(d, len) == [kind |-> "match", dist |-> d, len |-> len]
Rep(k, len)  == [kind |-> "rep", rep |-> k, len |-> len]
EndMark      == [kind |-> "end"]

\* The bits of e are sent, and the decoder makes g of them.
Sent(kind, e, g) ==
  /\ sender' = e.enc /\ taker' = g.t
  /\ lastSent' = [kind |-> kind, bits |-> e.bits, rest |-> g.r.bits]

SendBits(kind, e) == Sent(kind, e, DecodedSymbol(e.bits, taker))

CodeSymbol(sym) ==
  /\ symbolsCoded < MaxSymbols
  /\ SendBits(sym.kind, Encoded(sender, sym))
  /\ symbolsCoded' = IF sym.kind = "end" THEN MaxSymbols ELSE symbolsCoded + 1

CodeLiteral == \E x \in 0..(2^ByteBits - 1) : CodeSymbol(Lit(x))
CodeMatch   == \E d \in Distances, len \in Lengths : d < Len(sender.bytes) /\ CodeSymbol(Match(d, len))
CodeRep     == \E k \in 0..3, len \in Lengths : sender.reps[k + 1] <= Len(sender.bytes) /\ CodeSymbol(Rep(k, len))
CodeShort   == sender.reps[1] <= Len(sender.bytes) /\ CodeSymbol(Rep(0, 1))
CodeEnd     == CodeSymbol(EndMark)
AllCoded       == symbolsCoded = MaxSymbols /\ UNCHANGED codingVars

CodingNext == CodeLiteral \/ CodeMatch \/ CodeRep \/ CodeShort \/ CodeEnd \/ AllCoded
-----------------------------------------------------------------------------
(* Whatever sequence of symbols the encoder codes, the decoder has the same state,   *)
(* repeated distances and bytes after each, has used all bits and no more, and       *)
(* takes the end marker, and nothing else, for the end (LZMA_DECODE_REAL against       *)
(* LzmaEnc_CodeOneBlock).                                                       *)
SymbolsDecode ==
  /\ lastSent.rest = <<>> /\ taker.bytes = sender.bytes
  /\ taker.over <=> lastSent.kind = "end"
  /\ lastSent.kind # "end" => taker.state = sender.state /\ taker.reps = sender.reps

(* Every situation of the encoder with every symbol: the probabilities that the two   *)
(* sides use for a bit.                                                          *)
Situations(props) ==
  {[props |-> props, state |-> s, reps |-> <<1, 2, 3, 2>>, bytes |-> [i \in 1..n |-> IF i = n THEN x ELSE y]] :
     s \in 0..11, n \in 5..(4 + 2^(IF props[2] > props[3] THEN props[2] ELSE props[3])),
     x \in 0..(2^ByteBits - 1), y \in {0, 2^ByteBits - 1}}
Symbols ==
  {Lit(x) : x \in 0..(2^ByteBits - 1)} \cup {Match(0, 2), Match(4, 9), Rep(0, 1), Rep(3, 2), EndMark}
  \cup {Rep(k, 9) : k \in 0..2}
FarSymbols ==
  {Match(d, len) : d \in 0..MaxDistance, len \in 2..5}
  \cup {Match(0, len) : len \in 2..(17 + 2^LenHighBits)} \cup {Rep(1, len) : len \in 2..(17 + 2^LenHighBits)}
Paired(bits, asked) == {<<bits[i][1], IF i \in DOMAIN asked THEN asked[i] ELSE NoProb>> : i \in DOMAIN bits}
PairsFrom(bits, e)  == Paired(bits, DecodedSymbol(bits, e @@ [over |-> FALSE]).r.asked)
PairsOf(e, sym)     == PairsFrom(Encoded(e, sym).bits, e)
ModelPairs ==
  UNION {{<<props, q>> : q \in UNION {PairsOf(e, sym) : e \in Situations(props), sym \in Symbols}
                              \cup UNION {PairsOf(e, sym) : e \in {f \in Situations(props) : f.state = 0 /\ Last(f.bytes) = 0},
                                                             sym \in FarSymbols}} : props \in LitProps}

(* Two bits share a probability in the encoder's tables exactly if they share one in   *)
(* the decoder's array, which begins each kind elsewhere and orders some of them       *)
(* otherwise.                                                                  *)
OneToOne(pairs) ==
  /\ Cardinality({<<q[1], q[2][1]>> : q \in pairs}) = Cardinality(pairs)
  /\ Cardinality({<<q[1], q[2][2]>> : q \in pairs}) = Cardinality(pairs)

SameModel == OneToOne(ModelPairs)

(* The slot that the table and the shifts give is that of the distance's two highest   *)
(* bits, for every distance.                                                    *)
PosSlotsAgree ==
  \A d \in 4..MaxDistance :
    LET top == CHOOSE k \in 2..(2^(SlotBits - 1) - 1) : 2^k <= d /\ d < 2^(k + 1)
    IN GetPosSlot(d) = 2 * top + Bit(d, top - 1)

\* All of it.  The last two do not depend on the state; they are looked at where a
\* stream is nothing but an end marker.
OnlyEnd == lastSent.kind = "end" /\ sender.bytes = <<>>
CodingAgrees == SymbolsDecode /\ (OnlyEnd => SameModel /\ PosSlotsAgree)
=============================================================================
