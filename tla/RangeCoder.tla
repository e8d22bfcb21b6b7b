----------------------------- MODULE RangeCoder -----------------------------
(***************************************************************************)
(* The range encoder of LzmaEnc.c: its number is low, of 32 bits and a     *)
(* carry, a byte (cache) and cacheSize bytes 255 that wait because a carry *)
(* may still come, and the bytes that were sent to the buffer and from     *)
(* there to a stream.  And the decoder of LzmaDec.c, that reads them.      *)
(***************************************************************************)
EXTENDS Integers, Sequences, FiniteSetsExt

CONSTANTS
  B, Total, Step, Contexts,
  BufSize,      \* RC_BUF_SIZE
  Rooms,        \* how many bytes the stream may take
  MaxBits       \* that are coded

ASSUME CoderAssumption ==
  /\ {B, Total, Step, BufSize} \subseteq Nat /\ B >= 2 /\ Step >= 2 /\ Total >= 2 * Step /\ BufSize > 0
  \* one shift makes the smallest range large: 2^24 >> 11, times 31, is at least 2^16
  /\ ((B * B * B) \div Total) * (Step - 1) >= B * B
  /\ Rooms \subseteq Nat /\ MaxBits \in Nat /\ "direct" \notin Contexts

Top == B * B * B   \* kTopValue
W   == Top * B     \* the numbers of 32 bits
RcBytes == 0 .. B - 1

VARIABLES
  rc,       \* CRangeEnc: [range, low, cache, cacheSize, buf, res]; buf is how many bytes it has
  sent,     \* the bytes that were put into the buffer
  stream,   \* [room, taken]
  probs,    \* of the encoder
  coded,    \* what was coded: [context, bit]
  rcPc

rcVars == <<rc, sent, stream, probs, coded, rcPc>>

HalfProb == [c \in Contexts |-> Total \div 2]

\* RangeEnc_Init
RcInit ==
  /\ rc = [range |-> W - 1, low |-> 0, cache |-> 0, cacheSize |-> 0, buf |-> 0, res |-> "ok"]
  /\ stream \in [room : Rooms, taken : {0}]
  /\ sent = <<>> /\ probs = HalfProb /\ coded = <<>> /\ rcPc = "code"

\* The encoder with what it is bound to.
All == [rc |-> rc, sent |-> sent, stream |-> stream]

\* RangeEnc_FlushStream
FlushStream(a) ==
  LET n == IF a.rc.res # "ok" THEN 0 ELSE Min({a.rc.buf, a.stream.room - a.stream.taken}) IN
  [a EXCEPT !.stream.taken = @ + n, !.rc.buf = 0, !.rc.res = IF @ = "ok" /\ n # a.rc.buf THEN "write" ELSE @]

Send(a, byte) ==
  LET s == [a EXCEPT !.sent = Append(@, byte), !.rc.buf = @ + 1] IN IF s.rc.buf = BufSize THEN FlushStream(s) ELSE s

\* The byte that waited, and the n bytes behind it that are the same.
SendAll(a, first, rest, n) ==
  LET after[k \in 0 .. n] == IF k = 0 THEN Send(a, first) ELSE Send(after[k - 1], rest) IN after[n]

WithLow(a, cache, size, low) == [a EXCEPT !.rc.cache = cache, !.rc.cacheSize = size, !.rc.low = low]

\* Mutant: the carry goes into the byte, and not into those that wait.
ShiftBy_Waiting(a, low, high) ==
  LET left == (low * B) % W IN
  IF low < (B - 1) * Top \/ high # 0
  THEN SendAll(WithLow(a, low \div Top, 0, left), (a.rc.cache + high) % B, B - 1, a.rc.cacheSize)
  ELSE WithLow(a, a.rc.cache, a.rc.cacheSize + 1, left)

\* RangeEnc_ShiftLow, with the 32 bits of low and the carry above them.
ShiftBy(a, low, high) ==
  LET left == (low * B) % W IN
  IF low < (B - 1) * Top \/ high # 0
  THEN SendAll(WithLow(a, low \div Top, 0, left), (a.rc.cache + high) % B, (high + B - 1) % B, a.rc.cacheSize)
  ELSE WithLow(a, a.rc.cache, a.rc.cacheSize + 1, left)

ShiftLow(a) == ShiftBy(a, a.rc.low % W, a.rc.low \div W)

\* A part of the range.
Cut(a, range, low) == [a EXCEPT !.rc.range = range, !.rc.low = low]

\* RC_NORM
Normalized(a) == IF a.rc.range < Top THEN ShiftLow(Cut(a, a.rc.range * B, a.rc.low)) ELSE a

Adapted(p, bit) == IF bit = 0 THEN p + (Total - p) \div Step ELSE p - p \div Step
Bound(r, p)     == (r \div Total) * p

Become(a) == rc' = a.rc /\ sent' = a.sent /\ stream' = a.stream

\* RC_BIT
Code(c, bit) ==
  /\ rcPc = "code" /\ Len(coded) < MaxBits
  /\ LET bound == Bound(rc.range, probs[c]) IN
     Become(Normalized(IF bit = 0 THEN Cut(All, bound, rc.low) ELSE Cut(All, rc.range - bound, rc.low + bound)))
  /\ probs' = [probs EXCEPT ![c] = Adapted(@, bit)]
  /\ coded' = Append(coded, [context |-> c, bit |-> bit]) /\ UNCHANGED rcPc

\* The direct bits of a distance.
Direct(bit) ==
  /\ rcPc = "code" /\ Len(coded) < MaxBits
  /\ LET h == rc.range \div 2 IN Become(Normalized(Cut(All, h, rc.low + h * bit)))
  /\ coded' = Append(coded, [context |-> "direct", bit |-> bit]) /\ UNCHANGED <<probs, rcPc>>

\* Mutant: four bytes are enough for a low of 32 bits.
FlushData_Four(a) == ShiftLow(ShiftLow(ShiftLow(ShiftLow(a))))

FlushData(a) == ShiftLow(ShiftLow(ShiftLow(ShiftLow(ShiftLow(a)))))

\* Flush, without an end marker.
Finish ==
  /\ rcPc = "code" /\ rcPc' = "done"
  /\ Become(FlushStream(FlushData(All))) /\ UNCHANGED <<probs, coded>>

RcDone == rcPc = "done" /\ UNCHANGED rcVars
RcNext == (\E bit \in {0, 1} : Direct(bit) \/ \E c \in Contexts : Code(c, bit)) \/ Finish \/ RcDone
RcSpec == RcInit /\ [][RcNext]_rcVars
-----------------------------------------------------------------------------
(* The decoder of the bytes s: [range, code, pos, probs, bits].            *)

\* NORMALIZE
Filled(d, s) ==
  IF d.range < Top THEN [d EXCEPT !.range = @ * B, !.code = ((@ * B) % W) + s[d.pos + 1], !.pos = @ + 1] ELSE d

\* The first byte, and four that are the code.
Started(s) == [range |-> W - 1, code |-> ((s[2] * B + s[3]) * B + s[4]) * B + s[5], pos |-> 5,
               probs |-> HalfProb, bits |-> <<>>]

\* One bit (IF_BIT_0, UPDATE_0, UPDATE_1, and the direct bits).
Read(d, s, c) ==
  LET f     == Filled(d, s)
      bound == IF c.context = "direct" THEN f.range \div 2 ELSE Bound(f.range, f.probs[c.context])
      bit   == IF f.code < bound THEN 0 ELSE 1
  IN [range |-> IF c.context = "direct" \/ bit = 0 THEN bound ELSE f.range - bound,
      code  |-> f.code - bound * bit, pos |-> f.pos,
      probs |-> IF c.context = "direct" THEN f.probs ELSE [f.probs EXCEPT ![c.context] = Adapted(@, bit)],
      bits  |-> Append(f.bits, bit)]

\* The decoder after as many bits as cs has, with their contexts.
ReadAll(s, cs) ==
  LET after[n \in 0 .. Len(cs)] == IF n = 0 THEN Started(s) ELSE Read(after[n - 1], s, cs[n]) IN after[Len(cs)]

DecoderEnd == Filled(ReadAll(sent, coded), sent)
-----------------------------------------------------------------------------
(* Properties                                                              *)

\* Type correctness.
CoderTypeOK ==
  /\ rc.low \in 0 .. 2 * W /\ rc.cache \in RcBytes /\ rc.cacheSize \in Nat
  /\ rc.buf \in 0 .. BufSize - 1 /\ rc.res \in {"ok", "write"} /\ rcPc \in {"code", "done"}
  /\ sent \in Seq(RcBytes)

\* A shift by one byte is always enough: no bit leaves a range that is too small
\* for the next one, for no probability comes near 0 or 1.
RangeIsLarge == Top <= rc.range /\ rc.range < W

\* What was coded is what the decoder reads, with its probabilities the same; the
\* first byte is 0, the last byte is used and the code comes to 0, which is how the
\* decoder knows that a stream is complete.
DecodesBack ==
  rcPc = "done" =>
    /\ sent[1] = 0
    /\ LET d == DecoderEnd IN
       /\ d.bits = [i \in 1 .. Len(coded) |-> coded[i].bit] /\ d.probs = probs
       /\ d.pos = Len(sent) /\ d.code = 0

\* The result says whether the stream took all of it.
WrittenOrError == rcPc = "done" => (rc.res = "ok" <=> stream.taken = Len(sent)) /\ (stream.taken < Len(sent) => stream.taken = stream.room)

Number(s) ==
  LET upTo[n \in 0 .. Len(s)] == IF n = 0 THEN 0 ELSE upTo[n - 1] * B + s[n] IN upTo[Len(s)]

\* The number that the bytes, the byte and the bytes that wait, and low stand for.
Waiting(n) == [k \in 1 .. n |-> B - 1]
Digits     == Number(Append(sent, rc.cache) \o Waiting(rc.cacheSize))

\* No carry is lost: the encoder is the arithmetic coder without carries.
Exact == INSTANCE ArithCoder WITH low <- Digits * W + rc.low, range <- rc.range, done <- rcPc = "done"
CarriesAreExact == Exact!Spec

\* The range encoder never runs out of range, its bytes are decoded to what was
\* coded, and it tells whether they were written.
BitsDecode == CoderTypeOK /\ RangeIsLarge /\ DecodesBack /\ WrittenOrError
=============================================================================
