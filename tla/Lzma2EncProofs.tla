--------------------------- MODULE Lzma2EncProofs ---------------------------
(***************************************************************************)
(* What Lzma2Enc_EncodeMt1 writes, for any input, sizes of blocks, chunks  *)
(* and buffers, and whatever the LZMA encoder makes of the input: the      *)
(* decoder takes every chunk, the output is complete when it says so, and  *)
(* a buffer is only too small when copies, and a header and a flush more,  *)
(* would not fit into it.                                                  *)
(***************************************************************************)
EXTENDS Lzma2Enc, SequenceTheorems, WellFoundedInduction, TLAPS

-----------------------------------------------------------------------------
(* Numbers, and what the recursive definitions compute                     *)

\* Induction: a set with 0 and the successors of its members has every number.
LEMMA EveryNumber ==
  ASSUME NEW T, 0 \in T, \A n \in Nat : n \in T => n + 1 \in T
  PROVE  \A n \in Nat : n \in T
<1> DEFINE Others == Nat \ T
<1>1. SUFFICES ASSUME Others # {} PROVE FALSE
  OBVIOUS
<1>2. IsWellFoundedOn(OpToRel(<, Nat), Nat)
  BY NatLessThanWellFounded
<1>3. PICK x \in Others : \A y \in Others : ~(<<y, x>> \in OpToRel(<, Nat))
  BY <1>1, <1>2, WFMin
<1>4. \A y \in Others : ~(y < x)
  BY <1>3 DEF OpToRel
<1>5. x # 0 /\ x \in Nat
  OBVIOUS
<1>6. x - 1 \in Nat /\ x - 1 < x
  BY <1>5
<1>7. x - 1 \in T
  BY <1>4, <1>6
<1>8. x \in T
  BY <1>6, <1>7
<1> QED
  BY <1>8

\* Products grow with their factors.
LEMMA TimesMonotone ==
  ASSUME NEW a \in Nat, NEW b \in Nat, NEW c \in Nat, a <= b
  PROVE  a * c <= b * c
OBVIOUS

\* What division and remainder are.
LEMMA DivMod ==
  ASSUME NEW a \in Nat, NEW d \in Nat, d > 0
  PROVE  a \div d \in Nat /\ (a % d) \in 0 .. d - 1 /\ a = d * (a \div d) + (a % d)
OBVIOUS

\* A sum of one number more.
LEMMA SumSteps ==
  ASSUME NEW s, NEW m \in Nat
  PROVE  SumTo(s, 0) = 0 /\ SumTo(s, m + 1) = (SumTo(s, m) + s[m + 1])
<1> DEFINE Is(g, n) == g = [k \in 0 .. n |-> IF k = 0 THEN 0 ELSE (g[k - 1] + s[k])]
           The(n)   == CHOOSE g : Is(g, n)
<1>1. \A n \in Nat : \E g : Is(g, n)
  <2> DEFINE T == {n \in Nat : \E g : Is(g, n)}
  <2>1. 0 \in T
    <3>1. Is([k \in 0 .. 0 |-> 0], 0)
      OBVIOUS
    <3> QED
      BY <3>1
  <2>2. ASSUME NEW n \in Nat, n \in T PROVE n + 1 \in T
    <3>1. PICK g : Is(g, n)
      BY <2>2
    <3> DEFINE h == [k \in 0 .. n + 1 |-> IF k \in 0 .. n THEN g[k] ELSE (g[n] + s[n + 1])]
    <3>2. ASSUME NEW k \in 0 .. n + 1
          PROVE  h[k] = IF k = 0 THEN 0 ELSE (h[k - 1] + s[k])
      <4>1. CASE k = n + 1
        <5>1. h[k] = (g[n] + s[n + 1]) /\ h[k - 1] = g[n]
          BY <4>1
        <5> QED
          BY <5>1, <4>1
      <4>2. CASE k \in 0 .. n
        <5>1. h[k] = g[k] /\ (k # 0 => h[k - 1] = g[k - 1])
          BY <4>2
        <5>2. g[k] = IF k = 0 THEN 0 ELSE (g[k - 1] + s[k])
          BY <4>2, <3>1
        <5> QED
          BY <5>1, <5>2
      <4> QED
        BY <4>1, <4>2
    <3>3. h = [k \in 0 .. n + 1 |-> IF k = 0 THEN 0 ELSE (h[k - 1] + s[k])]
      BY <3>2
    <3> HIDE DEF h
    <3>4. \E f : Is(f, n + 1)
      BY <3>3
    <3> QED
      BY <3>4
  <2> HIDE DEF T
  <2>3. \A n \in Nat : n \in T
    BY <2>1, <2>2, EveryNumber
  <2> QED
    BY <2>3 DEF T
<1>2. \A n \in Nat : Is(The(n), n)
  BY <1>1
<1>3. \A n \in Nat : SumTo(s, n) = The(n)[n]
  BY DEF SumTo
<1> HIDE DEF The
<1>4. \A n \in Nat : The(n)[0] = 0 /\ \A k \in 1 .. n : The(n)[k] = (The(n)[k - 1] + s[k])
  BY <1>2
<1>5. ASSUME NEW n \in Nat PROVE The(n + 1)[n] = The(n)[n]
  <2> DEFINE T == {k \in Nat : k <= n => The(n + 1)[k] = The(n)[k]}
  <2>1. 0 \in T
    BY <1>4
  <2>2. ASSUME NEW k \in Nat, k \in T PROVE k + 1 \in T
    <3>1. k + 1 <= n => /\ The(n)[k + 1] = (The(n)[k] + s[k + 1])
                        /\ The(n + 1)[k + 1] = (The(n + 1)[k] + s[k + 1])
      BY <1>4
    <3> QED
      BY <2>2, <3>1
  <2> HIDE DEF T
  <2>3. n \in T
    BY <2>1, <2>2, EveryNumber
  <2> QED
    BY <2>3 DEF T
<1> QED
  BY <1>3, <1>4, <1>5

\* One chunk more.
LEMMA DecoderSteps ==
  ASSUME NEW s, NEW m \in Nat
  PROVE  DecoderAt(s, 0) = DecoderStart /\ DecoderAt(s, m + 1) = Decoded(DecoderAt(s, m), s[m + 1])
<1> DEFINE Is(g, n) == g = [k \in 0 .. n |-> IF k = 0 THEN DecoderStart ELSE Decoded(g[k - 1], s[k])]
           The(n)   == CHOOSE g : Is(g, n)
<1>1. \A n \in Nat : \E g : Is(g, n)
  <2> DEFINE T == {n \in Nat : \E g : Is(g, n)}
  <2>1. 0 \in T
    <3>1. Is([k \in 0 .. 0 |-> DecoderStart], 0)
      OBVIOUS
    <3> QED
      BY <3>1
  <2>2. ASSUME NEW n \in Nat, n \in T PROVE n + 1 \in T
    <3>1. PICK g : Is(g, n)
      BY <2>2
    <3> DEFINE h == [k \in 0 .. n + 1 |-> IF k \in 0 .. n THEN g[k] ELSE Decoded(g[n], s[n + 1])]
    <3>2. ASSUME NEW k \in 0 .. n + 1
          PROVE  h[k] = IF k = 0 THEN DecoderStart ELSE Decoded(h[k - 1], s[k])
      <4>1. CASE k = n + 1
        <5>1. h[k] = Decoded(g[n], s[n + 1]) /\ h[k - 1] = g[n]
          BY <4>1
        <5> QED
          BY <5>1, <4>1
      <4>2. CASE k \in 0 .. n
        <5>1. h[k] = g[k] /\ (k # 0 => h[k - 1] = g[k - 1])
          BY <4>2
        <5>2. g[k] = IF k = 0 THEN DecoderStart ELSE Decoded(g[k - 1], s[k])
          BY <4>2, <3>1
        <5> QED
          BY <5>1, <5>2
      <4> QED
        BY <4>1, <4>2
    <3>3. h = [k \in 0 .. n + 1 |-> IF k = 0 THEN DecoderStart ELSE Decoded(h[k - 1], s[k])]
      BY <3>2
    <3> HIDE DEF h
    <3>4. \E f : Is(f, n + 1)
      BY <3>3
    <3> QED
      BY <3>4
  <2> HIDE DEF T
  <2>3. \A n \in Nat : n \in T
    BY <2>1, <2>2, EveryNumber
  <2> QED
    BY <2>3 DEF T
<1>2. \A n \in Nat : Is(The(n), n)
  BY <1>1
<1>3. \A n \in Nat : DecoderAt(s, n) = The(n)[n]
  BY DEF DecoderAt
<1> HIDE DEF The
<1>4. \A n \in Nat : The(n)[0] = DecoderStart /\ \A k \in 1 .. n : The(n)[k] = Decoded(The(n)[k - 1], s[k])
  BY <1>2
<1>5. ASSUME NEW n \in Nat PROVE The(n + 1)[n] = The(n)[n]
  <2> DEFINE T == {k \in Nat : k <= n => The(n + 1)[k] = The(n)[k]}
  <2>1. 0 \in T
    BY <1>4
  <2>2. ASSUME NEW k \in Nat, k \in T PROVE k + 1 \in T
    <3>1. k + 1 <= n => /\ The(n)[k + 1] = Decoded(The(n)[k], s[k + 1])
                        /\ The(n + 1)[k + 1] = Decoded(The(n + 1)[k], s[k + 1])
      BY <1>4
    <3> QED
      BY <2>2, <3>1
  <2> HIDE DEF T
  <2>3. n \in T
    BY <2>1, <2>2, EveryNumber
  <2> QED
    BY <2>3 DEF T
<1> QED
  BY <1>3, <1>4, <1>5

\* Sums of the same numbers.
LEMMA SumSame ==
  ASSUME NEW s, NEW t, NEW n \in Nat, \A k \in 1 .. n : s[k] = t[k] /\ s[k] \in Nat
  PROVE  SumTo(s, n) = SumTo(t, n) /\ SumTo(s, n) \in Nat
<1> DEFINE T == {k \in Nat : k <= n => SumTo(s, k) = SumTo(t, k) /\ SumTo(s, k) \in Nat}
<1>1. 0 \in T
  BY SumSteps
<1>2. ASSUME NEW k \in Nat, k \in T PROVE k + 1 \in T
  <2>1. SumTo(s, k + 1) = SumTo(s, k) + s[k + 1] /\ SumTo(t, k + 1) = SumTo(t, k) + t[k + 1]
    BY SumSteps
  <2>2. k + 1 <= n => s[k + 1] = t[k + 1] /\ s[k + 1] \in Nat
    OBVIOUS
  <2> QED
    BY <1>2, <2>1, <2>2
<1> HIDE DEF T
<1>3. n \in T
  BY <1>1, <1>2, EveryNumber
<1> QED
  BY <1>3 DEF T

\* The decoder after the same chunks.
LEMMA DecoderSame ==
  ASSUME NEW s, NEW t, NEW n \in Nat, \A k \in 1 .. n : s[k] = t[k]
  PROVE  DecoderAt(s, n) = DecoderAt(t, n)
<1> DEFINE T == {k \in Nat : k <= n => DecoderAt(s, k) = DecoderAt(t, k)}
<1>1. 0 \in T
  BY DecoderSteps
<1>2. ASSUME NEW k \in Nat, k \in T PROVE k + 1 \in T
  <2>1. /\ DecoderAt(s, k + 1) = Decoded(DecoderAt(s, k), s[k + 1])
        /\ DecoderAt(t, k + 1) = Decoded(DecoderAt(t, k), t[k + 1])
    BY DecoderSteps
  <2>2. k + 1 <= n => s[k + 1] = t[k + 1]
    OBVIOUS
  <2> QED
    BY <1>2, <2>1, <2>2
<1> HIDE DEF T
<1>3. n \in T
  BY <1>1, <1>2, EveryNumber
<1> QED
  BY <1>3 DEF T
-----------------------------------------------------------------------------
(* What is written, and what the decoder makes of it                       *)

Lz        == Seq([from : Nat, unpack : Nat])
ChunkType == [control : Nat, from : Nat, unpack : Nat, pack : Nat, before : Lz]
States    == {"control", "unpack0", "unpack1", "pack0", "pack1", "prop", "data", "dataCont", "finished", "error"}
Parser    == [state : States, control : Nat, needInitLevel : {0, 192, 224}, unpackSize : Nat,
              packSize : Nat, isExtraMode : BOOLEAN, propSet : BOOLEAN, chunk : Nat]
Decoder   == [q : Parser, ok : BOOLEAN, lz : Lz]

Unpacks(s) == [i \in 1 .. Len(s) |-> s[i].unpack]
Sizes(s)   == [i \in 1 .. Len(s) |-> Size(s[i])]
Fields(c)  == IF Format!IsLzma(c) THEN c.unpack <= UnpackMax /\ c.pack <= PackMax ELSE c.unpack <= CopyMax

\* Chunks for the first bytes of the input, one behind the other.
Chain(s, made, size) ==
  /\ s \in Seq(ChunkType) /\ made = SumTo(Unpacks(s), Len(s)) /\ size = SumTo(Sizes(s), Len(s))
  /\ made \in Nat /\ size \in Nat
  /\ \A i \in 1 .. Len(s) : s[i].from = SumTo(Unpacks(s), i - 1) /\ Fields(s[i])
  /\ DecoderAt(s, Len(s)) \in Decoder
Final(s) == DecoderAt(s, Len(s))

\* What a decoder does with the control byte of each kind of chunk.
LEMMA ControlCases ==
  ASSUME NEW q \in Parser, NEW b \in Nat
  PROVE  /\ Format!ControlByte(q, b) \in Parser
         /\ (b = 0 => Format!ControlByte(q, b).state = "finished")
         /\ (b = 1 => Format!ControlByte(q, b).state = "unpack0" /\ Format!ControlByte(q, b).needInitLevel = 192)
         /\ (b = 2 /\ q.needInitLevel # 224 =>
               Format!ControlByte(q, b).state = "unpack0" /\ Format!ControlByte(q, b).needInitLevel = q.needInitLevel)
         /\ (b >= 128 /\ b >= q.needInitLevel =>
               Format!ControlByte(q, b).state = "unpack0" /\ Format!ControlByte(q, b).needInitLevel = 0)
<1> DEFINE q1 == [q EXCEPT !.isExtraMode = FALSE, !.control = b, !.chunk = @ + 1]
           r  == Format!ControlByte(q, b)
<1>1. q1 \in Parser /\ q1.needInitLevel = q.needInitLevel
  <2>1. PICK n \in Nat, m \in Nat : n = q.chunk + 1 /\ m = b
    BY DEF Parser
  <2>2. q1 = [q EXCEPT !.isExtraMode = FALSE, !.control = m, !.chunk = n]
    BY <2>1
  <2> HIDE DEF q1
  <2>3. q1 \in Parser
    BY <2>2 DEF Parser
  <2>4. q1.needInitLevel = q.needInitLevel
    BY <2>2 DEF Parser
  <2> QED
    BY <2>3, <2>4
<1>2. PICK u \in Nat : u = (b % 32) * 65536
  OBVIOUS
<1>3. r = IF b = 0 THEN [q1 EXCEPT !.state = "finished"]
          ELSE IF b < 128
          THEN IF b = 1 THEN [q1 EXCEPT !.needInitLevel = 192, !.state = "unpack0"]
               ELSE IF b > 2 \/ q.needInitLevel = 224 THEN [q1 EXCEPT !.state = "error"]
               ELSE [q1 EXCEPT !.state = "unpack0"]
          ELSE IF b < q.needInitLevel THEN [q1 EXCEPT !.state = "error"]
          ELSE [q1 EXCEPT !.needInitLevel = 0, !.unpackSize = u, !.state = "unpack0"]
  BY <1>2 DEF Format!ControlByte
<1> HIDE DEF q1, r
<1>4. CASE b = 0
  <2>1. r = [q1 EXCEPT !.state = "finished"]
    BY <1>3, <1>4
  <2>2. r \in Parser /\ r.state = "finished"
    BY <2>1, <1>1 DEF Parser, States
  <2> QED
    BY <2>2, <1>4 DEF r
<1>5. CASE b = 1
  <2>1. r = [q1 EXCEPT !.needInitLevel = 192, !.state = "unpack0"]
    BY <1>3, <1>5
  <2>2. r \in Parser /\ r.state = "unpack0" /\ r.needInitLevel = 192
    BY <2>1, <1>1 DEF Parser, States
  <2> QED
    BY <2>2, <1>5 DEF r
<1>6. CASE b > 1 /\ b < 128
  <2>1. CASE b > 2 \/ q.needInitLevel = 224
    <3>1. r = [q1 EXCEPT !.state = "error"]
      BY <1>3, <1>6, <2>1
    <3>2. r \in Parser
      BY <3>1, <1>1 DEF Parser, States
    <3> QED
      BY <3>2, <1>6, <2>1 DEF r
  <2>2. CASE b = 2 /\ q.needInitLevel # 224
    <3>1. r = [q1 EXCEPT !.state = "unpack0"]
      BY <1>3, <1>6, <2>2
    <3>2. r \in Parser /\ r.state = "unpack0" /\ r.needInitLevel = q.needInitLevel
      BY <3>1, <1>1 DEF Parser, States
    <3> QED
      BY <3>2, <2>2 DEF r
  <2> QED
    BY <2>1, <2>2, <1>6
<1>7. CASE b >= 128
  <2>1. CASE b < q.needInitLevel
    <3>1. r = [q1 EXCEPT !.state = "error"]
      BY <1>3, <1>7, <2>1
    <3>2. r \in Parser
      BY <3>1, <1>1 DEF Parser, States
    <3> QED
      BY <3>2, <1>7, <2>1 DEF r, Parser, States
  <2>2. CASE ~(b < q.needInitLevel)
    <3>1. r = [q1 EXCEPT !.needInitLevel = 0, !.unpackSize = u, !.state = "unpack0"]
      BY <1>3, <1>7, <2>2
    <3>2. r \in Parser /\ r.state = "unpack0" /\ r.needInitLevel = 0
      BY <3>1, <1>1 DEF Parser, States
    <3> QED
      BY <3>2, <1>7 DEF r
  <2> QED
    BY <2>1, <2>2
<1> QED
  BY <1>4, <1>5, <1>6, <1>7

\* The decoder takes the chunk: a header that it expects, and the LZMA state
\* from before.
Heading(e, c) == Format!ControlByte(e.q, c.control)
Level(e)      == e.q.needInitLevel
Piece(c)      == <<[from |-> c.from, unpack |-> c.unpack]>>
LzAfter(e, c) == IF c.control >= 128 THEN c.before \o Piece(c) ELSE e.lz
Continues(e, c) ==
  /\ e.ok /\ Heading(e, c).state # "error"
  /\ (c.control >= 128 => c.before = (IF c.control >= 160 THEN <<>> ELSE e.lz))

LEMMA DecodedOK ==
  ASSUME NEW e \in Decoder, NEW c \in ChunkType
  PROVE  /\ Decoded(e, c) \in Decoder
         /\ Level(Decoded(e, c)) = Heading(e, c).needInitLevel
         /\ (Decoded(e, c).ok <=> Continues(e, c))
         /\ Decoded(e, c).lz = LzAfter(e, c)
<1>1. PICK q \in Parser : q = Format!ControlByte(e.q, c.control)
  <2>1. e.q \in Parser /\ c.control \in Nat
    BY DEF Decoder, ChunkType
  <2> QED
    BY <2>1, ControlCases
<1> DEFINE q2 == [q EXCEPT !.state = IF @ = "unpack0" THEN "control" ELSE @]
           ok == e.ok /\ q.state # "error" /\ (c.control >= 128 => c.before = (IF c.control >= 160 THEN <<>> ELSE e.lz))
           lz == IF c.control >= 128 THEN c.before \o <<[from |-> c.from, unpack |-> c.unpack]>> ELSE e.lz
<1>2. q2 \in Parser /\ q2.needInitLevel = q.needInitLevel
  BY DEF Parser, States
<1>3. Decoded(e, c) = [q |-> q2, ok |-> ok, lz |-> lz]
  BY <1>1 DEF Decoded, Format!IsLzma
<1>4. lz \in Lz
  <2>1. [from |-> c.from, unpack |-> c.unpack] \in [from : Nat, unpack : Nat]
    BY DEF ChunkType
  <2>2. <<[from |-> c.from, unpack |-> c.unpack]>> \in Lz
    BY <2>1 DEF Lz
  <2>3. c.before \in Lz /\ e.lz \in Lz
    BY DEF ChunkType, Decoder
  <2>4. c.before \o <<[from |-> c.from, unpack |-> c.unpack]>> \in Lz
    BY <2>2, <2>3, ConcatProperties DEF Lz
  <2> QED
    BY <2>3, <2>4
<1>5. e.ok \in BOOLEAN
  BY DEF Decoder
<1>6. ok \in BOOLEAN
  BY <1>5
<1> HIDE DEF q2, lz, ok
<1>7. Decoded(e, c) \in Decoder /\ Decoded(e, c).q = q2 /\ Decoded(e, c).lz = lz /\ Decoded(e, c).ok = ok
  BY <1>2, <1>3, <1>4, <1>6 DEF Decoder
<1>8. ok <=> Continues(e, c)
  BY <1>1 DEF ok, Continues, Heading
<1>9. lz = LzAfter(e, c)
  BY DEF lz, LzAfter, Piece
<1>10. Level(Decoded(e, c)) = Heading(e, c).needInitLevel
  BY <1>7, <1>1, <1>2 DEF Level, Heading
<1> HIDE DEF Heading
<1> QED
  BY <1>7, <1>8, <1>9, <1>10

\* A copy is taken when the decoder does not wait for more than it resets.
MayCopy(e, control) == Level(e) # 224 \/ control = 1

LEMMA CopyDecoded ==
  ASSUME NEW e \in Decoder, NEW c \in ChunkType, NEW b \in {1, 2}, b = c.control, MayCopy(e, b)
  PROVE  /\ Level(Decoded(e, c)) = (IF b = 1 THEN 192 ELSE Level(e))
         /\ (Decoded(e, c).ok <=> e.ok) /\ Decoded(e, c).lz = e.lz
<1>1. PICK q \in Parser : q = e.q
  BY DEF Decoder
<1>2. Heading(e, c) = Format!ControlByte(q, b) /\ Level(e) = q.needInitLevel
  BY <1>1 DEF Heading, Level
<1>3. PICK h : h = Format!ControlByte(q, b)
  OBVIOUS
<1>4. h.state = "unpack0" /\ h.needInitLevel = IF b = 1 THEN 192 ELSE Level(e)
  <2>1. CASE b = 1
    BY <2>1, <1>3, ControlCases
  <2>2. CASE b = 2
    <3>1. q.needInitLevel # 224
      BY <2>2, <1>2 DEF MayCopy
    <3> QED
      BY <2>2, <3>1, <1>2, <1>3, ControlCases
  <2> QED
    BY <2>1, <2>2
<1>5. Continues(e, c) <=> e.ok
  BY <1>2, <1>3, <1>4 DEF Continues
<1>6. LzAfter(e, c) = e.lz
  BY DEF LzAfter
<1> QED
  BY <1>2, <1>3, <1>4, <1>5, <1>6, DecodedOK

\* A chunk of LZMA data is taken when it resets what the decoder waits for.
HasControl(c, b)    == c.control = b
From(c, made)       == c.from = made
StartsFrom(c, b, e) == c.before = (IF b >= 160 THEN <<>> ELSE e.lz)

LEMMA LzmaDecoded ==
  ASSUME NEW e \in Decoder, e.ok, NEW c \in ChunkType, NEW b \in Nat, b >= 128, HasControl(c, b), b >= Level(e),
         StartsFrom(c, b, e)
  PROVE  /\ Level(Decoded(e, c)) = 0 /\ Decoded(e, c).ok
         /\ Decoded(e, c).lz = c.before \o Piece(c)
<1>1. PICK q \in Parser : q = e.q
  BY DEF Decoder
<1>2. Heading(e, c) = Format!ControlByte(q, b) /\ Level(e) = q.needInitLevel
  BY <1>1 DEF Heading, Level, HasControl
<1>3. PICK h : h = Format!ControlByte(q, b)
  OBVIOUS
<1>4. h.state = "unpack0" /\ h.needInitLevel = 0
  <2>1. b >= q.needInitLevel
    BY <1>2
  <2> QED
    BY <2>1, <1>3, ControlCases
<1>5. Continues(e, c)
  BY <1>2, <1>3, <1>4 DEF Continues, HasControl, StartsFrom
<1>6. LzAfter(e, c) = c.before \o Piece(c)
  BY DEF LzAfter, HasControl
<1> QED
  BY <1>2, <1>3, <1>4, <1>5, <1>6, DecodedOK

\* The sizes of chunks are numbers.
LEMMA SizeOK ==
  ASSUME NEW c \in ChunkType
  PROVE  c.unpack \in Nat /\ Size(c) \in Nat
BY DEF ChunkType, Size, Format!IsLzma

\* The first chunks of a longer sequence.
LEMMA ListGrows ==
  ASSUME NEW s \in Seq(ChunkType), NEW n \in Nat, n = Len(s), NEW c \in ChunkType
  PROVE  /\ Append(s, c) \in Seq(ChunkType) /\ Len(Append(s, c)) = n + 1
         /\ \A k \in 1 .. n : Append(s, c)[k] = s[k]
         /\ Append(s, c)[n + 1] = c
BY AppendProperties

\* One chunk more, for the bytes that follow.
LEMMA ChainGrows ==
  ASSUME NEW s, NEW made, NEW size, Chain(s, made, size),
         NEW c \in ChunkType, c.from = made, Fields(c)
  PROVE  /\ Chain(Append(s, c), made + c.unpack, size + Size(c))
         /\ Final(Append(s, c)) = Decoded(Final(s), c)
<1>1. s \in Seq(ChunkType) /\ made \in Nat /\ size \in Nat /\ Final(s) \in Decoder
  BY DEF Chain, Final
<1>2. PICK n \in Nat : n = Len(s)
  BY <1>1
<1>3. PICK t \in Seq(ChunkType) : t = Append(s, c)
  BY <1>1, <1>2, ListGrows
<1>4. Len(t) = n + 1 /\ t[n + 1] = c /\ \A k \in 1 .. n : t[k] = s[k]
  BY <1>1, <1>2, <1>3, ListGrows
<1>5. \A k \in 1 .. n : s[k] \in ChunkType
  BY <1>1, <1>2
<1>6. /\ \A k \in 1 .. n : Unpacks(s)[k] = s[k].unpack /\ Sizes(s)[k] = Size(s[k])
      /\ \A k \in 1 .. n + 1 : Unpacks(t)[k] = t[k].unpack /\ Sizes(t)[k] = Size(t[k])
  BY <1>2, <1>4 DEF Unpacks, Sizes
<1>7. \A k \in 1 .. n : /\ Unpacks(s)[k] = Unpacks(t)[k] /\ Unpacks(s)[k] \in Nat
                        /\ Sizes(s)[k] = Sizes(t)[k] /\ Sizes(s)[k] \in Nat
  BY <1>4, <1>5, <1>6, SizeOK
<1>8. Unpacks(t)[n + 1] = c.unpack /\ Sizes(t)[n + 1] = Size(c) /\ c.unpack \in Nat /\ Size(c) \in Nat
  BY <1>4, <1>6, SizeOK
<1>9. ASSUME NEW m \in 0 .. n
      PROVE  SumTo(Unpacks(s), m) = SumTo(Unpacks(t), m) /\ SumTo(Sizes(s), m) = SumTo(Sizes(t), m)
  <2>1. m \in Nat /\ \A k \in 1 .. m : k \in 1 .. n
    OBVIOUS
  <2>2. \A k \in 1 .. m : /\ Unpacks(s)[k] = Unpacks(t)[k] /\ Unpacks(s)[k] \in Nat
                          /\ Sizes(s)[k] = Sizes(t)[k] /\ Sizes(s)[k] \in Nat
    BY <2>1, <1>7
  <2> QED
    BY <2>1, <2>2, SumSame
<1>10. SumTo(Unpacks(t), n + 1) = made + c.unpack /\ SumTo(Sizes(t), n + 1) = size + Size(c)
  <2>1. SumTo(Unpacks(t), n + 1) = SumTo(Unpacks(t), n) + Unpacks(t)[n + 1]
    BY SumSteps
  <2>2. SumTo(Sizes(t), n + 1) = SumTo(Sizes(t), n) + Sizes(t)[n + 1]
    BY SumSteps
  <2>3. n \in 0 .. n
    OBVIOUS
  <2>4. made = SumTo(Unpacks(s), n) /\ size = SumTo(Sizes(s), n)
    BY <1>2 DEF Chain
  <2> QED
    BY <2>1, <2>2, <2>3, <2>4, <1>8, <1>9
<1>11. ASSUME NEW i \in 1 .. n + 1 PROVE t[i].from = SumTo(Unpacks(t), i - 1) /\ Fields(t[i])
  <2>1. CASE i \in 1 .. n
    <3>1. s[i].from = SumTo(Unpacks(s), i - 1) /\ Fields(s[i])
      BY <2>1, <1>2 DEF Chain
    <3>2. i - 1 \in 0 .. n
      BY <2>1
    <3> QED
      BY <3>1, <3>2, <2>1, <1>4, <1>9
  <2>2. CASE i = n + 1
    <3>1. i - 1 = n /\ n \in 0 .. n
      BY <2>2
    <3>2. made = SumTo(Unpacks(s), n)
      BY <1>2 DEF Chain
    <3> QED
      BY <3>1, <3>2, <2>2, <1>4, <1>9
  <2> QED
    BY <2>1, <2>2
<1>12. DecoderAt(t, n + 1) = Decoded(Final(s), c)
  <2>1. DecoderAt(t, n + 1) = Decoded(DecoderAt(t, n), t[n + 1])
    BY DecoderSteps
  <2>2. DecoderAt(t, n) = DecoderAt(s, n)
    BY <1>4, DecoderSame
  <2> QED
    BY <2>1, <2>2, <1>2, <1>4 DEF Final
<1>13. DecoderAt(t, n + 1) \in Decoder
  BY <1>12, <1>1, DecodedOK
<1> QED
  BY <1>1, <1>3, <1>4, <1>8, <1>10, <1>11, <1>12, <1>13 DEF Chain, Final
-----------------------------------------------------------------------------
(* Copies                                                                  *)

\* How much of u bytes the first i copies take.
Done(u, i) == IF i * CopyMax < u THEN i * CopyMax ELSE u
NumCopies(u) == (u + CopyMax - 1) \div CopyMax

\* There are enough copies for u bytes, and none is empty.
LEMMA CopiesCover ==
  ASSUME NEW u \in Nat, u > 0
  PROVE  /\ NumCopies(u) \in Nat /\ NumCopies(u) >= 1 /\ NumCopies(u) <= u
         /\ Done(u, 0) = 0 /\ Done(u, NumCopies(u)) = u
         /\ \A i \in 1 .. NumCopies(u) : (i - 1) * CopyMax < u
<1>1. PICK c \in Nat : c = CopyMax /\ c > 0
  BY Lzma2EncAssumption
<1>2. PICK n \in Nat, r \in 0 .. c - 1 : n = (u + c - 1) \div c /\ u + c - 1 = c * n + r
  <2>1. PICK a \in Nat : a = u + c - 1
    BY <1>1
  <2>2. a \div c \in Nat /\ (a % c) \in 0 .. c - 1 /\ a = c * (a \div c) + (a % c)
    BY <2>1, <1>1, DivMod
  <2> QED
    BY <2>1, <2>2
<1>3. PICK p \in Nat : p = c * n /\ p = n * c
  OBVIOUS
<1>4. p >= u /\ p < u + c
  BY <1>2, <1>3
<1>5. n >= 1
  <2>1. n = 0 => p = 0
    BY <1>3
  <2> QED
    BY <2>1, <1>4
<1>6. (n - 1) * c = p - c
  BY <1>3, <1>5
<1>7. n <= u
  <2>1. n - 1 \in Nat /\ (n - 1) * 1 <= (n - 1) * c
    BY <1>1, <1>5
  <2> QED
    BY <2>1, <1>4, <1>6
<1>8. ASSUME NEW i \in 1 .. n PROVE (i - 1) * c < u
  <2>1. i - 1 \in Nat /\ n - 1 \in Nat /\ i - 1 <= n - 1
    BY <1>5
  <2>2. (i - 1) * c <= (n - 1) * c
    BY <2>1, TimesMonotone
  <2>3. PICK x \in Nat : x = (i - 1) * c
    BY <2>1
  <2> QED
    BY <2>2, <2>3, <1>4, <1>6
<1>9. NumCopies(u) = n
  BY <1>1, <1>2 DEF NumCopies
<1>10. Done(u, 0) = 0
  <2>1. 0 * c = 0
    OBVIOUS
  <2> QED
    BY <2>1, <1>1 DEF Done
<1>11. Done(u, n) = u
  BY <1>1, <1>3, <1>4 DEF Done
<1> QED
  BY <1>1, <1>5, <1>7, <1>8, <1>9, <1>10, <1>11

\* One of the copies.
CopyOf(c, u, i, pos, control) ==
  /\ c \in ChunkType /\ Fields(c) /\ Size(c) = c.unpack + 3
  /\ c.control = (IF i = 1 THEN control ELSE 2)
  /\ c.from = pos + Done(u, i - 1) /\ Done(u, i) = Done(u, i - 1) + c.unpack

\* The least of two.
LEMMA MinOfTwo ==
  ASSUME NEW a \in Nat, NEW b \in Nat
  PROVE  Min({a, b}) = IF a < b THEN a ELSE b
<1> DEFINE l == IF a < b THEN a ELSE b
<1>1. l \in {a, b} /\ \A y \in {a, b} : l <= y
  OBVIOUS
<1>2. \A x \in {a, b} : (\A y \in {a, b} : x <= y) => x = l
  OBVIOUS
<1> HIDE DEF l
<1>3. Min({a, b}) = l
  BY <1>1, <1>2 DEF Min
<1> QED
  BY <1>3 DEF l

LEMMA CopiesAre ==
  ASSUME NEW u \in Nat, u > 0, Pos \in Nat, CopyControl \in {1, 2}
  PROVE  /\ CopyChunks(u) \in Seq(ChunkType) /\ Len(CopyChunks(u)) = NumCopies(u)
         /\ \A i \in 1 .. NumCopies(u) : CopyOf(CopyChunks(u)[i], u, i, Pos, CopyControl)
<1>1. PICK c \in Nat, n \in Nat, pos \in Nat, control \in {1, 2} :
        c = CopyMax /\ c > 0 /\ n = NumCopies(u) /\ pos = Pos /\ control = CopyControl
  <2>1. NumCopies(u) \in Nat
    BY CopiesCover
  <2>2. CopyMax \in Nat /\ CopyMax > 0
    BY Lzma2EncAssumption
  <2> QED
    BY <2>1, <2>2
<1> DEFINE chunk(i) == [control |-> IF i = 1 THEN control ELSE 2, from |-> pos + (i - 1) * c,
                        unpack |-> Min({c, u - (i - 1) * c}), pack |-> 0, before |-> <<>>]
<1>2. CopyChunks(u) = [i \in 1 .. n |-> chunk(i)]
  BY <1>1 DEF CopyChunks, NumCopies
<1>3. ASSUME NEW i \in 1 .. n PROVE CopyOf(chunk(i), u, i, pos, control)
  <2>1. PICK x \in Nat : x = (i - 1) * c /\ x < u
    <3>1. (i - 1) * c < u
      BY <1>1, CopiesCover
    <3>2. i - 1 \in Nat
      OBVIOUS
    <3>3. (i - 1) * c \in Nat
      BY <3>2
    <3> QED
      BY <3>1, <3>3
  <2>2. i * c = x + c
    BY <2>1
  <2>3. PICK y \in Nat : y = Min({c, u - x}) /\ y = IF c < u - x THEN c ELSE u - x
    <3>1. u - x \in Nat
      BY <2>1
    <3> QED
      BY <3>1, MinOfTwo
  <2>4. PICK k \in {1, 2} : k = IF i = 1 THEN control ELSE 2
    OBVIOUS
  <2>5. PICK f \in Nat : f = pos + x
    OBVIOUS
  <2>6. chunk(i) = [control |-> k, from |-> f, unpack |-> y, pack |-> 0, before |-> <<>>]
    BY <2>1, <2>3, <2>4, <2>5
  <2> HIDE DEF chunk
  <2>7. <<>> \in Lz
    BY DEF Lz
  <2>8. /\ chunk(i) \in ChunkType /\ chunk(i).control = k /\ chunk(i).from = f /\ chunk(i).unpack = y
    BY <2>6, <2>7 DEF ChunkType
  <2>9. Done(u, i - 1) = x
    BY <2>1, <1>1 DEF Done
  <2>10. Done(u, i) = x + y
    <3>1. Done(u, i) = IF x + c < u THEN x + c ELSE u
      BY <2>2, <1>1 DEF Done
    <3> QED
      BY <3>1, <2>1, <2>3
  <2>11. y <= CopyMax
    BY <2>3, <1>1
  <2>12. Fields(chunk(i)) /\ Size(chunk(i)) = y + 3
    BY <2>8, <2>11 DEF Fields, Size, Format!IsLzma
  <2> QED
    BY <2>4, <2>5, <2>8, <2>9, <2>10, <2>12 DEF CopyOf
<1> HIDE DEF chunk
<1>4. \A i \in 1 .. n : chunk(i) \in ChunkType
  BY <1>3 DEF CopyOf
<1>5. CopyChunks(u) \in Seq(ChunkType) /\ Len(CopyChunks(u)) = n
  BY <1>2, <1>4
<1>6. \A i \in 1 .. n : CopyOf(CopyChunks(u)[i], u, i, pos, control)
  BY <1>2, <1>3
<1> QED
  BY <1>1, <1>5, <1>6

\* The room that copies take.
LEMMA RoomOfCopies ==
  ASSUME NEW u \in Nat, u > 0, Pos \in Nat, CopyControl \in {1, 2}
  PROVE  Room(CopyChunks(u)) = u + 3 * NumCopies(u)
<1>1. PICK n \in Nat : n = NumCopies(u)
  BY CopiesCover
<1>2. PICK cs \in Seq(ChunkType) : cs = CopyChunks(u) /\ Len(cs) = n
  BY <1>1, CopiesAre
<1>3. \A i \in 1 .. n : CopyOf(cs[i], u, i, Pos, CopyControl)
  BY <1>1, <1>2, CopiesAre
<1> DEFINE f == [i \in 1 .. n |-> cs[i].unpack + 3]
           T == {i \in Nat : i <= n => SumTo(f, i) = Done(u, i) + 3 * i /\ Done(u, i) \in Nat}
<1>4. 0 \in T
  BY SumSteps, CopiesCover
<1>5. ASSUME NEW i \in Nat, i \in T PROVE i + 1 \in T
  <2>1. SUFFICES ASSUME i + 1 <= n
                 PROVE  SumTo(f, i + 1) = Done(u, i + 1) + 3 * (i + 1) /\ Done(u, i + 1) \in Nat
    OBVIOUS
  <2>2. i + 1 \in 1 .. n
    BY <2>1
  <2>3. CopyOf(cs[i + 1], u, i + 1, Pos, CopyControl)
    BY <1>3, <2>2
  <2>4. PICK y \in Nat : y = cs[i + 1].unpack /\ Done(u, i + 1) = Done(u, i) + y
    <3>1. (i + 1) - 1 = i
      OBVIOUS
    <3> QED
      BY <2>3, <3>1 DEF CopyOf, ChunkType
  <2>5. SumTo(f, i + 1) = SumTo(f, i) + f[i + 1]
    BY SumSteps
  <2>6. f[i + 1] = y + 3
    BY <2>2, <2>4
  <2>7. SumTo(f, i) = Done(u, i) + 3 * i /\ Done(u, i) \in Nat
    BY <1>5, <2>1
  <2>8. PICK x \in Nat, z \in Nat : x = Done(u, i) /\ z = Done(u, i + 1) /\ z = x + y
    BY <2>4, <2>7
  <2>9. SumTo(f, i + 1) = (x + 3 * i) + (y + 3)
    BY <2>5, <2>6, <2>7, <2>8
  <2>10. (x + 3 * i) + (y + 3) = z + 3 * (i + 1)
    BY <2>8
  <2> QED
    BY <2>8, <2>9, <2>10
<1> HIDE DEF T
<1>6. n \in T
  BY <1>4, <1>5, EveryNumber
<1>7. SumTo(f, n) = Done(u, n) + 3 * n
  BY <1>6 DEF T
<1>8. Done(u, n) = u
  BY <1>1, CopiesCover
<1>9. Room(CopyChunks(u)) = SumTo(f, n)
  BY <1>2 DEF Room
<1> QED
  BY <1>1, <1>7, <1>8, <1>9

\* A sequence that ends with c, behind another one.
LEMMA ConcatAppend ==
  ASSUME NEW s \in Seq(ChunkType), NEW a \in Seq(ChunkType), NEW c \in ChunkType
  PROVE  s \o Append(a, c) = Append(s \o a, c)
<1>1. PICK n \in Nat, m \in Nat : n = Len(s) /\ m = Len(a)
  OBVIOUS
<1> DEFINE x == s \o Append(a, c)
           y == Append(s \o a, c)
<1>2. s \o a \in Seq(ChunkType) /\ Len(s \o a) = n + m
  BY <1>1, ConcatProperties
<1>3. x \in Seq(ChunkType) /\ Len(x) = n + (m + 1)
  BY <1>1, AppendProperties, ConcatProperties
<1>4. y \in Seq(ChunkType) /\ Len(y) = (n + m) + 1
  BY <1>2, AppendProperties
<1>6. PICK z \in Seq(ChunkType) : z = Append(a, c) /\ Len(z) = m + 1
  BY <1>1, ListGrows
<1>7. (\A l \in 1 .. m : z[l] = a[l]) /\ z[m + 1] = c
  BY <1>1, <1>6, ListGrows
<1> HIDE DEF x, y
<1>5. ASSUME NEW k \in 1 .. n + m + 1 PROVE x[k] = y[k]
  <2>1. CASE k <= n + m
    <3>1. y[k] = (s \o a)[k]
      BY <2>1, <1>2 DEF y
    <3>2. CASE k <= n
      BY <3>1, <3>2, <1>1, <1>6 DEF x
    <3>3. CASE k > n
      <4>1. PICK l \in 1 .. m : l = k - n
        BY <3>3, <2>1
      <4>2. (s \o a)[k] = a[l]
        BY <4>1, <3>3, <2>1, <1>1
      <4>3. x[k] = z[l]
        BY <4>1, <3>3, <1>1, <1>6 DEF x
      <4>4. z[l] = a[l]
        BY <1>7
      <4> QED
        BY <3>1, <4>2, <4>3, <4>4
    <3> QED
      BY <3>2, <3>3
  <2>2. CASE k = (n + m) + 1
    <3>1. y[k] = c
      BY <2>2, <1>2 DEF y
    <3>2. PICK l \in Nat : l = m + 1 /\ l = k - n
      BY <2>2
    <3>3. x[k] = z[l]
      BY <3>2, <2>2, <1>1, <1>6 DEF x
    <3>4. z[l] = c
      BY <3>2, <1>7
    <3> QED
      BY <3>1, <3>3, <3>4
  <2> QED
    BY <2>1, <2>2
<1> QED
  <2>1. x = y
    BY <1>3, <1>4, <1>5, SeqEqual
  <2> QED
    BY <2>1 DEF x, y

\* One chunk more of those behind a sequence.
LEMMA ConcatGrows ==
  ASSUME NEW s \in Seq(ChunkType), NEW cs \in Seq(ChunkType), NEW i \in Nat, i + 1 <= Len(cs)
  PROVE  /\ s \o SubSeq(cs, 1, 0) = s
         /\ s \o SubSeq(cs, 1, i + 1) = Append(s \o SubSeq(cs, 1, i), cs[i + 1])
         /\ s \o SubSeq(cs, 1, Len(cs)) = s \o cs
<1>1. PICK n \in Nat : n = Len(cs)
  OBVIOUS
<1>2. SubSeq(cs, 1, 0) = <<>> /\ SubSeq(cs, 1, n) = cs
  BY <1>1, SubSeqProperties, EmptySeq
<1>3. s \o SubSeq(cs, 1, 0) = s
  BY <1>2, ConcatEmptySeq
<1>4. PICK c \in ChunkType : c = cs[i + 1]
  <2>1. i + 1 \in 1 .. Len(cs)
    OBVIOUS
  <2> QED
    BY <2>1, ElementOfSeq
<1> DEFINE a == SubSeq(cs, 1, i)
           b == SubSeq(cs, 1, i + 1)
<1>5. a \in Seq(ChunkType) /\ Len(a) = i /\ \A k \in 1 .. i : a[k] = cs[k]
  OBVIOUS
<1>6. b \in Seq(ChunkType) /\ Len(b) = i + 1 /\ \A k \in 1 .. i + 1 : b[k] = cs[k]
  OBVIOUS
<1> HIDE DEF a, b
<1>7. b = Append(a, c)
  <2>1. Append(a, c) \in Seq(ChunkType) /\ Len(Append(a, c)) = i + 1
        /\ (\A k \in 1 .. i : Append(a, c)[k] = a[k]) /\ Append(a, c)[i + 1] = c
    BY <1>5, ListGrows
  <2>2. \A k \in 1 .. i + 1 : b[k] = Append(a, c)[k]
    BY <2>1, <1>4, <1>5, <1>6
  <2> QED
    BY <2>1, <2>2, <1>6, SeqEqual
<1>8. s \o Append(a, c) = Append(s \o a, c)
  BY <1>5, ConcatAppend
<1>10. s \o b = Append(s \o a, c)
  BY <1>7, <1>8
<1> QED
  BY <1>1, <1>2, <1>3, <1>4, <1>10 DEF a, b

\* Only the last chunk of all has no data.
NoEnd(s) == \A k \in 1 .. Len(s) : s[k].control # 0

\* A sequence that was s, with the first i copies of u bytes.
CopiesTaken(t, s, i, u, made, size, control) ==
  /\ Chain(t, made + Done(u, i), size + (Done(u, i) + 3 * i))
  /\ (Final(t).ok <=> Final(s).ok)
  /\ Final(t).lz = Final(s).lz
  /\ Level(Final(t)) = (IF i > 0 /\ control = 1 THEN 192 ELSE Level(Final(s)))
  /\ (NoEnd(s) => NoEnd(t))

CopyKinds == {1, 2}

LEMMA CopyTaken ==
  ASSUME NEW t, NEW s, NEW i \in Nat, NEW u \in Nat, NEW made \in Nat, NEW size \in Nat, NEW control \in CopyKinds,
         Done(u, i) \in Nat, CopiesTaken(t, s, i, u, made, size, control), Final(s) \in Decoder,
         NEW j \in Nat, j = i + 1, NEW c, CopyOf(c, u, j, made, control),
         MayCopy(Final(s), control)
  PROVE  CopiesTaken(Append(t, c), s, j, u, made, size, control)
<1>1. PICK y \in Nat, x \in Nat : y = c.unpack /\ x = Done(u, i)
  BY DEF CopyOf, ChunkType
<1>2. /\ c \in ChunkType /\ Fields(c) /\ Size(c) = y + 3 /\ c.control = (IF i = 0 THEN control ELSE 2)
      /\ c.from = made + x /\ Done(u, j) = x + y
  <2>1. j - 1 = i /\ (j = 1 <=> i = 0)
    OBVIOUS
  <2> QED
    BY <1>1, <2>1 DEF CopyOf
<1>3. Chain(t, made + x, size + (x + 3 * i))
  BY <1>1 DEF CopiesTaken
<1>4. /\ Chain(Append(t, c), (made + x) + y, (size + (x + 3 * i)) + (y + 3))
      /\ Final(Append(t, c)) = Decoded(Final(t), c)
  BY <1>1, <1>2, <1>3, ChainGrows
<1>5. Chain(Append(t, c), made + Done(u, j), size + (Done(u, j) + 3 * j))
  <2>1. (made + x) + y = made + (x + y) /\ (size + (x + 3 * i)) + (y + 3) = size + ((x + y) + 3 * j)
    OBVIOUS
  <2> QED
    BY <2>1, <1>2, <1>4
<1>6. PICK e \in Decoder : e = Final(t)
  BY <1>3 DEF Chain, Final
<1>7. PICK n \in Nat : n = Len(t) /\ t \in Seq(ChunkType)
  BY <1>3 DEF Chain
<1>8. NoEnd(t) => NoEnd(Append(t, c))
  <2>1. Len(Append(t, c)) = n + 1 /\ (\A k \in 1 .. n : Append(t, c)[k] = t[k]) /\ Append(t, c)[n + 1] = c
    BY <1>2, <1>7, ListGrows
  <2> QED
    BY <2>1, <1>2, <1>7 DEF NoEnd, CopyKinds
<1>9. PICK b \in {1, 2} : b = c.control
  BY <1>2 DEF CopyKinds
<1>10. MayCopy(e, b)
  BY <1>2, <1>6, <1>9 DEF CopiesTaken, MayCopy
<1>11. Level(Decoded(e, c)) = (IF b = 1 THEN 192 ELSE Level(e)) /\ (Decoded(e, c).ok <=> e.ok) /\ Decoded(e, c).lz = e.lz
  BY <1>2, <1>9, <1>10, CopyDecoded
<1>15. Level(Final(Append(t, c))) = IF control = 1 THEN 192 ELSE Level(Final(s))
  <2>1. Level(Final(Append(t, c))) = IF b = 1 THEN 192 ELSE Level(e)
    BY <1>4, <1>6, <1>11
  <2>2. Level(e) = IF i > 0 /\ control = 1 THEN 192 ELSE Level(Final(s))
    BY <1>6 DEF CopiesTaken
  <2> QED
    BY <2>1, <2>2, <1>2, <1>9
<1>16. (Final(Append(t, c)).ok <=> Final(s).ok) /\ Final(Append(t, c)).lz = Final(s).lz
  BY <1>4, <1>6, <1>11 DEF CopiesTaken
<1>17. NoEnd(s) => NoEnd(Append(t, c))
  BY <1>8 DEF CopiesTaken
<1>18. j > 0
  OBVIOUS
<1> QED
  BY <1>5, <1>15, <1>16, <1>17, <1>18 DEF CopiesTaken

\* The copies behind a sequence that the decoder takes.
LEMMA CopiesDecode ==
  ASSUME NEW s, NEW made \in Nat, NEW size \in Nat, Chain(s, made, size), made = Pos,
         NEW u \in Nat, u > 0, CopyControl \in {1, 2},
         MayCopy(Final(s), CopyControl)
  PROVE  CopiesTaken(s \o CopyChunks(u), s, NumCopies(u), u, made, size, CopyControl) /\ Done(u, NumCopies(u)) = u
<1>1. PICK n \in Nat, control \in {1, 2} : n = NumCopies(u) /\ n >= 1 /\ control = CopyControl
  BY CopiesCover
<1>2. Pos \in Nat
  OBVIOUS
<1>3. PICK cs \in Seq(ChunkType) : cs = CopyChunks(u) /\ Len(cs) = n
  BY <1>1, <1>2, CopiesAre
<1>4. \A i \in 1 .. n : CopyOf(cs[i], u, i, made, control)
  <2>1. \A i \in 1 .. NumCopies(u) : CopyOf(CopyChunks(u)[i], u, i, Pos, CopyControl)
    BY <1>2, CopiesAre
  <2> QED
    BY <2>1, <1>1, <1>3
<1>5. s \in Seq(ChunkType) /\ Final(s) \in Decoder
  BY DEF Chain, Final
<1>6. s \o SubSeq(cs, 1, 0) = s
  <2>1. 0 \in Nat /\ 0 + 1 <= Len(cs)
    BY <1>1, <1>3
  <2> QED
    BY <2>1, <1>5, ConcatGrows
<1>7. s \o SubSeq(cs, 1, n) = s \o cs
  <2>1. 0 \in Nat /\ 0 + 1 <= Len(cs)
    BY <1>1, <1>3
  <2> QED
    BY <2>1, <1>3, <1>5, ConcatGrows
<1> DEFINE T == {i \in Nat : i <= n => Done(u, i) \in Nat /\ CopiesTaken(s \o SubSeq(cs, 1, i), s, i, u, made, size, control)}
<1>8. 0 \in T
  <2>1. Done(u, 0) = 0
    BY CopiesCover
  <2>2. made + 0 = made /\ size + (0 + 3 * 0) = size /\ ~(0 > 0)
    OBVIOUS
  <2>3. CopiesTaken(s, s, 0, u, made, size, control)
    BY <2>1, <2>2 DEF CopiesTaken
  <2>4. CopiesTaken(s \o SubSeq(cs, 1, 0), s, 0, u, made, size, control)
    BY <2>3, <1>6
  <2> QED
    BY <2>1, <2>4
<1>9. ASSUME NEW i \in Nat, i \in T PROVE i + 1 \in T
  <2>1. SUFFICES ASSUME i + 1 <= n
                 PROVE  Done(u, i + 1) \in Nat /\ CopiesTaken(s \o SubSeq(cs, 1, i + 1), s, i + 1, u, made, size, control)
    OBVIOUS
  <2>2. i + 1 \in 1 .. n /\ i + 1 <= Len(cs)
    BY <2>1, <1>3
  <2>3. CopyOf(cs[i + 1], u, i + 1, made, control)
    BY <1>4, <2>2
  <2>4. Done(u, i) \in Nat /\ CopiesTaken(s \o SubSeq(cs, 1, i), s, i, u, made, size, control)
    BY <1>9, <2>1
  <2>5. CopiesTaken(Append(s \o SubSeq(cs, 1, i), cs[i + 1]), s, i + 1, u, made, size, control)
    <3>1. MayCopy(Final(s), control) /\ control \in CopyKinds
      BY <1>1 DEF CopyKinds
    <3>2. PICK t : t = s \o SubSeq(cs, 1, i)
      OBVIOUS
    <3>3. PICK c : c = cs[i + 1]
      OBVIOUS
    <3>6. PICK j \in Nat : j = i + 1
      OBVIOUS
    <3>4. CopyOf(c, u, j, made, control) /\ Done(u, i) \in Nat /\ CopiesTaken(t, s, i, u, made, size, control)
      BY <2>3, <2>4, <3>2, <3>3, <3>6
    <3>5. CopiesTaken(Append(t, c), s, j, u, made, size, control)
      BY <3>1, <3>4, <3>6, <1>5, CopyTaken
    <3> QED
      BY <3>2, <3>3, <3>5, <3>6
  <2>6. s \o SubSeq(cs, 1, i + 1) = Append(s \o SubSeq(cs, 1, i), cs[i + 1])
    BY <2>2, <1>5, ConcatGrows
  <2>7. Done(u, i + 1) \in Nat
    <3>1. Done(u, i + 1) = Done(u, (i + 1) - 1) + cs[i + 1].unpack /\ cs[i + 1].unpack \in Nat
      BY <2>3 DEF CopyOf, ChunkType
    <3>2. (i + 1) - 1 = i
      OBVIOUS
    <3> QED
      BY <3>1, <3>2, <2>4
  <2> QED
    BY <2>5, <2>6, <2>7
<1> HIDE DEF T
<1>10. n \in T
  BY <1>8, <1>9, EveryNumber
<1>11. CopiesTaken(s \o SubSeq(cs, 1, n), s, n, u, made, size, control)
  BY <1>10 DEF T
<1>12. Done(u, n) = u
  BY <1>1, CopiesCover
<1> QED
  BY <1>1, <1>3, <1>7, <1>11, <1>12

\* An LZMA chunk that resets what it must, or goes on where the decoder is.
LEMMA LzmaChunkDecodes ==
  ASSUME NEW s, NEW made \in Nat, NEW size \in Nat, Chain(s, made, size),
         NEW c \in ChunkType, From(c, made), Fields(c), NEW b \in Nat, b >= 128, HasControl(c, b),
         Final(s).ok, b >= Level(Final(s)),
         StartsFrom(c, b, Final(s))
  PROVE  /\ Chain(Append(s, c), made + c.unpack, size + Size(c)) /\ Final(Append(s, c)).ok
         /\ Level(Final(Append(s, c))) = 0 /\ (NoEnd(s) => NoEnd(Append(s, c)))
         /\ Final(Append(s, c)).lz = c.before \o Piece(c)
<1>1. /\ Chain(Append(s, c), made + c.unpack, size + Size(c))
      /\ Final(Append(s, c)) = Decoded(Final(s), c)
  BY ChainGrows DEF From
<1>2. PICK e \in Decoder : e = Final(s)
  BY DEF Chain, Final
<1>3. PICK n \in Nat : n = Len(s) /\ s \in Seq(ChunkType)
  BY DEF Chain
<1>4. NoEnd(s) => NoEnd(Append(s, c))
  <2>1. Len(Append(s, c)) = n + 1 /\ (\A k \in 1 .. n : Append(s, c)[k] = s[k]) /\ Append(s, c)[n + 1] = c
    BY <1>3, ListGrows
  <2> QED
    BY <2>1, <1>3 DEF NoEnd, HasControl
<1>5. Level(Decoded(e, c)) = 0 /\ Decoded(e, c).ok /\ Decoded(e, c).lz = c.before \o Piece(c)
  <2>1. e.ok /\ b >= Level(e) /\ StartsFrom(c, b, e)
    BY <1>2
  <2> QED
    BY <2>1, LzmaDecoded
<1> QED
  BY <1>1, <1>2, <1>4, <1>5
-----------------------------------------------------------------------------
(* The inductive invariant                                                 *)

EncTypes ==
  /\ in \in [size : Nat, blockSize : Nat, stream : BOOLEAN, buf : BOOLEAN, finished : BOOLEAN, outLim : Nat]
  /\ coder \in [srcPos : Nat, needInitState : BOOLEAN, needInitProp : BOOLEAN, lz : Lz]
  /\ saved \in Lz /\ block \in [size : Nat, empty : BOOLEAN] /\ total \in [unpack : Nat, pack : Nat]
  /\ encPc \in {"block", "chunk", "end", "done"} /\ res \in {"none", "ok", "output_eof", "read", "write", "progress"}

InBlock == encPc \in {"chunk", "end"}
Written == total.unpack + (IF InBlock THEN coder.srcPos ELSE 0)

\* Where the encoder is in the input.
PlaceInv ==
  /\ total.unpack <= in.size /\ coder.srcPos <= block.size
  /\ (InBlock => /\ total.unpack + block.size <= in.size
                 /\ (in.stream /\ block.empty => total.unpack + block.size = in.size))
  /\ (encPc = "end" => coder.srcPos = block.size)

\* What it has written so far, and what the decoder knows after that.
OutputInv ==
  /\ Chain(out, Written, total.pack) /\ Final(out).ok /\ NoEnd(out) /\ res = "none"
  /\ total.pack <= 4 * Written /\ (in.buf => total.pack <= in.outLim)

SameState ==
  /\ (coder.needInitProp <=> coder.needInitState)
  /\ (coder.srcPos = 0 => coder.needInitState)
  /\ (coder.srcPos > 0 /\ coder.needInitState => Level(Final(out)) = 192)
  /\ (~coder.needInitState => Level(Final(out)) = 0 /\ Final(out).lz = coder.lz)

\* What it leaves behind.
HasEnd(s) == \E i \in 1 .. Len(s) : s[i].control = 0
EndInv ==
  /\ \E made \in Nat, size \in Nat :
       /\ Chain(out, made, size) /\ Final(out).ok /\ (in.buf => size <= in.outLim)
       /\ (res = "ok" => made = in.size /\ (HasEnd(out) <=> in.finished))
  /\ (res = "output_eof" => in.outLim < 4 * in.size + 11)

EncInv ==
  /\ EncTypes /\ PlaceInv
  /\ (encPc # "done" => OutputInv) /\ (encPc = "done" => EndInv) /\ (InBlock => SameState)

LEMMA StartDecodes == Chain(<<>>, 0, 0) /\ Final(<<>>) = DecoderStart /\ NoEnd(<<>>)
<1>1. <<>> \in Seq(ChunkType) /\ Len(<<>>) = 0
  OBVIOUS
<1>2. SumTo(Unpacks(<<>>), 0) = 0 /\ SumTo(Sizes(<<>>), 0) = 0 /\ DecoderAt(<<>>, 0) = DecoderStart
  BY SumSteps, DecoderSteps
<1>3. DecoderStart \in Decoder
  <2>1. Format!FreshParser \in Parser
    BY DEF Format!FreshParser, Parser, States
  <2>2. <<>> \in Lz
    BY DEF Lz
  <2> QED
    BY <2>1, <2>2 DEF DecoderStart, Decoder
<1> QED
  BY <1>1, <1>2, <1>3 DEF Chain, Final, NoEnd

\* At first nothing is written.
LEMMA EncInitInv == EncInit => EncInv
<1> SUFFICES ASSUME EncInit PROVE EncInv
  OBVIOUS
<1>1. EncTypes
  <2>1. InSizes \subseteq Nat /\ BlockSizes \subseteq Nat /\ Limits \subseteq Nat
    BY Lzma2EncAssumption
  <2>2. PICK n \in Nat, b \in Nat, s \in BOOLEAN, o \in BOOLEAN, f \in BOOLEAN, l \in Nat :
          in = [size |-> n, blockSize |-> b, stream |-> s, buf |-> o, finished |-> f, outLim |-> l]
    BY <2>1 DEF EncInit
  <2>3. in \in [size : Nat, blockSize : Nat, stream : BOOLEAN, buf : BOOLEAN, finished : BOOLEAN, outLim : Nat]
    BY <2>2
  <2>4. <<>> \in Lz
    BY DEF Lz
  <2> QED
    BY <2>3, <2>4 DEF EncTypes, EncInit
<1>2. in.size \in Nat /\ in.outLim \in Nat
  BY <1>1 DEF EncTypes
<1>3. total.unpack = 0 /\ total.pack = 0 /\ coder.srcPos = 0 /\ block.size = 0 /\ encPc = "block" /\ out = <<>> /\ res = "none"
  BY DEF EncInit
<1>4. PlaceInv /\ ~InBlock
  BY <1>2, <1>3 DEF PlaceInv, InBlock
<1>5. Written = 0
  BY <1>3, <1>4 DEF Written
<1>6. OutputInv
  <2>1. DecoderStart.ok
    BY DEF DecoderStart
  <2> QED
    BY <1>2, <1>3, <1>5, <2>1, StartDecodes DEF OutputInv
<1> QED
  BY <1>1, <1>3, <1>4, <1>6 DEF EncInv

\* The first chunk of a block resets everything.
LEMMA StartBlockInv == EncInv /\ StartBlock => EncInv'
<1> SUFFICES ASSUME EncInv, StartBlock PROVE EncInv'
  OBVIOUS
<1>1. EncTypes /\ PlaceInv /\ OutputInv
  BY DEF EncInv, StartBlock
<1>2. PICK n \in Nat, b \in Nat, u \in Nat, k \in Nat :
        n = in.size /\ b = in.blockSize /\ u = total.unpack /\ k = total.pack /\ u <= n
  BY <1>1 DEF EncTypes, PlaceInv
<1>3. PICK size \in Nat, empty \in BOOLEAN :
        /\ block' = [size |-> size, empty |-> empty] /\ u + size <= n /\ (empty => u + size = n)
  <2> DEFINE size == IF b # Solid /\ b < n - u THEN b ELSE n - u
             empty == b = Solid \/ n - u < b
  <2>1. block' = [size |-> size, empty |-> empty]
    BY <1>2 DEF StartBlock, Rest
  <2>2. size \in Nat /\ u + size <= n /\ (empty => u + size = n)
    BY <1>2
  <2> QED
    BY <2>1, <2>2
<1>4. /\ UNCHANGED <<in, res, saved, total, out>> /\ encPc' = "chunk"
      /\ coder' = [coder EXCEPT !.srcPos = 0, !.needInitState = TRUE, !.needInitProp = TRUE]
  BY DEF StartBlock, InitBlock
<1>5. coder'.srcPos = 0 /\ coder'.needInitState /\ coder'.needInitProp
  BY <1>1, <1>4 DEF EncTypes
<1>6. EncTypes'
  BY <1>1, <1>3, <1>4 DEF EncTypes
<1>7. PlaceInv'
  BY <1>2, <1>3, <1>4, <1>5 DEF PlaceInv
<1>8. Written' = Written
  <2>1. Written = u + 0 /\ Written' = u + 0
    BY <1>2, <1>4, <1>5 DEF Written, InBlock, StartBlock
  <2> QED
    BY <2>1
<1>9. OutputInv'
  BY <1>1, <1>4, <1>8 DEF OutputInv
<1>10. SameState'
  BY <1>5 DEF SameState
<1> QED
  BY <1>4, <1>6, <1>7, <1>9, <1>10 DEF EncInv


\* The numbers of a state inside a block.
InBlockAt(pc, n, done, pos, size, pack, lim) ==
  /\ encPc = pc /\ n = in.size /\ done = total.unpack /\ pos = coder.srcPos /\ size = block.size
  /\ pack = total.pack /\ lim = in.outLim
  /\ done + size <= n /\ pos <= size /\ pack <= 4 * (done + pos) /\ (in.buf => pack <= lim)
  /\ Chain(out, done + pos, pack)

LEMMA InBlockNumbers ==
  ASSUME EncInv, NEW pc, encPc = pc, InBlock
  PROVE  \E n \in Nat, done \in Nat, pos \in Nat, size \in Nat, pack \in Nat, lim \in Nat :
           InBlockAt(pc, n, done, pos, size, pack, lim)
<1>1. encPc # "done"
  BY DEF InBlock
<1>2. EncTypes /\ PlaceInv /\ OutputInv
  BY <1>1 DEF EncInv
<1>3. PICK n \in Nat, done \in Nat, pos \in Nat, size \in Nat, pack \in Nat, lim \in Nat :
        /\ n = in.size /\ done = total.unpack /\ pos = coder.srcPos /\ size = block.size /\ pack = total.pack /\ lim = in.outLim
  BY <1>2 DEF EncTypes
<1>4. done + size <= n /\ pos <= size
  BY <1>2, <1>3 DEF PlaceInv
<1>5. Written = done + pos
  BY <1>3 DEF Written
<1>6. pack <= 4 * (done + pos) /\ (in.buf => pack <= lim) /\ Chain(out, done + pos, pack)
  BY <1>2, <1>3, <1>5 DEF OutputInv
<1> QED
  BY <1>3, <1>4, <1>6 DEF InBlockAt

\* The encoder stops: what it has written stays.
LEMMA StopInv ==
  ASSUME EncInv, InBlock, UNCHANGED <<in, block, coder, total, out>>, saved' \in {saved, coder.lz}, encPc' = "done",
         NEW code \in {"output_eof", "read", "write", "progress"}, res' = code,
         code = "output_eof" => in.outLim < 4 * in.size + 11
  PROVE  EncInv'
<1>1. EncTypes /\ PlaceInv /\ OutputInv
  BY DEF EncInv, InBlock
<1>2. EncTypes'
  BY <1>1 DEF EncTypes
<1>3. PlaceInv'
  BY <1>1 DEF PlaceInv, InBlock
<1>4. PICK made \in Nat, size \in Nat : made = Written /\ size = total.pack
  BY <1>1 DEF EncTypes, Written
<1>5. Chain(out', made, size) /\ Final(out').ok /\ (in'.buf => size <= in'.outLim)
  BY <1>1, <1>4 DEF OutputInv
<1>6. EndInv'
  BY <1>4, <1>5 DEF EndInv
<1> QED
  BY <1>2, <1>3, <1>6 DEF EncInv, InBlock

\* A chunk of LZMA data.
LEMMA StoreLzmaInv ==
  ASSUME EncInv, encPc = "chunk", UNCHANGED <<in, block>>, saved' = coder.lz,
         NEW u \in Nat, u >= 1, u <= UnpackMax, u <= BlockRest, NEW k \in Nat,
         in.buf => HeaderSize + k <= Limit, Worth(u, k), StoreLzma(u, k)
  PROVE  EncInv'
<1>1. InBlock
  BY DEF InBlock
<1>2. PICK n \in Nat, done \in Nat, pos \in Nat, size \in Nat, pack \in Nat, lim \in Nat :
        InBlockAt("chunk", n, done, pos, size, pack, lim)
  BY <1>1, InBlockNumbers
<1>3. EncTypes /\ PlaceInv /\ OutputInv /\ SameState
  BY <1>1 DEF EncInv
<1>4. PICK before \in Lz : before = IF coder.needInitState THEN <<>> ELSE coder.lz
  <2>1. <<>> \in Lz /\ coder.lz \in Lz
    BY <1>3 DEF EncTypes, Lz
  <2> QED
    BY <2>1
<1>5. PICK level \in {0, 192, 224} : level = Level(Final(out))
  <2>1. Final(out) \in Decoder
    BY <1>2 DEF InBlockAt, Chain, Final
  <2> QED
    BY <2>1 DEF Decoder, Parser, Level
<1>6. PICK mode \in {0, 2, 3} :
        /\ mode = Mode /\ (mode = 0 <=> ~coder.needInitState) /\ (mode # 3 => level # 224)
        /\ HeaderSize = 5 + (IF mode = 0 THEN 0 ELSE 1)
        /\ (mode = 0 => level = 0)
  <2>1. coder.srcPos \in Nat /\ coder.needInitState \in BOOLEAN
    BY <1>3 DEF EncTypes
  <2>2. /\ (coder.needInitProp <=> coder.needInitState) /\ (coder.srcPos = 0 => coder.needInitState)
        /\ (coder.srcPos > 0 /\ coder.needInitState => level = 192) /\ (~coder.needInitState => level = 0)
    BY <1>3, <1>5 DEF SameState
  <2>3. CASE coder.srcPos = 0
    BY <2>1, <2>2, <2>3 DEF Mode, HeaderSize
  <2>4. CASE coder.srcPos # 0 /\ coder.needInitState
    BY <2>1, <2>2, <2>4 DEF Mode, HeaderSize
  <2>5. CASE ~coder.needInitState
    BY <2>1, <2>2, <2>5 DEF Mode, HeaderSize
  <2> QED
    BY <2>1, <2>3, <2>4, <2>5
<1>7. PICK b \in Nat : b = 128 + 32 * mode /\ b >= 128 /\ b >= level /\ (b >= 160 <=> mode # 0) /\ (b >= 192 <=> mode # 0)
  BY <1>5, <1>6
<1>8. PICK from \in Nat : from = Pos /\ from = done + pos
  BY <1>2 DEF Pos, InBlockAt
<1>9. PICK c : c = [control |-> b, from |-> from, unpack |-> u, pack |-> k, before |-> before]
  OBVIOUS
<1>10. c \in ChunkType /\ c.from = from /\ c.unpack = u /\ c.pack = k /\ c.before = before /\ c.control = b
  BY <1>9 DEF ChunkType
<1>11. out' = Append(out, c)
  BY <1>4, <1>6, <1>7, <1>8, <1>9 DEF StoreLzma
<1>12. PICK added \in Nat : added = HeaderSize + k /\ added = Size(c) /\ total' = [total EXCEPT !.pack = pack + added]
  <2>1. PICK h \in Nat : h = HeaderSize
    BY <1>6
  <2>2. Size(c) = h + k
    BY <2>1, <1>6, <1>7, <1>10 DEF Size, Format!IsLzma
  <2>3. PICK x \in Nat : x = pack + (h + k)
    OBVIOUS
  <2>4. x = total.pack + HeaderSize + k
    BY <1>2, <2>1, <2>3 DEF InBlockAt
  <2>5. total' = [total EXCEPT !.pack = x]
    BY <2>4 DEF StoreLzma
  <2> QED
    BY <2>1, <2>2, <2>3, <2>5
<1>13. Fields(c)
  BY <1>7, <1>10 DEF Fields, Format!IsLzma, Worth
<1>14. StartsFrom(c, b, Final(out)) /\ HasControl(c, b)
  <2>1. CASE mode = 0
    <3>1. before = coder.lz /\ coder.lz = Final(out).lz
      BY <2>1, <1>3, <1>4, <1>6 DEF SameState
    <3> QED
      BY <3>1, <2>1, <1>7, <1>10 DEF StartsFrom, HasControl
  <2>2. CASE mode # 0
    <3>1. before = <<>>
      BY <2>2, <1>4, <1>6
    <3> QED
      BY <3>1, <2>2, <1>7, <1>10 DEF StartsFrom, HasControl
  <2> QED
    BY <2>1, <2>2
<1>15. /\ Chain(out', (done + pos) + u, pack + added) /\ Final(out').ok /\ Level(Final(out')) = 0 /\ NoEnd(out')
       /\ Final(out').lz = before \o Piece(c)
  <2>1. Chain(out, from, pack) /\ Final(out).ok /\ NoEnd(out) /\ b >= Level(Final(out))
    BY <1>2, <1>3, <1>5, <1>7, <1>8 DEF InBlockAt, OutputInv
  <2>2. /\ Chain(Append(out, c), from + c.unpack, pack + Size(c)) /\ Final(Append(out, c)).ok
        /\ Level(Final(Append(out, c))) = 0 /\ (NoEnd(out) => NoEnd(Append(out, c)))
        /\ Final(Append(out, c)).lz = c.before \o Piece(c)
    <3>1. b >= 128 /\ b >= Level(Final(out))
      BY <1>5, <1>7
    <3>2. From(c, from) /\ c \in ChunkType
      BY <1>10 DEF From
    <3> QED
      BY <2>1, <3>1, <3>2, <1>13, <1>14, LzmaChunkDecodes
  <2> QED
    BY <2>1, <2>2, <1>8, <1>10, <1>11, <1>12
<1>16. PICK lz \in Lz : lz = before \o Piece(c) /\ coder' = [coder EXCEPT !.srcPos = pos + u, !.needInitState = FALSE, !.needInitProp = FALSE, !.lz = lz]
  <2>1. [from |-> from, unpack |-> u] \in [from : Nat, unpack : Nat]
    OBVIOUS
  <2>2. Piece(c) = <<[from |-> from, unpack |-> u]>>
    BY <1>10 DEF Piece
  <2>3. Piece(c) \in Lz
    BY <2>1, <2>2 DEF Lz
  <2>4. before \o Piece(c) \in Lz
    BY <2>3, ConcatProperties DEF Lz
  <2>5. Coded(u) = before \o Piece(c)
    BY <2>2, <1>4, <1>8 DEF Coded
  <2> QED
    BY <2>4, <2>5, <1>2 DEF StoreLzma, InBlockAt
<1>17. /\ coder'.srcPos = pos + u /\ ~coder'.needInitState /\ ~coder'.needInitProp /\ coder'.lz = lz
       /\ total'.unpack = done /\ total'.pack = pack + added
  BY <1>2, <1>3, <1>12, <1>16 DEF EncTypes, InBlockAt
<1>18. u <= size - pos /\ in' = in /\ block' = block /\ encPc' = "chunk" /\ res' = res
  BY <1>2 DEF BlockRest, StoreLzma, InBlockAt
<1>19. EncTypes'
  <2>1. coder' \in [srcPos : Nat, needInitState : BOOLEAN, needInitProp : BOOLEAN, lz : Lz] /\ saved' \in Lz
    <3>1. PICK p \in Nat : p = pos + u
      OBVIOUS
    <3>2. coder' = [coder EXCEPT !.srcPos = p, !.needInitState = FALSE, !.needInitProp = FALSE, !.lz = lz]
      BY <3>1, <1>16
    <3> QED
      BY <3>2, <1>3 DEF EncTypes
  <2>2. total' \in [unpack : Nat, pack : Nat]
    BY <1>3, <1>12 DEF EncTypes
  <2> QED
    BY <2>1, <2>2, <1>3, <1>18 DEF EncTypes
<1>20. PlaceInv'
  <2>1. pos + u <= size
    BY <1>2, <1>18 DEF InBlockAt
  <2> QED
    BY <2>1, <1>2, <1>3, <1>17, <1>18 DEF PlaceInv, InBlockAt, InBlock
<1>21. OutputInv'
  <2>1. Written' = (done + pos) + u
    BY <1>17, <1>18 DEF Written, InBlock
  <2>2. pack + added <= 4 * ((done + pos) + u)
    <3>1. pack <= 4 * (done + pos)
      BY <1>2 DEF InBlockAt
    <3>2. added <= 6 + k /\ k + 2 < u
      BY <1>6, <1>12 DEF Worth
    <3> QED
      BY <3>1, <3>2
  <2>3. in.buf => pack + added <= lim
    BY <1>2, <1>12 DEF Limit, InBlockAt
  <2> QED
    BY <2>1, <2>2, <2>3, <1>2, <1>3, <1>15, <1>17, <1>18 DEF OutputInv, InBlockAt
<1>22. SameState'
  BY <1>15, <1>16, <1>17 DEF SameState
<1> QED
  BY <1>18, <1>19, <1>20, <1>21, <1>22 DEF EncInv


\* Copies, that leave the LZMA encoder as it was.
LEMMA StoreCopiesInv ==
  ASSUME EncInv, encPc = "chunk", UNCHANGED <<in, block>>, saved' = coder.lz,
         NEW u \in Nat, u >= 1, u <= BlockRest, StoreCopies(u)
  PROVE  EncInv'
<1>1. InBlock
  BY DEF InBlock
<1>2. PICK n \in Nat, done \in Nat, pos \in Nat, size \in Nat, pack \in Nat, lim \in Nat :
        InBlockAt("chunk", n, done, pos, size, pack, lim)
  BY <1>1, InBlockNumbers
<1>3. EncTypes /\ PlaceInv /\ OutputInv /\ SameState
  BY <1>1 DEF EncInv
<1>4. PICK made \in Nat : made = Pos /\ made = done + pos
  BY <1>2 DEF Pos, InBlockAt
<1>5. PICK i \in Nat : i = NumCopies(u) /\ i >= 1 /\ i <= u
  BY CopiesCover
<1>6. PICK added \in Nat : added = Room(CopyChunks(u)) /\ added = u + 3 * i /\ added <= 4 * u
  <2>1. Pos \in Nat /\ CopyControl \in {1, 2}
    BY <1>4 DEF CopyControl
  <2> QED
    BY <2>1, <1>5, RoomOfCopies
<1>7. u <= size - pos /\ done + size <= n /\ pack <= 4 * (done + pos)
  BY <1>2 DEF BlockRest, InBlockAt
<1>8. CASE ~(in.buf => Room(CopyChunks(u)) <= Limit)
  <2>1. encPc' = "done" /\ res' = "output_eof" /\ UNCHANGED <<coder, total, out>>
    BY <1>8 DEF StoreCopies, Return
  <2>2. lim < pack + added
    BY <1>2, <1>6, <1>8 DEF Limit, InBlockAt
  <2>3. in.outLim < 4 * in.size + 11
    <3>1. lim < 4 * n + 11
      BY <1>6, <1>7, <2>2
    <3> QED
      BY <3>1, <1>2 DEF InBlockAt
  <2>4. EncTypes'
    BY <2>1, <1>3 DEF EncTypes
  <2>5. PlaceInv'
    BY <2>1, <1>3 DEF PlaceInv, InBlock
  <2>6. Chain(out', made, pack) /\ Final(out').ok /\ (in'.buf => pack <= in'.outLim)
    BY <2>1, <1>2, <1>3, <1>4 DEF OutputInv, InBlockAt
  <2>7. EndInv'
    BY <2>1, <2>3, <2>6 DEF EndInv
  <2> QED
    BY <2>1, <2>4, <2>5, <2>7 DEF EncInv, InBlock
<1>9. CASE in.buf => Room(CopyChunks(u)) <= Limit
  <2>1. out' = out \o CopyChunks(u) /\ UNCHANGED <<encPc, res>>
    BY <1>9 DEF StoreCopies
  <2>2. PICK x \in Nat, p \in Nat : x = pack + added /\ p = pos + u
    OBVIOUS
  <2>3. coder' = [coder EXCEPT !.srcPos = p, !.lz = coder.lz] /\ total' = [total EXCEPT !.pack = x]
    BY <2>2, <1>2, <1>6, <1>9 DEF StoreCopies, InBlockAt
  <2>4. /\ coder'.srcPos = p /\ coder'.needInitState = coder.needInitState /\ coder'.needInitProp = coder.needInitProp
        /\ coder'.lz = coder.lz /\ total'.unpack = done /\ total'.pack = x
    BY <2>3, <1>2, <1>3 DEF EncTypes, InBlockAt
  <2>5. PICK control \in {1, 2} : control = CopyControl /\ (control = 1 <=> pos = 0)
    BY <1>2 DEF CopyControl, InBlockAt
  <2>6. Level(Final(out)) # 224 \/ control = 1
    BY <1>2, <1>3, <2>5 DEF SameState, InBlockAt, EncTypes
  <2>7. CopiesTaken(out', out, i, u, made, pack, control) /\ Done(u, i) = u
    <3>1. MayCopy(Final(out), CopyControl) /\ CopyControl \in {1, 2}
      BY <2>5, <2>6 DEF MayCopy
    <3>2. Chain(out, made, pack)
      BY <1>2, <1>4 DEF InBlockAt
    <3>3. CopiesTaken(out \o CopyChunks(u), out, NumCopies(u), u, made, pack, CopyControl) /\ Done(u, NumCopies(u)) = u
      BY <3>1, <3>2, <1>4, CopiesDecode
    <3> QED
      BY <3>3, <2>1, <2>5, <1>5
  <2>8. /\ Chain(out', made + u, pack + (u + 3 * i)) /\ (Final(out').ok <=> Final(out).ok) /\ Final(out').lz = Final(out).lz
        /\ Level(Final(out')) = (IF control = 1 THEN 192 ELSE Level(Final(out))) /\ (NoEnd(out) => NoEnd(out'))
    BY <2>7, <1>5 DEF CopiesTaken
  <2>9. EncTypes'
    <3>1. coder' \in [srcPos : Nat, needInitState : BOOLEAN, needInitProp : BOOLEAN, lz : Lz] /\ saved' \in Lz
      BY <2>3, <1>3 DEF EncTypes
    <3>2. total' \in [unpack : Nat, pack : Nat]
      BY <2>3, <1>3 DEF EncTypes
    <3> QED
      BY <3>1, <3>2, <2>1, <1>3 DEF EncTypes
  <2>10. PlaceInv'
    <3>1. p <= size
      BY <2>2, <1>7
    <3> QED
      BY <3>1, <2>1, <2>4, <1>2, <1>3 DEF PlaceInv, InBlockAt, InBlock
  <2>11. OutputInv'
    <3>1. Written' = made + u
      BY <2>1, <2>2, <2>4, <1>4 DEF Written, InBlock
    <3>2. x <= 4 * (made + u)
      BY <2>2, <1>4, <1>6, <1>7
    <3>3. in.buf => x <= lim
      BY <2>2, <1>2, <1>6, <1>9 DEF Limit, InBlockAt
    <3>4. Chain(out', made + u, x)
      BY <2>2, <2>8, <1>6
    <3>5. Final(out).ok /\ NoEnd(out) /\ res = "none"
      BY <1>3 DEF OutputInv
    <3> QED
      BY <3>1, <3>2, <3>3, <3>4, <3>5, <2>1, <2>4, <2>8, <1>2 DEF OutputInv, InBlockAt
  <2>12. SameState'
    <3>1. /\ (coder.needInitProp <=> coder.needInitState) /\ (pos = 0 => coder.needInitState)
          /\ (pos > 0 /\ coder.needInitState => Level(Final(out)) = 192)
          /\ (~coder.needInitState => Level(Final(out)) = 0 /\ Final(out).lz = coder.lz)
      BY <1>2, <1>3 DEF SameState, InBlockAt
    <3>2. p > 0
      BY <2>2
    <3>3. coder'.needInitState => Level(Final(out')) = 192
      BY <3>1, <2>4, <2>5, <2>8
    <3>4. ~coder'.needInitState => Level(Final(out')) = 0 /\ Final(out').lz = coder'.lz
      BY <3>1, <2>4, <2>5, <2>8
    <3> QED
      BY <3>1, <3>2, <3>3, <3>4, <2>4 DEF SameState
  <2> QED
    BY <2>1, <2>9, <2>10, <2>11, <2>12 DEF EncInv
<1> QED
  BY <1>8, <1>9

\* One call of Lzma2EncInt_EncodeSubblock.
LEMMA SubblockInv == EncInv /\ Subblock => EncInv'
<1> SUFFICES ASSUME EncInv, Subblock PROVE EncInv'
  OBVIOUS
<1>1. encPc = "chunk" /\ UNCHANGED <<in, block>> /\ InBlock
  BY DEF Subblock, InBlock
<1>2. PICK n \in Nat, done \in Nat, pos \in Nat, size \in Nat, pack \in Nat, lim \in Nat :
        InBlockAt("chunk", n, done, pos, size, pack, lim)
  BY <1>1, InBlockNumbers
<1>3. EncTypes /\ PlaceInv /\ OutputInv /\ SameState
  BY <1>1 DEF EncInv
<1>4. PICK h \in Nat : h = HeaderSize /\ h <= 6
  BY DEF HeaderSize
<1>5. CASE in.buf /\ Limit < HeaderSize /\ Return("output_eof") /\ UNCHANGED <<coder, saved, total, out>>
  <2>1. lim < 4 * n + 11
    BY <1>2, <1>4, <1>5 DEF Limit, InBlockAt
  <2>2. in.outLim < 4 * in.size + 11
    BY <2>1, <1>2 DEF InBlockAt
  <2> QED
    BY <2>2, <1>1, <1>5, StopInv DEF Return
<1>6. CASE (\E c \in {"read", "write", "progress"} : Return(c)) /\ UNCHANGED <<coder, saved, total, out>>
  BY <1>1, <1>6, StopInv DEF Return
<1>7. CASE saved' = coder.lz /\ BlockRest = 0 /\ encPc' = "end" /\ UNCHANGED <<res, coder, total, out>>
  <2>1. pos = size
    BY <1>2, <1>7 DEF BlockRest, InBlockAt
  <2>2. EncTypes'
    BY <1>1, <1>3, <1>7 DEF EncTypes
  <2>3. PlaceInv'
    BY <2>1, <1>1, <1>2, <1>3, <1>7 DEF PlaceInv, InBlock, InBlockAt
  <2>4. Written' = Written
    BY <1>1, <1>7 DEF Written, InBlock
  <2>5. OutputInv'
    BY <2>4, <1>1, <1>3, <1>7 DEF OutputInv
  <2>6. SameState'
    BY <1>3, <1>7 DEF SameState
  <2> QED
    BY <2>2, <2>3, <2>5, <2>6, <1>7 DEF EncInv
<1>8. ASSUME saved' = coder.lz, BlockRest > 0, NEW u \in Codable, NEW k \in Packs,
             IF ~(in.buf /\ HeaderSize + k > Limit) /\ Worth(u, k) THEN StoreLzma(u, k) ELSE StoreCopies(u)
      PROVE  EncInv'
  <2>1. BlockRest \in Nat /\ UnpackMax \in Nat /\ k \in Nat
    BY <1>2, Lzma2EncAssumption DEF BlockRest, InBlockAt
  <2>2. u \in Nat /\ u >= 1 /\ u <= UnpackMax /\ u <= BlockRest
    <3>1. PICK r \in Nat, x \in Nat : r = BlockRest /\ x = UnpackMax
      BY <2>1
    <3>2. PICK m \in Nat : m = Min({x, r}) /\ m = IF x < r THEN x ELSE r
      BY MinOfTwo
    <3>3. r > 0 /\ x > 0
      BY <3>1, <1>8, Lzma2EncAssumption
    <3>4. \/ u \in CodedSizes /\ u <= x /\ u <= r
          \/ u = m
      <4>1. u \in {v \in CodedSizes : v <= UnpackMax /\ v <= BlockRest} \cup {Min({UnpackMax, BlockRest})}
        BY DEF Codable
      <4> QED
        BY <4>1, <3>1, <3>2, Zenon
    <3>5. CodedSizes \subseteq Nat \ {0}
      BY Lzma2EncAssumption
    <3>6. m >= 1 /\ m <= x /\ m <= r
      BY <3>2, <3>3
    <3>7. u \in Nat /\ u >= 1 /\ u <= x /\ u <= r
      <4>1. CASE u \in CodedSizes /\ u <= x /\ u <= r
        <5>1. u \in Nat /\ u # 0
          BY <4>1, <3>5
        <5> QED
          BY <4>1, <5>1
      <4>2. CASE u = m
        BY <4>2, <3>6
      <4> QED
        BY <4>1, <4>2, <3>4
    <3> QED
      BY <3>1, <3>7
  <2>3. CASE ~(in.buf /\ HeaderSize + k > Limit) /\ Worth(u, k)
    <3>1. Limit \in Int
      BY <1>2 DEF Limit, InBlockAt
    <3>2. in.buf => HeaderSize + k <= Limit
      BY <2>1, <2>3, <3>1, <1>4
    <3> QED
      BY <3>2, <2>1, <2>2, <2>3, <1>1, <1>8, StoreLzmaInv
  <2>4. CASE ~(~(in.buf /\ HeaderSize + k > Limit) /\ Worth(u, k))
    BY <2>2, <2>4, <1>1, <1>8, StoreCopiesInv
  <2> QED
    BY <2>3, <2>4
<1>9. CASE /\ saved' = coder.lz /\ BlockRest = 0 /\ in.buf /\ HeaderSize + FlushSize > Limit
           /\ Return("output_eof") /\ UNCHANGED <<coder, total, out>>
  <2>1. pos = size
    BY <1>2, <1>9 DEF BlockRest, InBlockAt
  <2>2. lim < 4 * n + 11
    BY <2>1, <1>2, <1>4, <1>9 DEF Limit, FlushSize, InBlockAt
  <2>3. in.outLim < 4 * in.size + 11
    BY <2>2, <1>2 DEF InBlockAt
  <2> QED
    BY <2>3, <1>1, <1>9, StopInv DEF Return
<1>10. CASE saved' = coder.lz /\ CodeNothing
  <2>1. CASE in.buf /\ HeaderSize + FlushSize > Limit
    BY <1>9, <1>10, <2>1 DEF CodeNothing
  <2>2. CASE ~(in.buf /\ HeaderSize + FlushSize > Limit)
    BY <1>7, <1>10, <2>2 DEF CodeNothing
  <2> QED
    BY <2>1, <2>2
<1>11. CASE saved' = coder.lz /\ CodeChunk
  BY <1>8, <1>11 DEF CodeChunk
<1> QED
  BY <1>5, <1>6, <1>10, <1>11 DEF Subblock


\* The end marker.
LEMMA EndDecoded ==
  ASSUME NEW e \in Decoder, e.ok, NEW c \in ChunkType, HasControl(c, 0)
  PROVE  Decoded(e, c).ok
<1>1. PICK q \in Parser : q = e.q
  BY DEF Decoder
<1>2. Heading(e, c) = Format!ControlByte(q, 0)
  BY <1>1 DEF Heading, HasControl
<1>3. Format!ControlByte(q, 0).state = "finished"
  BY ControlCases
<1>4. Continues(e, c)
  BY <1>2, <1>3 DEF Continues, HasControl
<1> QED
  BY <1>4, DecodedOK

LEMMA EndTaken ==
  ASSUME NEW s, NEW made \in Nat, NEW size \in Nat, Chain(s, made, size), Final(s).ok,
         NEW c, c = [control |-> 0, from |-> made, unpack |-> 0, pack |-> 0, before |-> <<>>]
  PROVE  Chain(Append(s, c), made, size + 1) /\ Final(Append(s, c)).ok /\ HasEnd(Append(s, c))
<1>1. <<>> \in Lz
  BY DEF Lz
<1>2. c \in ChunkType /\ c.control = 0 /\ c.from = made /\ c.unpack = 0
  BY <1>1 DEF ChunkType
<1>3. Size(c) = 1 /\ Fields(c)
  BY <1>2, Lzma2EncAssumption DEF Size, Fields, Format!IsLzma
<1>4. Chain(Append(s, c), made + c.unpack, size + Size(c)) /\ Final(Append(s, c)) = Decoded(Final(s), c)
  BY <1>2, <1>3, ChainGrows
<1>5. made + c.unpack = made
  BY <1>2
<1>6. Final(s) \in Decoder
  BY DEF Chain, Final
<1>7. Decoded(Final(s), c).ok
  <2>1. HasControl(c, 0)
    BY <1>2 DEF HasControl
  <2>2. c \in ChunkType
    BY <1>2
  <2> QED
    BY <2>1, <2>2, <1>6, EndDecoded
<1>8. PICK n \in Nat : n = Len(s) /\ s \in Seq(ChunkType)
  BY DEF Chain
<1>9. HasEnd(Append(s, c))
  <2>1. Len(Append(s, c)) = n + 1 /\ Append(s, c)[n + 1] = c
    BY <1>2, <1>8, ListGrows
  <2> QED
    BY <2>1, <1>2 DEF HasEnd
<1> QED
  BY <1>3, <1>4, <1>5, <1>7, <1>9

\* The end of a block, and of the last one.
LEMMA EndBlockInv == EncInv /\ EndBlock => EncInv'
<1> SUFFICES ASSUME EncInv, EndBlock PROVE EncInv'
  OBVIOUS
<1>1. encPc = "end" /\ InBlock /\ UNCHANGED <<in, coder, saved, block>>
  BY DEF EndBlock, InBlock
<1>2. PICK n \in Nat, done \in Nat, pos \in Nat, size \in Nat, pack \in Nat, lim \in Nat :
        InBlockAt("end", n, done, pos, size, pack, lim)
  BY <1>1, InBlockNumbers
<1>3. EncTypes /\ PlaceInv /\ OutputInv /\ SameState
  BY <1>1 DEF EncInv
<1>4. PICK made \in Nat : made = done + pos /\ total' = [total EXCEPT !.unpack = made]
  <2>1. PICK m \in Nat : m = done + pos
    OBVIOUS
  <2>2. total' = [total EXCEPT !.unpack = m]
    BY <2>1, <1>2 DEF EndBlock, InBlockAt
  <2> QED
    BY <2>1, <2>2
<1>5. total'.unpack = made /\ total'.pack = pack
  BY <1>2, <1>3, <1>4 DEF EncTypes, InBlockAt
<1>6. pos = size /\ made <= n
  BY <1>1, <1>2, <1>3, <1>4 DEF PlaceInv, InBlockAt
<1>7. total' \in [unpack : Nat, pack : Nat]
  BY <1>3, <1>4 DEF EncTypes
<1>8. Chain(out, made, pack) /\ Final(out).ok /\ NoEnd(out) /\ res = "none" /\ pack <= 4 * made /\ (in.buf => pack <= lim)
  BY <1>2, <1>3, <1>4 DEF OutputInv, InBlockAt
<1>9. CASE ~(IF in.stream THEN block.empty ELSE total'.unpack = in.size)
  <2>1. encPc' = "block" /\ UNCHANGED <<res, out>>
    BY <1>9 DEF EndBlock
  <2>2. EncTypes'
    BY <2>1, <1>1, <1>3, <1>7 DEF EncTypes
  <2>3. PlaceInv'
    BY <2>1, <1>1, <1>2, <1>3, <1>5, <1>6 DEF PlaceInv, InBlock, InBlockAt
  <2>4. Written' = made
    BY <2>1, <1>5 DEF Written, InBlock
  <2>5. OutputInv'
    BY <2>1, <2>4, <1>1, <1>2, <1>5, <1>8 DEF OutputInv, InBlockAt
  <2> QED
    BY <2>1, <2>2, <2>3, <2>5 DEF EncInv, InBlock
<1>10. CASE IF in.stream THEN block.empty ELSE total'.unpack = in.size
  <2>1. made = n
    BY <1>1, <1>2, <1>3, <1>4, <1>5, <1>6, <1>10 DEF PlaceInv, InBlockAt
  <2>2. PICK code \in {"ok", "output_eof"} : encPc' = "done" /\ res' = code
    BY <1>10 DEF EndBlock, Return
  <2>3. EncTypes'
    BY <2>2, <1>1, <1>3, <1>7 DEF EncTypes
  <2>4. PlaceInv'
    BY <2>2, <1>1, <1>2, <1>3, <1>5, <1>6 DEF PlaceInv, InBlock, InBlockAt
  <2>5. EndInv'
    <3>1. CASE ~in.finished
      <4>1. code = "ok" /\ out' = out
        BY <3>1, <1>10, <2>2 DEF EndBlock, Return
      <4>2. ~HasEnd(out)
        BY <1>8 DEF HasEnd, NoEnd
      <4>3. Chain(out', made, pack) /\ Final(out').ok /\ (in'.buf => pack <= in'.outLim) /\ made = in'.size /\ (HasEnd(out') <=> in'.finished)
        BY <3>1, <4>1, <4>2, <2>1, <1>1, <1>2, <1>8 DEF InBlockAt
      <4> QED
        BY <4>1, <4>3, <2>2 DEF EndInv
    <3>2. CASE in.finished /\ in.buf /\ Limit <= 0
      <4>1. code = "output_eof" /\ out' = out
        BY <3>2, <1>10, <2>2 DEF EndBlock, Return
      <4>2. lim < 4 * n + 11
        BY <3>2, <1>2, <1>6, <1>8 DEF Limit, InBlockAt
      <4>3. in'.outLim < 4 * in'.size + 11
        BY <4>2, <1>1, <1>2 DEF InBlockAt
      <4>4. Chain(out', made, pack) /\ Final(out').ok /\ (in'.buf => pack <= in'.outLim)
        BY <4>1, <1>1, <1>2, <1>8 DEF InBlockAt
      <4> QED
        BY <4>1, <4>3, <4>4, <2>2 DEF EndInv
    <3>3. CASE in.finished /\ ~(in.buf /\ Limit <= 0)
      <4>1. PICK c : c = [control |-> 0, from |-> made, unpack |-> 0, pack |-> 0, before |-> <<>>]
        OBVIOUS
      <4>2. code = "ok" /\ out' = Append(out, c)
        BY <3>3, <4>1, <1>2, <1>10, <2>1, <2>2 DEF EndBlock, Return, InBlockAt
      <4>3. Chain(out', made, pack + 1) /\ Final(out').ok /\ HasEnd(out')
        BY <4>1, <4>2, <1>8, EndTaken
      <4>4. in'.buf => pack + 1 <= in'.outLim
        BY <3>3, <1>1, <1>2 DEF Limit, InBlockAt
      <4>5. PICK x \in Nat : x = pack + 1
        OBVIOUS
      <4>6. made = in'.size /\ (HasEnd(out') <=> in'.finished)
        BY <3>3, <4>3, <1>1, <1>2, <2>1 DEF InBlockAt
      <4>7. Chain(out', made, x) /\ (in'.buf => x <= in'.outLim)
        BY <4>3, <4>4, <4>5
      <4> QED
        BY <4>2, <4>3, <4>6, <4>7, <2>2 DEF EndInv
    <3> QED
      BY <3>1, <3>2, <3>3
  <2> QED
    BY <2>2, <2>3, <2>4, <2>5 DEF EncInv, InBlock
<1> QED
  BY <1>9, <1>10
-----------------------------------------------------------------------------
(* What follows from the invariant                                         *)

\* The sums over what is written.
LEMMA ChainSums ==
  ASSUME NEW s, NEW made \in Nat, NEW size \in Nat, Chain(s, made, size)
  PROVE  /\ SumTo([i \in 1 .. Len(s) |-> s[i].unpack], Len(s)) = made
         /\ SumTo([i \in 1 .. Len(s) |-> Size(s[i])], Len(s)) = size
         /\ \A i \in 1 .. Len(s) : s[i].from = (IF i = 1 THEN 0 ELSE s[i - 1].from + s[i - 1].unpack)
         /\ \A i \in 1 .. Len(s) : Fields(s[i])
<1>1. PICK n \in Nat : n = Len(s) /\ s \in Seq(ChunkType)
  BY DEF Chain
<1>2. made = SumTo(Unpacks(s), n) /\ size = SumTo(Sizes(s), n)
  BY <1>1 DEF Chain
<1>3. \A i \in 1 .. n : s[i].from = SumTo(Unpacks(s), i - 1) /\ Fields(s[i])
  BY <1>1 DEF Chain
<1>4. ASSUME NEW i \in 1 .. n
      PROVE  s[i].from = (IF i = 1 THEN 0 ELSE s[i - 1].from + s[i - 1].unpack)
  <2>1. CASE i = 1
    <3>1. s[1].from = SumTo(Unpacks(s), 1 - 1)
      BY <2>1, <1>3
    <3>2. SumTo(Unpacks(s), 0) = 0
      BY SumSteps
    <3> QED
      BY <3>1, <3>2, <2>1
  <2>2. CASE i # 1
    <3>1. PICK j \in Nat : j = i - 2 /\ j + 1 = i - 1 /\ j + 1 \in 1 .. n
      BY <2>2
    <3>2. s[i].from = SumTo(Unpacks(s), j + 1)
      BY <1>3, <3>1
    <3>3. SumTo(Unpacks(s), j + 1) = SumTo(Unpacks(s), j) + Unpacks(s)[j + 1]
      BY SumSteps
    <3>4. Unpacks(s)[j + 1] = s[j + 1].unpack
      BY <1>1, <3>1 DEF Unpacks
    <3>5. s[j + 1].from = SumTo(Unpacks(s), j)
      <4>1. (j + 1) - 1 = j
        OBVIOUS
      <4> QED
        BY <4>1, <1>3, <3>1
    <3> QED
      BY <2>2, <3>1, <3>2, <3>3, <3>4, <3>5
  <2> QED
    BY <2>1, <2>2
<1> QED
  BY <1>1, <1>2, <1>3, <1>4 DEF Unpacks, Sizes

LEMMA ChunksDecodeHolds == EncInv => ChunksDecode
<1> SUFFICES ASSUME EncInv PROVE ChunksDecode
  OBVIOUS
<1>1. EncTypes /\ PlaceInv
  BY DEF EncInv
<1>2. PICK made \in Nat, size \in Nat :
        /\ Chain(out, made, size) /\ Final(out).ok /\ (in.buf => size <= in.outLim)
        /\ (encPc = "done" /\ res = "ok" => made = in.size /\ (HasEnd(out) <=> in.finished))
  <2>1. CASE encPc = "done"
    BY <2>1 DEF EncInv, EndInv
  <2>2. CASE encPc # "done"
    <3>1. OutputInv
      BY <2>2 DEF EncInv
    <3>2. PICK made \in Nat, size \in Nat : made = Written /\ size = total.pack
      BY <1>1 DEF EncTypes, Written
    <3>3. Chain(out, made, size) /\ Final(out).ok /\ (in.buf => size <= in.outLim)
      BY <3>1, <3>2 DEF OutputInv
    <3> QED
      BY <3>3, <2>2
  <2> QED
    BY <2>1, <2>2
<1>3. EncTypeOK
  BY <1>1 DEF EncTypes, PlaceInv, EncTypeOK
<1>4. StreamDecodes
  <2>1. \A i \in 1 .. Len(out) : out[i].from = (IF i = 1 THEN 0 ELSE out[i - 1].from + out[i - 1].unpack)
    BY <1>2, ChainSums
  <2> QED
    BY <2>1, <1>2 DEF StreamDecodes, Final
<1>5. OkMeansAll
  <2>1. SumTo([i \in 1 .. Len(out) |-> out[i].unpack], Len(out)) = made
    BY <1>2, ChainSums
  <2> QED
    BY <2>1, <1>2 DEF OkMeansAll, HasEnd
<1>6. FitsOutput
  <2>1. SumTo([i \in 1 .. Len(out) |-> Size(out[i])], Len(out)) = size
    BY <1>2, ChainSums
  <2>2. \A i \in 1 .. Len(out) : Fields(out[i])
    BY <1>2, ChainSums
  <2>3. \A i \in 1 .. Len(out) : IF Format!IsLzma(out[i]) THEN out[i].unpack <= UnpackMax /\ out[i].pack <= PackMax
                                 ELSE out[i].unpack <= CopyMax
    BY <2>2 DEF Fields
  <2> QED
    BY <2>1, <2>3, <1>2 DEF FitsOutput
<1>7. RoomIsEnough
  <2>1. PICK n \in Nat, lim \in Nat : n = in.size /\ lim = in.outLim
    BY <1>1 DEF EncTypes
  <2>2. res = "output_eof" => lim < 4 * n + 11
    <3>1. encPc # "done" => res = "none"
      BY DEF EncInv, OutputInv
    <3>2. encPc = "done" => (res = "output_eof" => lim < 4 * n + 11)
      BY <2>1 DEF EncInv, EndInv
    <3> QED
      BY <3>1, <3>2
  <2>3. res = "output_eof" => lim < n + 3 * n + 11
    BY <2>2
  <2> QED
    BY <2>1, <2>3 DEF RoomIsEnough, FlushSize
<1> QED
  BY <1>3, <1>4, <1>5, <1>6, <1>7 DEF ChunksDecode

\* A step that changes nothing.
LEMMA EncStutterInv == EncInv /\ UNCHANGED encVars => EncInv'
<1> SUFFICES ASSUME EncInv, UNCHANGED encVars PROVE EncInv'
  OBVIOUS
<1>1. UNCHANGED <<in, encPc, res, coder, saved, block, total, out>>
  BY DEF encVars
<1>2. EncTypes <=> EncTypes'
  BY <1>1 DEF EncTypes
<1>3. PlaceInv <=> PlaceInv'
  BY <1>1 DEF PlaceInv, InBlock
<1>4. OutputInv <=> OutputInv'
  BY <1>1 DEF OutputInv, Written, InBlock
<1>5. SameState <=> SameState'
  BY <1>1 DEF SameState
<1>6. EndInv <=> EndInv'
  BY <1>1 DEF EndInv
<1> QED
  BY <1>1, <1>2, <1>3, <1>4, <1>5, <1>6 DEF EncInv, InBlock

\* What Lzma2Enc_EncodeMt1 has written at any time is a chain of chunks that the
\* decoder takes with its LZMA state the same as the encoder's was; SZ_OK means
\* the whole input, and the end marker if it was asked for; the output and the
\* fields of the headers hold what they are given; and a buffer with room for
\* copies of everything, and a header and a flush more, is never too small.
THEOREM EncoderIsCorrect == EncSpec => []ChunksDecode
<1>1. EncInit => EncInv
  BY EncInitInv
<1>2. EncInv /\ [EncNext]_encVars => EncInv'
  BY StartBlockInv, SubblockInv, EndBlockInv, EncStutterInv DEF EncNext, EncDone
<1>3. EncInv => ChunksDecode
  BY ChunksDecodeHolds
<1> QED
  BY <1>1, <1>2, <1>3, PTL DEF EncSpec
=============================================================================
