------------------------ MODULE DecompressObjProofs ------------------------
(***************************************************************************)
(* The streaming decompressor of pylzma_decompressobj.c, for every stream  *)
(* and all sizes of the pieces and of the buffers: where each byte of the  *)
(* input is (TailInv), how much output was returned (OutputInv), and what  *)
(* the decoder has made of the bytes it took (DecoderOK).                  *)
(***************************************************************************)
EXTENDS DecompressObj, SequenceTheorems, WellFoundedInduction, TLAPS

-----------------------------------------------------------------------------
(* The inductive invariant                                                 *)

DecoderRec == [tables : BOOLEAN, mode : {"zero", "live", "finished", "error"},
               consumed : 0 .. PayloadLen, produced : 0 .. MaxYield * PayloadLen]

\* What a decoder has produced is known from the bytes it took; at the end mark
\* that is all; it fails only when it has taken the damaged byte.
DecoderOK(d) ==
  /\ d \in DecoderRec
  /\ stream.mark # 0 => d.consumed <= stream.mark
  /\ d.produced <= stream.reach[d.consumed]
  /\ d.mode = "finished" =>
       stream.mark # 0 /\ d.consumed = stream.mark /\ d.produced = stream.reach[stream.mark]
  /\ d.mode = "error" => stream.damage # 0 /\ stream.damage <= d.consumed

\* As long as no call failed the tail holds the bytes that were not taken; it is
\* NULL when there are none.
TailInv ==
  last.result = "bytes" =>
    /\ Taken <= fed /\ unconsumed_length = fed - Taken
    /\ unconsumed_tail = IF unconsumed_length = 0 THEN NULL ELSE Bytes(Taken, fed)

\* ... and what was produced is counted and returned, or in the buffer of flush().
OutputInv ==
  /\ last.result = "bytes" =>
       /\ need_properties => total_out = 0 /\ fed < PropsLen
       /\ ~need_properties => total_out = dec.produced /\ dec.mode \in {"live", "finished"}
       /\ total_out = delivered + (IF flushing = NULL THEN 0 ELSE flushing.outsize)
  /\ last.result = "bytes" \/ flushing = NULL

\* flush() runs no decoder that a reset left, and an exception has its cause in
\* what was passed.
CauseInv ==
  \/ MayFlushStale
  \/ /\ flushing # NULL => ~LeftOver(dec)
     /\ last.result # "bytes" => Contract!MayRaise(last.result, fed)

ObjectInv ==
  /\ TypeOK /\ DecoderOK(dec) /\ (dec.tables <=> ~need_properties)
  /\ TailInv /\ OutputInv /\ last.result # "MemoryError"
  /\ FlushDrains /\ SoundInputAccepted /\ CauseInv
-----------------------------------------------------------------------------
(* Numbers and bytes                                                       *)

\* Every set of natural numbers has a least element, whatever its size.
LEMMA LeastElement ==
  ASSUME NEW T, T \subseteq Nat, T # {}
  PROVE  \E x \in T : \A y \in T : x <= y
<1>1. IsWellFoundedOn(OpToRel(<, Nat), Nat)
  BY NatLessThanWellFounded
<1>2. PICK x \in T : \A y \in T : ~(<<y, x>> \in OpToRel(<, Nat))
  BY <1>1, WFMin
<1>3. \A y \in T : ~(y < x)
  BY <1>2 DEF OpToRel
<1> QED
  BY <1>3

\* ... and Min finds it.
LEMMA MinIsLeast ==
  ASSUME NEW T, T \subseteq Nat, T # {}
  PROVE  Min(T) \in T /\ \A y \in T : Min(T) <= y
BY LeastElement DEF Min

\* What never falls from one index to the next never falls at all.
LEMMA NeverFalls ==
  ASSUME NEW n \in Nat, NEW f \in [0 .. n -> Nat], \A k \in 1 .. n : f[k - 1] <= f[k],
         NEW a \in 0 .. n, NEW b \in a .. n
  PROVE  f[a] <= f[b]
<1> DEFINE Lower == {k \in a .. n : f[k] < f[a]}
<1>1. SUFFICES ASSUME Lower # {} PROVE FALSE
  <2>1. b \in a .. n /\ f[a] \in Nat /\ f[b] \in Nat
    OBVIOUS
  <2>2. b \notin Lower => f[a] <= f[b]
    BY <2>1
  <2> QED
    BY <1>1, <2>2
<1>2. Lower \subseteq Nat
  OBVIOUS
<1>3. PICK k \in Lower : \A j \in Lower : k <= j
  BY <1>1, <1>2, LeastElement
<1>4. k # a /\ k \in 1 .. n /\ k - 1 \in a .. n
  OBVIOUS
<1>5. f[k - 1] < f[a]
  BY <1>3, <1>4
<1> QED
  BY <1>3, <1>4, <1>5

\* Bytes(m, n) are n - m numbers.
LEMMA BytesProperties ==
  ASSUME NEW m \in Nat, NEW n \in Nat, m <= n
  PROVE  /\ Bytes(m, n) \in Seq(0 .. n) /\ Bytes(m, n) \in Seq(Nat) /\ Len(Bytes(m, n)) = n - m
         /\ \A i \in 1 .. n - m : Bytes(m, n)[i] = m + i
BY DEF Bytes

\* There are none only between a position and itself.
LEMMA BytesEmpty ==
  ASSUME NEW m \in Nat, NEW n \in Nat, m <= n
  PROVE  Bytes(m, n) = <<>> <=> m = n
<1>1. Bytes(m, n) \in Seq(Nat) /\ Len(Bytes(m, n)) = n - m
  BY BytesProperties
<1>2. Bytes(m, n) = <<>> <=> Len(Bytes(m, n)) = 0
  BY <1>1, EmptySeq
<1> QED
  BY <1>1, <1>2

\* Pieces that follow each other.
LEMMA BytesJoin ==
  ASSUME NEW m \in Nat, NEW k \in Nat, NEW n \in Nat, m <= k, k <= n
  PROVE  Bytes(m, k) \o Bytes(k, n) = Bytes(m, n)
<1> DEFINE s == Bytes(m, k)
           t == Bytes(k, n)
<1>1. /\ s \in Seq(Nat) /\ t \in Seq(Nat) /\ Bytes(m, n) \in Seq(Nat)
      /\ Len(s) = k - m /\ Len(t) = n - k /\ Len(Bytes(m, n)) = n - m
      /\ \A i \in 1 .. k - m : s[i] = m + i
      /\ \A i \in 1 .. n - k : t[i] = k + i
      /\ \A i \in 1 .. n - m : Bytes(m, n)[i] = m + i
  <2>1. m <= n
    OBVIOUS
  <2>2. s \in Seq(Nat) /\ Len(s) = k - m /\ \A i \in 1 .. k - m : s[i] = m + i
    BY BytesProperties
  <2>3. t \in Seq(Nat) /\ Len(t) = n - k /\ \A i \in 1 .. n - k : t[i] = k + i
    BY BytesProperties
  <2>4. Bytes(m, n) \in Seq(Nat) /\ Len(Bytes(m, n)) = n - m /\ \A i \in 1 .. n - m : Bytes(m, n)[i] = m + i
    BY <2>1, BytesProperties
  <2> QED
    BY <2>2, <2>3, <2>4
<1> HIDE DEF s, t
<1>2. /\ s \o t \in Seq(Nat) /\ Len(s \o t) = (k - m) + (n - k)
      /\ \A i \in 1 .. (k - m) + (n - k) : (s \o t)[i] = IF i <= k - m THEN s[i] ELSE t[i - (k - m)]
  <2>1. /\ s \o t \in Seq(Nat) /\ Len(s \o t) = Len(s) + Len(t)
        /\ \A i \in 1 .. Len(s) + Len(t) : (s \o t)[i] = IF i <= Len(s) THEN s[i] ELSE t[i - Len(s)]
    BY <1>1, ConcatProperties
  <2> QED
    BY <2>1, <1>1
<1>3. \A i \in 1 .. n - m : (s \o t)[i] = Bytes(m, n)[i]
  <2>1. TAKE i \in 1 .. n - m
  <2>2. Bytes(m, n)[i] = m + i /\ i \in 1 .. (k - m) + (n - k)
    BY <1>1
  <2>3. CASE i <= k - m
    BY <2>2, <2>3, <1>1, <1>2
  <2>4. CASE i > k - m
    <3>1. i - (k - m) \in 1 .. n - k
      BY <2>4
    <3>2. t[i - (k - m)] = k + (i - (k - m))
      BY <3>1, <1>1
    <3>3. (s \o t)[i] = t[i - (k - m)]
      BY <2>2, <2>4, <1>2
    <3> QED
      BY <2>2, <3>2, <3>3
  <2>5. i <= k - m \/ i > k - m
    OBVIOUS
  <2> QED
    BY <2>3, <2>4, <2>5
<1>4. Len(s \o t) = Len(Bytes(m, n))
  BY <1>1, <1>2
<1>5. s \o t = Bytes(m, n)
  BY <1>1, <1>2, <1>3, <1>4, SeqEqual
<1> QED
  BY <1>5 DEF s, t

\* What is left when j bytes were taken.
LEMMA BytesRest ==
  ASSUME NEW m \in Nat, NEW n \in Nat, NEW j \in Nat, m + j <= n
  PROVE  SubSeq(Bytes(m, n), j + 1, n - m) = Bytes(m + j, n)
<1>1. /\ Bytes(m, n) \in Seq(Nat) /\ Len(Bytes(m, n)) = n - m
      /\ \A i \in 1 .. n - m : Bytes(m, n)[i] = m + i
  BY BytesProperties
<1>2. /\ Bytes(m + j, n) \in Seq(Nat) /\ Len(Bytes(m + j, n)) = n - (m + j)
      /\ \A i \in 1 .. n - (m + j) : Bytes(m + j, n)[i] = m + j + i
  <2>1. m + j \in Nat
    OBVIOUS
  <2> QED
    BY <2>1, BytesProperties
<1>3. \A i \in j + 1 .. n - m : Bytes(m, n)[i] \in Nat
  BY <1>1
<1>4. /\ SubSeq(Bytes(m, n), j + 1, n - m) \in Seq(Nat)
      /\ Len(SubSeq(Bytes(m, n), j + 1, n - m)) = n - (m + j)
      /\ \A i \in 1 .. n - (m + j) : SubSeq(Bytes(m, n), j + 1, n - m)[i] = Bytes(m, n)[j + i]
  <2>1. j + 1 \in Int /\ n - m \in Int
    OBVIOUS
  <2>2. /\ SubSeq(Bytes(m, n), j + 1, n - m) \in Seq(Nat)
        /\ Len(SubSeq(Bytes(m, n), j + 1, n - m)) =
             IF j + 1 <= n - m THEN (n - m) - (j + 1) + 1 ELSE 0
        /\ \A i \in 1 .. (n - m) - (j + 1) + 1 :
             SubSeq(Bytes(m, n), j + 1, n - m)[i] = Bytes(m, n)[(j + 1) + i - 1]
    BY <2>1, <1>3, SubSeqProperties
  <2>3. (n - m) - (j + 1) + 1 = n - (m + j) /\ \A i \in Nat : (j + 1) + i - 1 = j + i
    OBVIOUS
  <2> QED
    BY <2>2, <2>3
<1>5. \A i \in 1 .. n - (m + j) :
        SubSeq(Bytes(m, n), j + 1, n - m)[i] = Bytes(m + j, n)[i]
  <2>1. TAKE i \in 1 .. n - (m + j)
  <2>2. j + i \in 1 .. n - m
    OBVIOUS
  <2> QED
    BY <2>2, <1>1, <1>2, <1>4
<1> QED
  BY <1>2, <1>4, <1>5, SeqEqual
-----------------------------------------------------------------------------
(* The stream and the decoder                                              *)

\* More bytes determine no less output, and none comes after the end mark.
LEMMA StreamFacts ==
  ASSUME NEW s \in Streams
  PROVE  /\ s.reach \in [0 .. PayloadLen -> 0 .. MaxYield * PayloadLen] /\ s.reach[0] = 0
         /\ \A a \in 0 .. PayloadLen : \A b \in a .. PayloadLen : s.reach[a] <= s.reach[b]
         /\ s.mark \in 0 .. PayloadLen /\ s.damage \in 0 .. PayloadLen /\ s.badProps \in BOOLEAN
         /\ s.mark # 0 => \A k \in s.mark .. PayloadLen : s.reach[k] = s.reach[s.mark]
         /\ s.damage # 0 => s.reach[s.damage] = s.reach[s.damage - 1]
<1>1. /\ s.reach \in [0 .. PayloadLen -> 0 .. MaxYield * PayloadLen] /\ s.reach[0] = 0
      /\ \A k \in 1 .. PayloadLen : s.reach[k] - s.reach[k - 1] \in 0 .. MaxYield
      /\ s.mark \in Marks /\ s.damage \in Damages /\ s.badProps \in BOOLEAN
      /\ \A e \in {s.mark, s.damage} \ {0} : \A k \in e .. PayloadLen : s.reach[k] = s.reach[e - 1]
  BY DEF Streams
<1>2. /\ PayloadLen \in Nat /\ MaxYield \in Nat
      /\ s.mark \in 0 .. PayloadLen /\ s.damage \in 0 .. PayloadLen
  BY <1>1, SizesAssumption
<1>3. /\ s.reach \in [0 .. PayloadLen -> Nat]
      /\ \A k \in 1 .. PayloadLen : s.reach[k - 1] <= s.reach[k]
  <2>1. s.reach \in [0 .. PayloadLen -> Nat]
    BY <1>1
  <2>2. \A k \in 1 .. PayloadLen : s.reach[k - 1] <= s.reach[k]
    <3>1. TAKE k \in 1 .. PayloadLen
    <3>2. s.reach[k] \in Nat /\ s.reach[k - 1] \in Nat /\ s.reach[k] - s.reach[k - 1] \in Nat
      BY <2>1, <1>1, <1>2
    <3> QED
      BY <3>2
  <2> QED
    BY <2>1, <2>2
<1>4. \A a \in 0 .. PayloadLen : \A b \in a .. PayloadLen : s.reach[a] <= s.reach[b]
  BY <1>2, <1>3, NeverFalls
<1>5. s.mark # 0 => \A k \in s.mark .. PayloadLen : s.reach[k] = s.reach[s.mark]
  <2>1. SUFFICES ASSUME s.mark # 0, NEW k \in s.mark .. PayloadLen
                 PROVE  s.reach[k] = s.reach[s.mark]
    OBVIOUS
  <2>2. s.mark \in {s.mark, s.damage} \ {0} /\ s.mark \in s.mark .. PayloadLen
    BY <2>1, <1>2
  <2>3. s.reach[k] = s.reach[s.mark - 1] /\ s.reach[s.mark] = s.reach[s.mark - 1]
    BY <2>1, <2>2, <1>1
  <2> QED
    BY <2>3
<1>6. s.damage # 0 => s.reach[s.damage] = s.reach[s.damage - 1]
  <2>1. s.damage # 0 => s.damage \in {s.mark, s.damage} \ {0} /\ s.damage \in s.damage .. PayloadLen
    BY <1>2
  <2> QED
    BY <2>1, <1>1
<1> QED
  BY <1>1, <1>2, <1>4, <1>5, <1>6

\* What becomes of the decoder d when it is given the next n bytes and room for
\* output: if it does not fill the room and does not fail, it has taken all and
\* produced what the bytes determine.
Decoded(d, a, n, room) ==
  /\ DecoderOK(a) /\ a.tables = d.tables
  /\ a.mode \in {"live", "finished", "error"}
  /\ a.consumed \in d.consumed .. d.consumed + n
  /\ a.produced \in d.produced .. d.produced + room
  /\ a.mode # "error" /\ a.produced < d.produced + room => a.produced = stream.reach[d.consumed + n]

\* DecodeLive takes a part of the input, never goes behind the end mark and fails
\* at the damage only.
LEMMA DecodeLiveSound ==
  ASSUME stream \in Streams, NEW d, DecoderOK(d), d.mode = "live", d.tables,
         NEW n \in Nat, d.consumed + n <= PayloadLen, NEW room \in Nat \ {0}
  PROVE  Decoded(d, DecodeLive(d, n, room), n, room)
<1> DEFINE reach == stream.reach
           mark == stream.mark
           damage == stream.damage
           c == d.consumed
           p == d.produced
           most == MaxYield * PayloadLen
           end == IF mark = 0 THEN PayloadLen ELSE mark
           e == Min({c + n, end})
           full == Enough(d, e, room)
           damaged == damage \in c + 1 .. e
           a == DecodeLive(d, n, room)
<1>1. /\ PayloadLen \in Nat /\ most \in Nat
      /\ reach \in [0 .. PayloadLen -> 0 .. most]
      /\ \A i \in 0 .. PayloadLen : \A j \in i .. PayloadLen : reach[i] <= reach[j]
      /\ mark \in 0 .. PayloadLen /\ damage \in 0 .. PayloadLen
      /\ mark # 0 => \A i \in mark .. PayloadLen : reach[i] = reach[mark]
      /\ damage # 0 => reach[damage] = reach[damage - 1]
  BY StreamFacts, SizesAssumption
<1>2. /\ c \in 0 .. PayloadLen /\ p \in 0 .. most /\ p <= reach[c] /\ (mark # 0 => c <= mark)
      /\ d.tables = TRUE /\ c + n <= PayloadLen
  BY DEF DecoderOK, DecoderRec
<1>3. \A k : k \in full <=> /\ k \in c .. e /\ reach[k] >= p + room
                            /\ damage \notin c + 1 .. k
  BY DEF Enough
<1>4. a = LET k == IF full # {} THEN Min(full) ELSE IF damaged THEN damage ELSE e
              out == IF full # {} THEN room ELSE reach[k] - p
          IN [tables |-> TRUE, consumed |-> k, produced |-> p + out,
              mode |-> IF full # {} THEN "live" ELSE IF damaged THEN "error"
                       ELSE IF mark # 0 /\ k = mark THEN "finished" ELSE "live"]
  BY DEF DecodeLive
<1>5. SUFFICES /\ a \in DecoderRec /\ a.tables /\ a.mode # "zero"
               /\ mark # 0 => a.consumed <= mark
               /\ a.produced <= reach[a.consumed]
               /\ a.mode = "finished" => mark # 0 /\ a.consumed = mark /\ a.produced = reach[mark]
               /\ a.mode = "error" => damage # 0 /\ damage <= a.consumed
               /\ a.consumed \in c .. c + n /\ a.produced \in p .. p + room
               /\ a.mode # "error" /\ a.produced < p + room => a.produced = reach[c + n]
  BY <1>2 DEF Decoded, DecoderOK, DecoderRec
<1>6. /\ e \in c .. c + n /\ e \in 0 .. PayloadLen /\ (mark # 0 => e <= mark)
      /\ e < c + n => mark # 0 /\ e = mark
  <2>1. end \in c .. PayloadLen /\ (mark # 0 => end = mark) /\ (mark = 0 => end = PayloadLen)
    BY <1>1, <1>2
  <2>2. end \in Nat /\ c + n \in Nat
    BY <1>1, <1>2, <2>1
  <2>3. {c + n, end} \subseteq Nat /\ {c + n, end} # {}
    BY <2>2
  <2>4. e \in {c + n, end} /\ e <= c + n /\ e <= end
    BY <2>3, MinIsLeast
  <2> HIDE DEF reach, mark, damage, c, p, most, end, e
  <2> QED
    BY <2>1, <2>2, <2>4, <1>1, <1>2
<1> HIDE DEF reach, mark, damage, c, p, most, end, e, full, a
<1>7. CASE full # {}
  <2>1. full \subseteq Nat
    BY <1>1, <1>2, <1>3
  <2>2. PICK k : k = Min(full)
    OBVIOUS
  <2>3. k \in full
    BY <1>7, <2>1, <2>2, MinIsLeast
  <2>4. k \in c .. e /\ reach[k] >= p + room
    BY <2>3, <1>3
  <2>5. a = [tables |-> TRUE, consumed |-> k, produced |-> p + room, mode |-> "live"]
    BY <1>4, <1>7, <2>2
  <2>6. k \in 0 .. PayloadLen /\ k \in c .. c + n /\ (mark # 0 => k <= mark)
    BY <2>4, <1>1, <1>2, <1>6
  <2>7. reach[k] \in 0 .. most
    BY <2>6, <1>1
  <2>8. p + room \in 0 .. most
    BY <2>4, <2>7, <1>1, <1>2
  <2>9. a \in DecoderRec
    BY <2>5, <2>6, <2>8 DEF DecoderRec, most
  <2> QED
    BY <2>4, <2>5, <2>6, <2>7, <2>9, <1>1, <1>2
<1>8. CASE full = {}
  <2>1. PICK k : k = IF damaged THEN damage ELSE e
    OBVIOUS
  <2>2. k \in c .. e /\ (damaged => damage \in c + 1 .. e /\ damage # 0)
    BY <2>1, <1>6, <1>2, <1>1
  <2>3. PICK m : m = IF damaged THEN "error" ELSE IF mark # 0 /\ k = mark THEN "finished" ELSE "live"
    OBVIOUS
  <2>4. a = [tables |-> TRUE, consumed |-> k, produced |-> p + (reach[k] - p), mode |-> m]
    BY <1>4, <1>8, <2>1, <2>3
  <2>5. k \in 0 .. PayloadLen /\ k \in c .. c + n /\ (mark # 0 => k <= mark)
    BY <2>2, <1>1, <1>2, <1>6
  <2>6. reach[k] \in 0 .. most /\ reach[c] \in 0 .. most /\ reach[c] <= reach[k]
    <3>1. k \in c .. PayloadLen
      BY <2>5, <1>2
    <3> QED
      BY <3>1, <2>5, <1>1, <1>2
  <2>7. reach[k] <= p + room
    <3>1. CASE damaged
      <4>1. k = damage /\ damage \in c + 1 .. e /\ damage # 0
        BY <3>1, <2>1, <2>2
      <4>2. damage - 1 \in c .. e /\ damage \notin c + 1 .. damage - 1 /\ damage - 1 \in 0 .. PayloadLen
        BY <4>1, <1>1, <1>2, <1>6
      <4>3. ~(reach[damage - 1] >= p + room)
        BY <4>2, <1>3, <1>8
      <4>4. reach[damage - 1] \in 0 .. most
        BY <4>2, <1>1
      <4>5. reach[k] = reach[damage - 1]
        BY <4>1, <1>1
      <4> QED
        BY <4>3, <4>4, <4>5, <1>2
    <3>2. CASE ~damaged
      <4>1. k = e /\ damage \notin c + 1 .. e /\ e \in c .. e
        BY <3>2, <2>1, <1>6, <1>2
      <4>2. ~(reach[k] >= p + room)
        BY <4>1, <1>3, <1>8
      <4> QED
        BY <4>2, <2>6, <1>2
    <3> QED
      BY <3>1, <3>2
  <2>8. ~damaged => reach[k] = reach[c + n]
    <3>1. SUFFICES ASSUME ~damaged PROVE reach[k] = reach[c + n]
      OBVIOUS
    <3>2. k = e
      BY <3>1, <2>1
    <3>3. CASE e = c + n
      BY <3>2, <3>3
    <3>4. CASE e < c + n
      <4>1. mark # 0 /\ e = mark /\ c + n \in mark .. PayloadLen
        BY <3>4, <1>1, <1>2, <1>6
      <4> QED
        BY <4>1, <3>2, <1>1
    <3>5. e = c + n \/ e < c + n
      BY <1>6, <1>2
    <3> QED
      BY <3>3, <3>4, <3>5
  <2>9. reach[k] \in p .. p + room /\ p + (reach[k] - p) = reach[k]
    BY <2>6, <2>7, <1>2
  <2>10. m \in {"live", "finished", "error"}
    BY <2>3
  <2>11. a = [tables |-> TRUE, consumed |-> k, produced |-> reach[k], mode |-> m]
    BY <2>4, <2>9
  <2>12. a \in DecoderRec
    BY <2>5, <2>6, <2>10, <2>11 DEF DecoderRec, most
  <2>13. m = "finished" => mark # 0 /\ k = mark
    BY <2>3
  <2>14. /\ m = "error" <=> damaged
         /\ damaged => damage = k /\ damage <= k
    BY <2>1, <2>2, <2>3, <1>1
  <2> HIDE DEF damaged
  <2> QED
    BY <2>2, <2>5, <2>6, <2>8, <2>9, <2>10, <2>11, <2>12, <2>13, <2>14
<1> QED
  BY <1>7, <1>8

\* So does DecodeToBuf with the next bytes of the stream, which says nothing more
\* when the end mark was seen.
LEMMA DecodeToBufSound ==
  ASSUME stream \in Streams, NEW d, DecoderOK(d), d.mode \in {"live", "finished"}, d.tables,
         NEW n \in Nat, d.consumed + n <= PayloadLen, NEW room \in Nat \ {0}
  PROVE  Decoded(d, DecodeToBuf(d, Bytes(PropsLen + d.consumed, PropsLen + d.consumed + n), room), n, room)
<1> DEFINE input == Bytes(PropsLen + d.consumed, PropsLen + d.consumed + n)
<1>1. /\ d.consumed \in Nat /\ d.produced \in Nat /\ PropsLen \in Nat /\ PayloadLen \in Nat
      /\ d.produced <= stream.reach[d.consumed]
  BY SizesAssumption DEF DecoderOK, DecoderRec
<1>2. Len(input) = n
  <2>1. PropsLen + d.consumed \in Nat /\ PropsLen + d.consumed + n \in Nat
    BY <1>1
  <2>2. Len(input) = (PropsLen + d.consumed + n) - (PropsLen + d.consumed)
    <3>1. PropsLen + d.consumed <= PropsLen + d.consumed + n
      BY <1>1
    <3> QED
      BY <3>1, <2>1, BytesProperties
  <2> QED
    BY <2>2, <1>1
<1>3. CASE d.mode = "live"
  <2>1. DecodeToBuf(d, input, room) = DecodeLive(d, n, room)
    BY <1>2, <1>3 DEF DecodeToBuf
  <2> QED
    BY <1>3, <2>1, DecodeLiveSound
<1>4. CASE d.mode = "finished"
  <2>1. DecodeToBuf(d, input, room) = d
    BY <1>4 DEF DecodeToBuf
  <2>2. stream.mark # 0 /\ d.consumed = stream.mark /\ d.produced = stream.reach[stream.mark]
    BY <1>4 DEF DecoderOK
  <2>3. d.consumed + n \in stream.mark .. PayloadLen
    BY <2>2, <1>1
  <2>4. d.produced = stream.reach[d.consumed + n]
    BY <2>2, <2>3, StreamFacts
  <2>5. d.consumed \in d.consumed .. d.consumed + n /\ d.produced \in d.produced .. d.produced + room
    BY <1>1
  <2> QED
    BY <1>4, <2>1, <2>4, <2>5 DEF Decoded
<1> QED
  BY <1>3, <1>4

-----------------------------------------------------------------------------
(* The steps                                                               *)

\* The constants and the variables that most steps need.
LEMMA Sizes ==
  /\ PropsLen \in Nat \ {0} /\ PayloadLen \in Nat /\ MaxYield * PayloadLen \in Nat
  /\ Total \in Nat /\ Total = PropsLen + PayloadLen
  /\ \A n \in ChunkSizes : n \in Nat
  /\ \A b \in BufSizes : b \in Nat \ {0}
  /\ \A s \in Seq(Nat) : s # NULL
BY SizesAssumption DEF Total

\* A step takes back nothing of what was returned, and returns nothing with an
\* exception.
GivesMore == delivered <= delivered' /\ (last'.result # "bytes" => delivered' = delivered)

\* At the beginning.
LEMMA InitObject ==
  ASSUME Init PROVE ObjectInv
<1>1. /\ stream \in Streams /\ fed = 0 /\ unconsumed_tail = NULL /\ unconsumed_length = 0
      /\ need_properties = TRUE /\ max_length \in {-1} \cup MaxLengths /\ total_out = 0
      /\ dec = [tables |-> FALSE, mode |-> "zero", consumed |-> 0, produced |-> 0]
      /\ flushing = NULL /\ delivered = 0 /\ last = [call |-> "none", result |-> "bytes", n |-> 0]
  BY DEF Init, Nothing
<1>2. stream.reach[0] = 0
  BY <1>1, StreamFacts
<1>3. dec \in DecoderRec
  BY <1>1, Sizes DEF DecoderRec
<1>4. DecoderOK(dec)
  <2>1. dec.consumed = 0 /\ dec.produced = 0 /\ dec.mode = "zero"
    BY <1>1
  <2>2. stream.mark # 0 => dec.consumed <= stream.mark
    BY <1>1, <2>1, StreamFacts, Sizes
  <2> QED
    BY <2>1, <2>2, <1>2, <1>3 DEF DecoderOK
<1>5. TypeOK
  BY <1>1, <1>3, Sizes DEF TypeOK, DecoderRec
<1>6. TailInv /\ OutputInv
  BY <1>1, Sizes DEF TailInv, OutputInv, Taken
<1> QED
  BY <1>1, <1>4, <1>5, <1>6 DEF ObjectInv, FlushDrains, SoundInputAccepted, CauseInv

\* Where the bytes are before a call of decompress, and after the new ones were
\* appended.
LEMMA BeforeDecompress ==
  ASSUME ObjectInv, ~MayStartEmpty, NEW n \in ChunkSizes, CanPass(n)
  PROVE  /\ last.result = "bytes" /\ flushing = NULL
         /\ fed \in Nat /\ n \in Nat /\ fed + n \in 1 .. Total
         /\ Taken \in 0 .. fed /\ unconsumed_length = fed - Taken
         /\ NextIn(n) = Bytes(Taken, fed + n)
         /\ Joined(n) = IF unconsumed_length = 0 THEN NULL ELSE Bytes(Taken, fed + n)
         /\ delivered = total_out
<1>1. /\ last.result = "bytes" /\ flushing = NULL /\ fed + n <= Total /\ ~(n = 0 /\ fed = 0)
  BY DEF CanPass, Usable
<1>2. /\ fed \in Nat /\ n \in Nat /\ dec.consumed \in Nat /\ delivered \in 0 .. total_out /\ total_out \in Nat
      /\ need_properties \in BOOLEAN
  BY Sizes DEF ObjectInv, TypeOK
<1>3. Taken \in Nat
  BY <1>2, Sizes DEF Taken
<1>4. /\ Taken <= fed /\ unconsumed_length = fed - Taken
      /\ unconsumed_tail = IF unconsumed_length = 0 THEN NULL ELSE Bytes(Taken, fed)
  BY <1>1 DEF ObjectInv, TailInv
<1>5. delivered = total_out
  BY <1>1, <1>2 DEF ObjectInv, OutputInv
<1>6. CASE unconsumed_length = 0
  <2>1. Taken = fed
    BY <1>2, <1>3, <1>4, <1>6
  <2> QED
    BY <1>1, <1>2, <1>3, <1>4, <1>5, <1>6, <2>1, Sizes DEF NextIn, Joined
<1>7. CASE unconsumed_length # 0
  <2>1. unconsumed_length > 0
    BY <1>2, <1>3, <1>4, <1>7
  <2>2. unconsumed_tail \o Bytes(fed, fed + n) = Bytes(Taken, fed + n)
    <3>1. fed + n \in Nat /\ fed <= fed + n
      BY <1>2
    <3> QED
      BY <3>1, <1>2, <1>3, <1>4, <1>7, BytesJoin
  <2> QED
    BY <1>1, <1>2, <1>3, <1>4, <1>5, <1>7, <2>1, <2>2, Sizes DEF NextIn, Joined
<1> QED
  BY <1>6, <1>7

\* The decoder is called with m bytes; what it does not take stays in the tail.
LEMMA DecodeSomeKeeps ==
  ASSUME stream \in Streams, stream' = stream, max_length' = max_length,
         max_length \in {-1} \cup MaxLengths,
         NEW d, DecoderOK(d), d.mode \in {"live", "finished"}, d.tables,
         NEW m \in Nat \ {0}, fed' = PropsLen + d.consumed + m, fed' <= Total,
         ~need_properties', flushing' = NULL, need_properties' \in BOOLEAN,
         total_out = d.produced, delivered = d.produced,
         NEW kept, kept \in {NULL, Bytes(PropsLen + d.consumed, PropsLen + d.consumed + m)},
         NEW bufsize \in BufSizes,
         DecodeSome(d, Bytes(PropsLen + d.consumed, PropsLen + d.consumed + m), kept, bufsize)
  PROVE  ObjectInv' /\ GivesMore
<1> DEFINE from == PropsLen + d.consumed
           input == Bytes(from, from + m)
<1>1. PICK a : a = DecodeToBuf(d, input, bufsize)
  OBVIOUS
<1>2. /\ d.consumed \in 0 .. PayloadLen /\ d.produced \in 0 .. MaxYield * PayloadLen /\ from \in Nat
      /\ from + m \in Nat /\ from + m <= Total /\ bufsize \in Nat \ {0} /\ d.consumed + m <= PayloadLen
  BY Sizes DEF DecoderOK, DecoderRec
<1>3. Decoded(d, a, m, bufsize)
  BY <1>1, <1>2, DecodeToBufSound
<1>4. /\ DecoderOK(a) /\ a.tables /\ a.mode \in {"live", "finished", "error"}
      /\ a.consumed \in d.consumed .. d.consumed + m /\ a.produced \in d.produced .. d.produced + bufsize
  BY <1>3 DEF Decoded
<1>5. /\ a \in DecoderRec /\ a.consumed \in 0 .. PayloadLen /\ a.produced \in 0 .. MaxYield * PayloadLen
      /\ a.mode = "error" => stream.damage # 0 /\ stream.damage <= a.consumed
  BY <1>4 DEF DecoderOK, DecoderRec
<1>0. /\ from = PropsLen + d.consumed /\ input = Bytes(from, from + m)
      /\ DecodeSome(d, input, kept, bufsize) /\ kept \in {NULL, input} /\ fed' = from + m
  OBVIOUS
<1> HIDE DEF from, input
<1>6. Len(input) = m /\ input \in Seq(Nat) /\ input \in Seq(0 .. from + m)
  <2>1. from <= from + m
    BY <1>2
  <2>2. input \in Seq(Nat) /\ input \in Seq(0 .. from + m) /\ Len(input) = from + m - from
    <3>1. \A x, y \in Nat : x <= y =>
            Bytes(x, y) \in Seq(Nat) /\ Bytes(x, y) \in Seq(0 .. y) /\ Len(Bytes(x, y)) = y - x
      BY BytesProperties
    <3>2. input = Bytes(from, from + m) /\ from \in Nat /\ from + m \in Nat
      BY <1>0, <1>2
    <3> QED
      BY <2>1, <3>1, <3>2
  <2> QED
    BY <2>2, <1>2
<1>7. PICK j : j = a.consumed - d.consumed
  OBVIOUS
<1>8. j \in 0 .. m /\ a.consumed = d.consumed + j
  BY <1>2, <1>4, <1>5, <1>7
<1>9. PICK rest : rest = SubSeq(input, j + 1, m)
  OBVIOUS
<1>10. /\ rest = Bytes(from + j, from + m) /\ from + j \in Nat /\ from + j <= from + m
       /\ Len(rest) = m - j /\ rest \in Seq(0 .. from + m) /\ (rest = <<>> <=> j = m)
  <2>1. from + j \in Nat /\ from + j <= from + m
    BY <1>2, <1>8
  <2>2. SubSeq(input, j + 1, (from + m) - from) = Bytes(from + j, from + m)
    <3>1. j \in Nat /\ from + m \in Nat /\ from \in Nat
      BY <1>2, <1>8
    <3> QED
      BY <3>1, <1>0, <2>1, BytesRest
  <2>3. (from + m) - from = m
    BY <1>2
  <2>4. rest = Bytes(from + j, from + m)
    BY <2>2, <2>3, <1>9
  <2>5. Len(rest) = (from + m) - (from + j) /\ rest \in Seq(0 .. from + m)
    BY <2>1, <2>4, <1>2, BytesProperties
  <2>6. rest = <<>> <=> from + j = from + m
    BY <2>1, <2>4, <1>2, BytesEmpty
  <2>7. (from + m) - (from + j) = m - j /\ (from + j = from + m <=> j = m)
    BY <1>2, <1>8
  <2> QED
    BY <2>1, <2>4, <2>5, <2>6, <2>7
<1>11. PICK out : out = a.produced - d.produced
  OBVIOUS
<1>12. out \in Nat /\ a.produced = d.produced + out
  BY <1>2, <1>4, <1>5, <1>11
<1>13. /\ dec' = a /\ total_out' = total_out + out
       /\ IF a.mode = "error"
          THEN /\ unconsumed_tail' = kept /\ unconsumed_length' = m /\ delivered' = delivered
               /\ last' = [call |-> "decompress", result |-> "ValueError", n |-> 0]
          ELSE /\ unconsumed_tail' = OrNull(rest) /\ unconsumed_length' = Len(rest)
               /\ delivered' = delivered + out
               /\ last' = [call |-> "decompress", result |-> "bytes", n |-> out]
  BY <1>0, <1>1, <1>6, <1>7, <1>9, <1>11 DEF DecodeSome, Return
<1>14. DecoderOK(dec)' /\ (dec'.tables <=> ~need_properties')
  BY <1>4, <1>13 DEF DecoderOK
<1>15. total_out' = a.produced /\ total_out' \in 0 .. MaxYield * PayloadLen /\ delivered' \in 0 .. total_out'
  BY <1>2, <1>5, <1>12, <1>13
<1>16. fed' \in 0 .. Total /\ m \in 0 .. Total
  BY <1>0, <1>2, Sizes
<1>17. 0 .. from + m \subseteq 0 .. Total
  BY <1>2, Sizes
<1>18. TypeOK'
  <2>1. unconsumed_tail' = NULL \/ unconsumed_tail' \in Seq(0 .. Total)
    <3>1. rest \in Seq(0 .. Total) /\ input \in Seq(0 .. Total)
      BY <1>6, <1>10, <1>17, SeqMonotonic
    <3> QED
      BY <3>1, <1>0, <1>13 DEF OrNull
  <2>2. unconsumed_length' \in 0 .. Total
    BY <1>8, <1>10, <1>13, <1>16, Sizes
  <2>3. last' \in [call : {"none", "decompress", "flush"}, n : 0 .. total_out',
                   result : {"bytes", "TypeError", "ValueError", "SystemError", "MemoryError", "undefined"}]
    BY <1>2, <1>12, <1>13, <1>15
  <2> QED
    BY <2>1, <2>2, <2>3, <1>5, <1>13, <1>15, <1>16 DEF TypeOK, DecoderRec
<1>19. TailInv'
  <2>1. SUFFICES ASSUME last'.result = "bytes"
                 PROVE  /\ Taken' <= fed' /\ unconsumed_length' = fed' - Taken'
                        /\ unconsumed_tail' = IF unconsumed_length' = 0 THEN NULL ELSE Bytes(Taken', fed')
    BY DEF TailInv, Bytes
  <2>2. /\ a.mode # "error" /\ unconsumed_tail' = OrNull(rest) /\ unconsumed_length' = m - j
    BY <2>1, <1>10, <1>13
  <2>3. Taken' = from + j
    <3>1. Taken' = PropsLen + a.consumed
      BY <1>13 DEF Taken
    <3> QED
      BY <3>1, <1>0, <1>8, <1>2, Sizes
  <2>4. fed' = from + m /\ fed' - Taken' = m - j /\ (m - j = 0 <=> j = m)
    BY <2>3, <1>0, <1>2, <1>8
  <2> QED
    BY <2>2, <2>3, <2>4, <1>10 DEF OrNull
<1>20. OutputInv'
  BY <1>4, <1>13, <1>15, <1>2, <1>12 DEF OutputInv
<1>21. last'.result # "MemoryError" /\ FlushDrains' /\ SoundInputAccepted'
  BY <1>5, <1>13 DEF FlushDrains, SoundInputAccepted
<1>22. GivesMore
  BY <1>2, <1>12, <1>13 DEF GivesMore
<1>23. CauseInv'
  <2>1. CASE a.mode = "error"
    <3>1. last'.result = "ValueError" /\ flushing' = NULL
      BY <1>13, <2>1
    <3>2. stream.damage # 0 /\ stream.damage <= d.consumed + j /\ stream.damage \in Nat
      BY <1>5, <1>8, <2>1, StreamFacts, Sizes
    <3>3. fed' >= PropsLen + stream.damage
      <4>1. PICK x \in Nat : x = stream.damage
        BY <3>2
      <4>2. PICK y \in Nat : y = d.consumed
        BY <1>2
      <4>3. x <= y + j /\ fed' = PropsLen + y + m /\ j \in Nat /\ m \in Nat /\ j <= m /\ PropsLen \in Nat
        BY <3>2, <4>1, <4>2, <1>0, <1>8, Sizes
      <4>4. fed' >= PropsLen + x
        BY <4>3
      <4> QED
        BY <4>1, <4>4
    <3> QED
      BY <3>1, <3>2, <3>3 DEF CauseInv, Contract!MayRaise
  <2>2. CASE a.mode # "error"
    BY <1>13, <2>2 DEF CauseInv
  <2> QED
    BY <2>1, <2>2
<1> QED
  BY <1>14, <1>18, <1>19, <1>20, <1>21, <1>22, <1>23 DEF ObjectInv

\* There is nothing to decode: all bytes are taken.
LEMMA DecodeNothingKeeps ==
  ASSUME stream \in Streams, stream' = stream, max_length' = max_length,
         max_length \in {-1} \cup MaxLengths,
         NEW d, DecoderOK(d), d.mode \in {"live", "finished"}, d.tables,
         fed' = PropsLen + d.consumed, fed' <= Total,
         ~need_properties', flushing' = NULL, need_properties' \in BOOLEAN,
         total_out = d.produced, delivered = d.produced, DecodeNothing(d)
  PROVE  ObjectInv' /\ GivesMore
<1>1. /\ dec' = d /\ unconsumed_tail' = NULL /\ unconsumed_length' = 0
      /\ last' = [call |-> "decompress", result |-> "bytes", n |-> 0]
      /\ total_out' = total_out /\ delivered' = delivered
  BY DEF DecodeNothing, Return
<1>2. d \in DecoderRec /\ d.consumed \in 0 .. PayloadLen /\ d.produced \in 0 .. MaxYield * PayloadLen
  BY DEF DecoderOK, DecoderRec
<1>3. DecoderOK(dec)' /\ (dec'.tables <=> ~need_properties')
  BY <1>1 DEF DecoderOK
<1>4. TypeOK'
  BY <1>1, <1>2, Sizes DEF TypeOK, DecoderRec
<1>5. TailInv' /\ OutputInv'
  <2>1. Taken' = fed' /\ fed' \in Nat
    BY <1>1, <1>2, Sizes DEF Taken
  <2> QED
    BY <2>1, <1>1, <1>2 DEF TailInv, OutputInv
<1>6. GivesMore
  BY <1>1, <1>2 DEF GivesMore
<1> QED
  BY <1>1, <1>3, <1>4, <1>5, <1>6 DEF ObjectInv, FlushDrains, SoundInputAccepted, CauseInv

\* decompress() waits for more bytes of the properties, or does not like them.
LEMMA PropertiesKeep ==
  ASSUME ObjectInv, ~MayStartEmpty, NEW n \in ChunkSizes,
         WaitForProperties(n) \/ RejectProperties(n)
  PROVE  ObjectInv' /\ GivesMore
<1>1. /\ CanPass(n) /\ need_properties /\ fed' = fed + n /\ unconsumed_length' = unconsumed_length + n
      /\ stream' = stream /\ need_properties' = need_properties /\ max_length' = max_length
      /\ total_out' = total_out /\ dec' = dec /\ flushing' = flushing /\ delivered' = delivered
  BY DEF WaitForProperties, RejectProperties, Pass
<1>2. /\ last.result = "bytes" /\ flushing = NULL /\ fed \in Nat /\ n \in Nat /\ fed + n \in 1 .. Total
      /\ unconsumed_length = fed
      /\ NextIn(n) = Bytes(0, fed + n)
      /\ Joined(n) = IF unconsumed_length = 0 THEN NULL ELSE Bytes(0, fed + n)
  <2>1. Taken = 0
    BY <1>1 DEF Taken
  <2> QED
    BY <1>1, <2>1, BeforeDecompress
<1>3. TypeOK /\ DecoderOK(dec) /\ (dec.tables <=> ~need_properties) /\ OutputInv
  BY DEF ObjectInv
<1>4. DecoderOK(dec)' /\ (dec'.tables <=> ~need_properties')
  BY <1>1, <1>3 DEF DecoderOK
<1>8. GivesMore
  <2>1. delivered \in Nat
    BY <1>3 DEF TypeOK
  <2> QED
    BY <2>1, <1>1 DEF GivesMore
<1>5. Bytes(0, fed + n) \in Seq(0 .. Total)
  <2>1. Bytes(0, fed + n) \in Seq(0 .. fed + n)
    BY <1>2, BytesProperties
  <2>2. 0 .. fed + n \subseteq 0 .. Total
    BY <1>2, Sizes
  <2> QED
    BY <2>1, <2>2, SeqMonotonic
<1>6. CASE WaitForProperties(n)
  <2>1. unconsumed_length + n < PropsLen /\ unconsumed_length + n # 0
    BY <1>2, <1>6 DEF WaitForProperties
  <2>2. /\ unconsumed_tail' = IF unconsumed_length > 0 THEN Joined(n) ELSE Bytes(fed, fed + n)
        /\ last' = [call |-> "decompress", result |-> "bytes", n |-> 0]
    BY <1>6, <2>1 DEF WaitForProperties, Return
  <2>3. unconsumed_tail' = Bytes(0, fed + n)
    BY <2>2, <1>2
  <2>4. TypeOK'
    BY <1>1, <1>2, <1>3, <1>5, <2>2, <2>3 DEF TypeOK
  <2>5. Taken' = 0
    BY <1>1 DEF Taken
  <2>6. TailInv'
    BY <1>1, <1>2, <2>2, <2>3, <2>5 DEF TailInv
  <2>7. OutputInv'
    BY <1>1, <1>2, <1>3, <2>1, <2>2, <2>5 DEF OutputInv
  <2> QED
    BY <1>1, <1>2, <1>4, <1>8, <2>2, <2>4, <2>6, <2>7 DEF ObjectInv, FlushDrains, SoundInputAccepted, CauseInv
<1>7. CASE RejectProperties(n)
  <2>1. /\ stream.badProps /\ unconsumed_tail' = Joined(n)
        /\ last' = [call |-> "decompress", result |-> "TypeError", n |-> 0]
    BY <1>7 DEF RejectProperties, Return
  <2>2. TypeOK'
    BY <1>1, <1>2, <1>3, <1>5, <2>1 DEF TypeOK
  <2>3. TailInv' /\ OutputInv'
    BY <1>1, <1>2, <2>1 DEF TailInv, OutputInv
  <2>4. fed' >= PropsLen
    BY <1>1, <1>2, <1>7, Sizes DEF RejectProperties
  <2>5. CauseInv'
    BY <1>1, <1>2, <2>1, <2>4 DEF CauseInv, Contract!MayRaise
  <2> QED
    BY <1>1, <1>4, <1>8, <2>1, <2>2, <2>3, <2>5 DEF ObjectInv, FlushDrains, SoundInputAccepted
<1> QED
  BY <1>6, <1>7

\* decompress() gets the last byte of the properties, and begins to decode.
LEMMA ReadPropertiesKeeps ==
  ASSUME ObjectInv, ~MayStartEmpty, NEW n \in ChunkSizes, NEW bufsize \in BufSizes,
         ReadProperties(n, bufsize)
  PROVE  ObjectInv' /\ GivesMore
<1>1. /\ CanPass(n) /\ need_properties /\ fed' = fed + n /\ unconsumed_length + n >= PropsLen
      /\ stream' = stream /\ need_properties' = FALSE /\ max_length' = max_length /\ flushing' = flushing
      /\ IF AfterProperties(n) = NULL THEN DecodeNothing(InitDecoder)
         ELSE DecodeSome(InitDecoder, AfterProperties(n), AfterProperties(n), bufsize)
  BY DEF ReadProperties, Pass
<1>2. /\ last.result = "bytes" /\ flushing = NULL /\ fed \in Nat /\ n \in Nat /\ fed + n \in 1 .. Total
      /\ unconsumed_length = fed
      /\ NextIn(n) = Bytes(0, fed + n)
      /\ Joined(n) = IF unconsumed_length = 0 THEN NULL ELSE Bytes(0, fed + n)
      /\ total_out = 0 /\ delivered = 0
  <2>1. Taken = 0
    BY <1>1 DEF Taken
  <2>2. /\ last.result = "bytes" /\ flushing = NULL /\ fed \in Nat /\ n \in Nat /\ fed + n \in 1 .. Total
        /\ unconsumed_length = fed - 0 /\ delivered = total_out
        /\ NextIn(n) = Bytes(0, fed + n)
        /\ Joined(n) = IF unconsumed_length = 0 THEN NULL ELSE Bytes(0, fed + n)
    BY <1>1, <2>1, BeforeDecompress
  <2>3. total_out = 0
    BY <1>1, <2>2 DEF ObjectInv, OutputInv
  <2> QED
    BY <2>2, <2>3
<1>3. stream \in Streams /\ max_length \in {-1} \cup MaxLengths
  BY DEF ObjectInv, TypeOK
<1>4. PICK m : m = fed + n - PropsLen
  OBVIOUS
<1>5. m \in Nat /\ fed + n = PropsLen + m /\ m = unconsumed_length + n - PropsLen
  BY <1>1, <1>2, <1>4, Sizes
<1>6. AfterProperties(n) = IF m = 0 THEN NULL ELSE Bytes(PropsLen, PropsLen + m)
  <2>1. SUFFICES ASSUME m # 0 PROVE AfterProperties(n) = Bytes(PropsLen, PropsLen + m)
    BY <1>5 DEF AfterProperties
  <2>2. Bytes(0, fed + n) \in Seq(Nat) /\ Bytes(0, fed + n) # <<>>
    BY <1>2, BytesProperties, BytesEmpty
  <2>3. AfterProperties(n) = SubSeq(Bytes(0, fed + n), PropsLen + 1, PropsLen + m)
    BY <1>2, <1>5, <2>1, <2>2, Sizes DEF AfterProperties
  <2>4. PICK x \in Nat : x = 0
    OBVIOUS
  <2>5. PICK y \in Nat : y = fed + n
    BY <1>2
  <2>6. PropsLen \in Nat /\ x + PropsLen <= y /\ y = PropsLen + m /\ y - x = y /\ x + PropsLen = PropsLen
    BY <1>2, <1>5, <2>4, <2>5, Sizes
  <2>7. SubSeq(Bytes(x, y), PropsLen + 1, y - x) = Bytes(x + PropsLen, y)
    BY <2>6, BytesRest
  <2> QED
    BY <2>3, <2>4, <2>5, <2>6, <2>7
<1>7. /\ InitDecoder.consumed = 0 /\ InitDecoder.produced = 0 /\ InitDecoder.mode = "live" /\ InitDecoder.tables
      /\ DecoderOK(InitDecoder)
  <2>1. InitDecoder = [tables |-> TRUE, mode |-> "live", consumed |-> 0, produced |-> 0]
    BY DEF InitDecoder
  <2>2. InitDecoder \in DecoderRec
    BY <2>1, Sizes DEF DecoderRec
  <2>3. stream.reach[0] = 0 /\ stream.mark \in Nat
    BY <1>3, StreamFacts, Sizes
  <2> QED
    BY <2>1, <2>2, <2>3 DEF DecoderOK
<1> DEFINE d == InitDecoder
<1> HIDE DEF d
<1>8. /\ d.consumed = 0 /\ d.produced = 0 /\ d.mode = "live" /\ d.tables /\ DecoderOK(d)
      /\ IF AfterProperties(n) = NULL THEN DecodeNothing(d)
         ELSE DecodeSome(d, AfterProperties(n), AfterProperties(n), bufsize)
  BY <1>1, <1>7 DEF d
<1>9. PropsLen + d.consumed = PropsLen /\ PropsLen + m \in Nat /\ Bytes(PropsLen, PropsLen + m) \in Seq(Nat)
  <2>1. PropsLen \in Nat /\ PropsLen + m \in Nat /\ PropsLen <= PropsLen + m
    BY <1>5, Sizes
  <2> QED
    BY <2>1, <1>8, BytesProperties
<1>10. CASE m = 0
  <2>1. DecodeNothing(d)
    BY <1>6, <1>8, <1>10
  <2>2. fed' = PropsLen + d.consumed /\ fed' <= Total
    BY <1>1, <1>2, <1>5, <1>9, <1>10, Sizes
  <2> QED
    BY <2>1, <2>2, <1>1, <1>2, <1>3, <1>8, DecodeNothingKeeps
<1>11. CASE m # 0
  <2>1. AfterProperties(n) = Bytes(PropsLen, PropsLen + m) /\ AfterProperties(n) # NULL
    BY <1>6, <1>9, <1>11, Sizes
  <2>2. DecodeSome(d, Bytes(PropsLen + d.consumed, PropsLen + d.consumed + m),
                   Bytes(PropsLen + d.consumed, PropsLen + d.consumed + m), bufsize)
    BY <1>8, <1>9, <2>1
  <2>3. fed' = PropsLen + d.consumed + m /\ fed' <= Total /\ m \in Nat \ {0}
    BY <1>1, <1>2, <1>5, <1>9, <1>11, Sizes
  <2> QED
    BY <2>2, <2>3, <1>1, <1>2, <1>3, <1>8, DecodeSomeKeeps
<1> QED
  BY <1>10, <1>11

\* decompress() goes on.
LEMMA ContinueKeeps ==
  ASSUME ObjectInv, ~MayStartEmpty, NEW n \in ChunkSizes, NEW bufsize \in BufSizes,
         Continue(n, bufsize)
  PROVE  ObjectInv' /\ GivesMore
<1>1. /\ CanPass(n) /\ ~need_properties /\ fed' = fed + n
      /\ stream' = stream /\ need_properties' = need_properties /\ max_length' = max_length /\ flushing' = flushing
      /\ IF NextIn(n) = <<>> THEN DecodeNothing(dec)
         ELSE DecodeSome(dec, NextIn(n), Joined(n), bufsize)
  BY DEF Continue, Pass
<1>2. /\ last.result = "bytes" /\ flushing = NULL
      /\ fed \in Nat /\ n \in Nat /\ fed + n \in 1 .. Total
      /\ Taken \in 0 .. fed
      /\ NextIn(n) = Bytes(Taken, fed + n)
      /\ Joined(n) = IF unconsumed_length = 0 THEN NULL ELSE Bytes(Taken, fed + n)
      /\ delivered = total_out
  BY <1>1, BeforeDecompress
<1>3. /\ stream \in Streams /\ max_length \in {-1} \cup MaxLengths /\ need_properties \in BOOLEAN
      /\ DecoderOK(dec) /\ dec.tables
  BY <1>1 DEF ObjectInv, TypeOK
<1>4. total_out = dec.produced /\ dec.mode \in {"live", "finished"}
  BY <1>1, <1>2 DEF ObjectInv, OutputInv
<1>5. PICK d : d = dec
  OBVIOUS
<1>6. PICK m : m = fed + n - Taken
  OBVIOUS
<1>7. /\ d.consumed \in Nat /\ Taken = PropsLen + d.consumed /\ m \in Nat /\ Taken + m = fed + n
      /\ PropsLen + d.consumed \in Nat
  <2>1. d.consumed \in 0 .. PayloadLen /\ PropsLen \in Nat
    BY <1>3, <1>5, Sizes DEF DecoderOK, DecoderRec
  <2>2. Taken = PropsLen + d.consumed
    BY <1>1, <1>5 DEF Taken
  <2> HIDE DEF Taken
  <2>3. m \in Nat /\ Taken + m = fed + n
    BY <1>2, <1>6
  <2> QED
    BY <2>1, <2>2, <2>3, Sizes
<1>8. Bytes(Taken, fed + n) = <<>> <=> m = 0
  <2>1. Taken \in Nat /\ fed + n \in Nat /\ Taken <= fed + n
    BY <1>2
  <2>2. Bytes(Taken, fed + n) = <<>> <=> Taken = fed + n
    BY <2>1, BytesEmpty
  <2> QED
    BY <2>1, <2>2, <1>7
<1>9. CASE m = 0
  <2>1. DecodeNothing(d)
    BY <1>1, <1>2, <1>5, <1>8, <1>9
  <2>2. fed' = PropsLen + d.consumed /\ fed' <= Total
    BY <1>1, <1>2, <1>7, <1>9, Sizes
  <2> QED
    BY <2>1, <2>2, <1>1, <1>2, <1>3, <1>4, <1>5, DecodeNothingKeeps
<1>10. CASE m # 0
  <2>1. DecodeSome(d, Bytes(PropsLen + d.consumed, PropsLen + d.consumed + m), Joined(n), bufsize)
    BY <1>1, <1>2, <1>5, <1>7, <1>8, <1>10
  <2>2. Joined(n) \in {NULL, Bytes(PropsLen + d.consumed, PropsLen + d.consumed + m)}
    BY <1>2, <1>7
  <2>3. fed' = PropsLen + d.consumed + m /\ fed' <= Total /\ m \in Nat \ {0}
    BY <1>1, <1>2, <1>7, <1>10, Sizes
  <2>4. PICK kept : kept = Joined(n)
    OBVIOUS
  <2> QED
    BY <2>1, <2>2, <2>3, <2>4, <1>1, <1>2, <1>3, <1>4, <1>5, DecodeSomeKeeps
<1> QED
  BY <1>9, <1>10

\* flush() has nothing to ask for, or begins.
LEMMA FlushBeginKeeps ==
  ASSUME ObjectInv, FlushNothing \/ FlushBegin PROVE ObjectInv' /\ GivesMore
<1>1. /\ last.result = "bytes" /\ flushing = NULL
      /\ stream' = stream /\ fed' = fed /\ unconsumed_tail' = unconsumed_tail
      /\ unconsumed_length' = unconsumed_length /\ need_properties' = need_properties
      /\ max_length' = max_length /\ total_out' = total_out /\ dec' = dec /\ delivered' = delivered
  BY DEF FlushNothing, FlushBegin, Usable, tailVars
<1>2. /\ TypeOK /\ DecoderOK(dec) /\ (dec.tables <=> ~need_properties) /\ TailInv /\ OutputInv
      /\ FlushDrains /\ SoundInputAccepted /\ last.result # "MemoryError"
  BY DEF ObjectInv
<1>3. DecoderOK(dec)' /\ (dec'.tables <=> ~need_properties')
  BY <1>1, <1>2 DEF DecoderOK
<1>4. Taken' = Taken /\ Decodable(fed)' = Decodable(fed)
  BY <1>1 DEF Taken, Decodable
<1>8. GivesMore
  <2>1. delivered \in Nat
    BY <1>2 DEF TypeOK
  <2> QED
    BY <2>1, <1>1 DEF GivesMore
<1>5. TailInv'
  BY <1>1, <1>2, <1>4 DEF TailInv, Bytes
<1>6. CASE FlushNothing
  <2>1. /\ max_length # -1 /\ flushing' = NULL
        /\ last' = [call |-> "flush", result |-> IF max_length = total_out THEN "bytes" ELSE "SystemError", n |-> 0]
    BY <1>1, <1>6 DEF FlushNothing, Return
  <2>2. total_out \in Nat
    BY <1>2, Sizes DEF TypeOK
  <2>3. TypeOK'
    BY <1>1, <1>2, <2>1, <2>2 DEF TypeOK
  <2>4. OutputInv'
    BY <1>1, <1>2, <2>1 DEF OutputInv
  <2>5. FlushDrains' /\ SoundInputAccepted' /\ last'.result # "MemoryError"
    BY <1>1, <2>1 DEF FlushDrains, SoundInputAccepted
  <2>6. CASE max_length = total_out
    <3>1. CauseInv'
      BY <2>1, <2>6 DEF CauseInv
    <3> QED
      BY <3>1, <1>3, <1>5, <1>8, <2>3, <2>4, <2>5 DEF ObjectInv
  <2>7. CASE max_length # total_out
    <3>1. delivered = total_out /\ max_length <= total_out
      BY <1>1, <1>2, <1>6, <2>2 DEF OutputInv, TypeOK, FlushNothing
    <3>2. max_length \in Nat
      BY <1>2, <2>1, SizesAssumption DEF TypeOK
    <3>3. max_length < delivered
      BY <3>1, <3>2, <2>2, <2>7
    <3>4. last'.result = "SystemError" /\ flushing' = NULL
      BY <2>1, <2>7
    <3>5. CauseInv'
      BY <3>3, <3>4, <2>1, <1>1 DEF CauseInv, Contract!MayRaise
    <3> QED
      BY <3>5, <1>3, <1>5, <1>8, <2>3, <2>4, <2>5 DEF ObjectInv
  <2> QED
    BY <2>6, <2>7
<1>7. CASE FlushBegin
  <2>1. PICK n : n = IF max_length = -1 THEN BLOCK_SIZE ELSE max_length - total_out
    OBVIOUS
  <2>2. /\ flushing' = [avail_out |-> n, outsize |-> 0] /\ last' = last
        /\ max_length = -1 \/ max_length > total_out
    BY <1>7, <2>1 DEF FlushBegin
  <2>3. total_out \in Nat /\ max_length \in {-1} \cup MaxLengths /\ delivered \in Nat
    BY <1>2, Sizes DEF TypeOK
  <2>4. n \in Nat \ {0}
    BY <2>1, <2>2, <2>3, SizesAssumption
  <2>5. flushing' \in [avail_out : Nat \ {0}, outsize : 0 .. total_out] /\ flushing'.outsize = 0 /\ flushing' # NULL
    BY <2>2, <2>3, <2>4, SizesAssumption
  <2>6. TypeOK'
    BY <1>1, <1>2, <2>2, <2>5 DEF TypeOK
  <2>7. OutputInv'
    BY <1>1, <1>2, <2>2, <2>5 DEF OutputInv
  <2>8. FlushDrains' /\ SoundInputAccepted' /\ last'.result # "MemoryError"
    BY <1>1, <1>2, <1>4, <2>2 DEF FlushDrains, SoundInputAccepted
  <2>9. CauseInv'
    BY <1>1, <1>7, <2>2 DEF CauseInv, FlushBegin, LeftOver
  <2> QED
    BY <1>3, <1>5, <1>8, <2>6, <2>7, <2>8, <2>9 DEF ObjectInv
<1> QED
  BY <1>6, <1>7

\* What a round of the loop in flush() makes of the decoder, be it the one of this
\* stream or, before the properties were read, one that does not decode.
FlushDecoded(a) ==
  /\ DecoderOK(a) /\ a.tables = dec.tables
  /\ a.consumed \in dec.consumed .. dec.consumed + unconsumed_length
  /\ a.produced \in dec.produced .. dec.produced + flushing.avail_out
  /\ need_properties => a = dec
  /\ ~need_properties => a.mode \in {"live", "finished", "error"}
  /\ total_out + (a.produced - dec.produced) \in 0 .. MaxYield * PayloadLen
  /\ a.mode # "error" /\ a.produced - dec.produced < flushing.avail_out =>
       total_out + (a.produced - dec.produced) = Decodable(fed)

\* A round of flush() with working tables.
LEMMA RoundDecodes ==
  ASSUME ObjectInv, flushing # NULL, ~StaleDecoder(dec)
  PROVE  FlushDecoded(DecodeToBuf(dec, IF unconsumed_length = 0 THEN <<>> ELSE unconsumed_tail,
                                  flushing.avail_out))
<1> DEFINE input == IF unconsumed_length = 0 THEN <<>> ELSE unconsumed_tail
           a == DecodeToBuf(dec, input, flushing.avail_out)
<1>1. /\ last.result = "bytes" /\ stream \in Streams /\ DecoderOK(dec) /\ (dec.tables <=> ~need_properties)
      /\ fed \in 0 .. Total /\ flushing.avail_out \in Nat \ {0} /\ total_out \in 0 .. MaxYield * PayloadLen
      /\ dec.tables \in BOOLEAN /\ need_properties \in BOOLEAN
  BY DEF ObjectInv, TypeOK, OutputInv
<1>2. /\ Taken <= fed /\ unconsumed_length = fed - Taken
      /\ unconsumed_tail = IF unconsumed_length = 0 THEN NULL ELSE Bytes(Taken, fed)
  BY <1>1 DEF ObjectInv, TailInv
<1>3. dec.consumed \in 0 .. PayloadLen /\ dec.produced \in 0 .. MaxYield * PayloadLen
  BY <1>1 DEF DecoderOK, DecoderRec
<1>4. CASE need_properties
  <2>1. Taken = 0 /\ total_out = 0 /\ fed < PropsLen
    BY <1>1, <1>4 DEF ObjectInv, OutputInv, Taken
  <2>2. a = dec
    BY <1>1, <1>4 DEF DecodeToBuf, StaleDecoder, LeftOver
  <2>3. Decodable(fed) = 0
    BY <2>1, <1>1, Sizes DEF Decodable
  <2>4. unconsumed_length \in Nat
    BY <1>1, <1>2, <2>1, Sizes
  <2> HIDE DEF a
  <2>5. /\ a.consumed \in dec.consumed .. dec.consumed + unconsumed_length
        /\ a.produced \in dec.produced .. dec.produced + flushing.avail_out
        /\ total_out + (a.produced - dec.produced) = 0
    BY <1>1, <1>3, <2>1, <2>2, <2>4
  <2>6. FlushDecoded(a)
    BY <1>1, <1>4, <2>1, <2>2, <2>3, <2>5, Sizes DEF FlushDecoded
  <2> QED
    BY <2>6 DEF a
<1>5. CASE ~need_properties
  <2>1. /\ Taken = PropsLen + dec.consumed /\ total_out = dec.produced
        /\ dec.mode \in {"live", "finished"}
    BY <1>1, <1>5 DEF ObjectInv, OutputInv, Taken
  <2>2. PICK d : d = dec
    OBVIOUS
  <2>3. PICK m : m = unconsumed_length
    OBVIOUS
  <2>4. /\ d.consumed \in Nat /\ m \in Nat /\ fed = PropsLen + d.consumed + m /\ d.consumed + m <= PayloadLen
        /\ PropsLen + d.consumed \in Nat
    <3>1. /\ PropsLen \in Nat /\ PayloadLen \in Nat /\ fed \in 0 .. PropsLen + PayloadLen
          /\ dec.consumed \in Nat
      BY <1>1, <1>3, Sizes
    <3>2. PropsLen + dec.consumed <= fed /\ m = fed - (PropsLen + dec.consumed)
      BY <1>2, <2>1, <2>3
    <3> QED
      BY <3>1, <3>2, <2>2
  <2>5. input = Bytes(PropsLen + d.consumed, PropsLen + d.consumed + m)
    <3>1. CASE m = 0
      <4>1. fed = PropsLen + d.consumed /\ fed \in Nat
        BY <2>4, <3>1
      <4>2. Bytes(fed, fed) = <<>>
        BY <4>1, BytesEmpty
      <4>3. PropsLen + d.consumed + m = fed
        BY <2>4
      <4>4. input = <<>>
        BY <2>3, <3>1
      <4> QED
        BY <4>1, <4>2, <4>3, <4>4
    <3>2. CASE m # 0
      BY <1>2, <2>1, <2>2, <2>3, <2>4, <3>2
    <3> QED
      BY <3>1, <3>2
  <2>6. PICK room : room = flushing.avail_out
    OBVIOUS
  <2>7. Decoded(d, a, m, room)
    BY <1>1, <1>5, <2>1, <2>2, <2>4, <2>5, <2>6, DecodeToBufSound
  <2> HIDE DEF a
  <2>8. stream.reach[d.consumed + m] = Decodable(fed)
    <3>1. CASE fed = PropsLen
      <4>1. d.consumed + m = 0
        BY <2>4, <3>1, Sizes
      <4>2. stream.reach[0] = 0
        BY <1>1, StreamFacts
      <4> QED
        BY <3>1, <4>1, <4>2, Sizes DEF Decodable
    <3>2. CASE fed > PropsLen
      <4>1. fed - PropsLen = d.consumed + m /\ ~(fed <= PropsLen)
        BY <2>4, <3>2, Sizes
      <4> QED
        BY <4>1 DEF Decodable
    <3>3. fed = PropsLen \/ fed > PropsLen
      BY <2>4, Sizes
    <3> QED
      BY <3>1, <3>2, <3>3
  <2>9. /\ DecoderOK(a) /\ a.tables = d.tables /\ a.mode \in {"live", "finished", "error"}
        /\ a.consumed \in d.consumed .. d.consumed + m /\ a.produced \in d.produced .. d.produced + room
        /\ a.mode # "error" /\ a.produced < d.produced + room => a.produced = Decodable(fed)
        /\ a.produced \in 0 .. MaxYield * PayloadLen
    BY <2>7, <2>8 DEF Decoded, DecoderOK, DecoderRec
  <2>10. /\ total_out + (a.produced - d.produced) = a.produced
         /\ a.produced - d.produced < room => a.produced < d.produced + room
    BY <1>1, <1>3, <2>1, <2>2, <2>6, <2>9
  <2>11. FlushDecoded(a)
    BY <1>5, <2>2, <2>3, <2>6, <2>9, <2>10 DEF FlushDecoded
  <2> QED
    BY <2>11 DEF a
<1> QED
  BY <1>1, <1>4, <1>5

\* A round of flush(): it ends, with the output, with an exception or with freed
\* tables, or asks for another block.
LEMMA FlushRoundKeeps ==
  ASSUME ObjectInv, FlushRound PROVE ObjectInv' /\ GivesMore
<1>1. /\ flushing # NULL /\ stream' = stream /\ fed' = fed /\ need_properties' = need_properties
      /\ max_length' = max_length
  BY DEF FlushRound
<1>2. /\ TypeOK /\ DecoderOK(dec) /\ (dec.tables <=> ~need_properties) /\ TailInv /\ OutputInv
      /\ FlushDrains /\ SoundInputAccepted /\ CauseInv /\ last.result = "bytes"
      /\ flushing \in [avail_out : Nat \ {0}, outsize : 0 .. total_out]
  BY <1>1 DEF ObjectInv, OutputInv, TypeOK
<1>3. /\ delivered \in Nat /\ total_out \in 0 .. MaxYield * PayloadLen /\ flushing.outsize \in 0 .. total_out
      /\ total_out = delivered + flushing.outsize /\ max_length \in {-1} \cup MaxLengths
      /\ fed \in 0 .. Total /\ unconsumed_length \in 0 .. Total /\ need_properties \in BOOLEAN
      /\ flushing.avail_out \in Nat \ {0}
  BY <1>1, <1>2, Sizes DEF TypeOK, OutputInv
<1>4. CASE StaleDecoder(dec)
  <2>1. /\ last' = [call |-> "flush", result |-> "undefined", n |-> 0] /\ flushing' = NULL
        /\ delivered' = delivered /\ dec' = dec /\ total_out' = total_out
        /\ unconsumed_tail' = unconsumed_tail /\ unconsumed_length' = unconsumed_length
    BY <1>3, <1>4 DEF FlushRound, FlushReturns, Return, tailVars
  <2>2. TypeOK'
    BY <1>1, <1>2, <1>3, <2>1 DEF TypeOK
  <2>3. DecoderOK(dec)' /\ (dec'.tables <=> ~need_properties')
    BY <1>1, <1>2, <2>1 DEF DecoderOK
  <2>4. CauseInv'
    BY <1>1, <1>2, <1>4 DEF CauseInv, StaleDecoder
  <2> QED
    BY <1>3, <2>1, <2>2, <2>3, <2>4
       DEF ObjectInv, TailInv, OutputInv, FlushDrains, SoundInputAccepted, GivesMore
<1>5. CASE ~StaleDecoder(dec)
  <2>1. PICK a : a = DecodeToBuf(dec, IF unconsumed_length = 0 THEN <<>> ELSE unconsumed_tail,
                                 flushing.avail_out)
    OBVIOUS
  <2>2. FlushDecoded(a)
    BY <1>1, <1>5, <2>1, RoundDecodes
  <2>3. PICK taken : taken = a.consumed - dec.consumed
    OBVIOUS
  <2>4. PICK out : out = a.produced - dec.produced
    OBVIOUS
  <2>5. PICK size : size = flushing.outsize + out
    OBVIOUS
  <2>6. PICK failed \in BOOLEAN : failed <=> \/ a.mode = "error"
                                             \/ out = 0 /\ max_length # -1 /\ total_out < max_length
    OBVIOUS
  <2>7. /\ dec' = a /\ unconsumed_length' = unconsumed_length - taken
        /\ unconsumed_tail' = IF unconsumed_length = 0 THEN unconsumed_tail
                              ELSE OrNull(SubSeq(unconsumed_tail, taken + 1, unconsumed_length))
        /\ total_out' = IF failed THEN total_out ELSE total_out + out
        /\ IF failed
           THEN /\ last' = [call |-> "flush", result |-> "ValueError", n |-> 0]
                /\ flushing' = NULL /\ delivered' = delivered + 0
           ELSE IF out < flushing.avail_out \/ max_length # -1
           THEN /\ last' = [call |-> "flush", result |-> "bytes", n |-> size]
                /\ flushing' = NULL /\ delivered' = delivered + size
           ELSE /\ flushing' = [avail_out |-> BLOCK_SIZE, outsize |-> size]
                /\ delivered' = delivered /\ last' = last
    BY <1>5, <2>1, <2>3, <2>4, <2>5, <2>6 DEF FlushRound, FlushDecode, FlushReturns, Return
  <2>8. /\ a \in DecoderRec /\ dec \in DecoderRec
        /\ a.consumed \in Nat /\ dec.consumed \in Nat /\ a.produced \in Nat /\ dec.produced \in Nat
    BY <1>2, <2>2 DEF FlushDecoded, DecoderOK, DecoderRec
  <2>9. /\ taken \in 0 .. unconsumed_length /\ a.consumed = dec.consumed + taken
        /\ out \in 0 .. flushing.avail_out /\ a.produced = dec.produced + out
        /\ total_out + out \in 0 .. MaxYield * PayloadLen
        /\ a.mode # "error" /\ out < flushing.avail_out => total_out + out = Decodable(fed)
    BY <1>3, <2>2, <2>3, <2>4, <2>8 DEF FlushDecoded
  <2>10. /\ size \in Nat /\ total_out + out = delivered + size /\ size <= total_out + out
         /\ need_properties => out = 0 /\ taken = 0
    <3>1. need_properties => out = 0 /\ taken = 0
      BY <2>2, <2>3, <2>4, <2>8 DEF FlushDecoded
    <3>2. /\ size \in Nat /\ total_out + out = delivered + size /\ size <= total_out + out
      <4>1. out \in Nat /\ delivered \in Nat /\ flushing.outsize \in Nat /\ total_out \in Nat
            /\ flushing.outsize <= total_out
        BY <1>3, <2>9
      <4> QED
        BY <4>1, <1>3, <2>5
    <3> QED
      BY <3>1, <3>2
  <2>11. DecoderOK(dec)' /\ (dec'.tables <=> ~need_properties')
    BY <1>1, <1>2, <2>2, <2>7 DEF DecoderOK, FlushDecoded
  <2>12. /\ Taken <= fed /\ unconsumed_length = fed - Taken /\ Taken \in Nat
         /\ unconsumed_tail = IF unconsumed_length = 0 THEN NULL ELSE Bytes(Taken, fed)
    BY <1>2, <2>8, Sizes DEF TailInv, Taken
  <2>13. Taken' = Taken + taken
    <3>1. CASE need_properties
      BY <3>1, <1>1, <2>10 DEF Taken
    <3>2. CASE ~need_properties
      <4>1. Taken' = PropsLen + a.consumed /\ Taken = PropsLen + dec.consumed
        BY <3>2, <1>1, <2>7 DEF Taken
      <4>2. taken \in Int /\ PropsLen \in Nat
        BY <2>3, <2>8, Sizes
      <4> QED
        BY <4>1, <4>2, <2>8, <2>9
    <3> QED
      BY <3>1, <3>2
  <2>14. PICK from \in Nat : from = Taken
    BY <2>12
  <2>15. /\ from + taken <= fed /\ unconsumed_length' = fed - (from + taken) /\ from + taken \in Nat
         /\ unconsumed_length' \in 0 .. Total
    BY <1>3, <2>7, <2>9, <2>12, <2>14, Sizes
  <2>16. unconsumed_tail' = IF unconsumed_length' = 0 THEN NULL ELSE Bytes(from + taken, fed)
    <3>1. CASE unconsumed_length = 0
      <4>1. unconsumed_tail' = NULL /\ unconsumed_length' = 0
        <5>1. taken = 0
          BY <3>1, <2>9
        <5> QED
          BY <5>1, <3>1, <2>7, <2>12
      <4> QED
        BY <4>1
    <3>2. CASE unconsumed_length # 0
      <4>1. unconsumed_tail = Bytes(from, fed) /\ unconsumed_length = fed - from
        BY <3>2, <2>12, <2>14
      <4>2. SubSeq(Bytes(from, fed), taken + 1, fed - from) = Bytes(from + taken, fed)
        <5>1. taken \in Nat /\ fed \in Nat
          BY <1>3, <2>9
        <5> QED
          BY <5>1, <2>15, BytesRest
      <4>3. Bytes(from + taken, fed) = <<>> <=> from + taken = fed
        BY <1>3, <2>15, BytesEmpty
      <4>4. unconsumed_length' = 0 <=> from + taken = fed
        BY <1>3, <2>15
      <4> QED
        BY <3>2, <4>1, <4>2, <4>3, <4>4, <2>7 DEF OrNull
    <3> QED
      BY <3>1, <3>2
  <2>17. TailInv'
    BY <1>1, <2>13, <2>14, <2>15, <2>16 DEF TailInv, Bytes
  <2>18. unconsumed_tail' = NULL \/ unconsumed_tail' \in Seq(0 .. Total)
    <3>1. fed \in Nat /\ 0 .. fed \subseteq 0 .. Total
      BY <1>3, Sizes
    <3>2. Bytes(from + taken, fed) \in Seq(0 .. fed)
      BY <3>1, <2>15, BytesProperties
    <3>3. Bytes(from + taken, fed) \in Seq(0 .. Total)
      BY <3>1, <3>2, SeqMonotonic
    <3> QED
      BY <3>3, <2>16
  <2>19. /\ stream' \in Streams /\ fed' \in 0 .. Total /\ need_properties' \in BOOLEAN
         /\ max_length' \in {-1} \cup MaxLengths /\ dec' \in DecoderRec
         /\ total_out' \in 0 .. MaxYield * PayloadLen
    BY <1>1, <1>2, <1>3, <2>7, <2>8, <2>9 DEF TypeOK
  <2>20. Decodable(fed)' = Decodable(fed)
    BY <1>1 DEF Decodable
  <2>21. CASE failed
    <3>1. /\ last' = [call |-> "flush", result |-> "ValueError", n |-> 0] /\ flushing' = NULL
          /\ delivered' = delivered /\ total_out' = total_out
      BY <1>3, <2>7, <2>21
    <3>2. TypeOK'
      BY <1>3, <2>15, <2>18, <2>19, <3>1 DEF TypeOK, DecoderRec
    <3>3. a.mode = "error" => stream.damage # 0 /\ stream.damage <= a.consumed
      BY <2>2 DEF FlushDecoded, DecoderOK
    <3>4. a.mode # "error" => max_length > Decodable(fed)
      <4>1. SUFFICES ASSUME a.mode # "error" PROVE max_length > Decodable(fed)
        OBVIOUS
      <4>2. out = 0 /\ total_out < max_length /\ max_length # -1
        BY <4>1, <2>6, <2>21
      <4>3. max_length \in Nat
        BY <4>2, <1>3, SizesAssumption
      <4>4. Decodable(fed) = total_out
        BY <4>1, <4>2, <1>3, <2>9
      <4> QED
        BY <4>2, <4>3, <4>4, <1>3
    <3>5. SoundInputAccepted'
      BY <1>1, <2>20, <3>1, <3>3, <3>4 DEF SoundInputAccepted
    <3>6. CauseInv'
      <4>1. SUFFICES ASSUME ~MayFlushStale PROVE Contract!MayRaise("ValueError", fed)'
        BY <4>1, <3>1 DEF CauseInv
      <4>2. CASE a.mode # "error"
        <5>1. Contract!Known(fed) = Decodable(fed)
          BY DEF Contract!Known, Decodable
        <5>2. max_length' > Contract!Known(fed)'
          BY <5>1, <4>2, <3>4, <1>1 DEF Contract!Known
        <5> QED
          BY <5>2 DEF Contract!MayRaise
      <4>3. CASE a.mode = "error"
        <5>1. ~LeftOver(dec)
          BY <4>1, <1>1, <1>2 DEF CauseInv
        <5>2. ~need_properties
          BY <5>1, <4>3, <1>2, <2>2 DEF LeftOver, FlushDecoded
        <5>3. Taken' = PropsLen + a.consumed /\ Taken' <= fed
          BY <5>2, <1>1, <2>7, <2>13, <2>14, <2>15 DEF Taken
        <5>4. stream.damage \in Nat
          BY <1>2, StreamFacts, Sizes DEF TypeOK
        <5>5. fed >= PropsLen + stream.damage
          BY <5>3, <5>4, <4>3, <3>3, <2>8, <1>3, Sizes
        <5> QED
          BY <5>5, <4>3, <3>3, <1>1 DEF Contract!MayRaise
      <4> QED
        BY <4>2, <4>3
    <3> QED
      BY <1>3, <2>11, <2>17, <3>1, <3>2, <3>5, <3>6 DEF ObjectInv, OutputInv, FlushDrains, GivesMore
  <2>22. CASE ~failed /\ (out < flushing.avail_out \/ max_length # -1)
    <3>1. /\ last' = [call |-> "flush", result |-> "bytes", n |-> size] /\ flushing' = NULL
          /\ delivered' = delivered + size /\ total_out' = total_out + out
      BY <2>7, <2>22
    <3>2. delivered' = total_out' /\ total_out' \in Nat
      BY <1>3, <2>9, <2>10, <3>1
    <3>3. last'.n \in 0 .. total_out'
      BY <2>10, <3>1, <3>2
    <3>4. TypeOK'
      BY <2>15, <2>18, <2>19, <3>1, <3>2, <3>3 DEF TypeOK, DecoderRec
    <3>5. a.mode # "error"
      BY <2>6, <2>22
    <3>6. FlushDrains'
      BY <1>1, <2>9, <2>20, <2>22, <3>1, <3>2, <3>5 DEF FlushDrains
    <3>7. ~need_properties => total_out' = dec'.produced /\ dec'.mode \in {"live", "finished"}
      BY <1>2, <2>2, <2>7, <2>9, <3>1, <3>5 DEF OutputInv, FlushDecoded
    <3>8. need_properties => total_out' = 0 /\ fed < PropsLen
      BY <1>2, <2>10, <3>1 DEF OutputInv
    <3>9. OutputInv'
      BY <1>1, <3>1, <3>2, <3>7, <3>8 DEF OutputInv
    <3>10. GivesMore
      BY <1>3, <2>10, <3>1 DEF GivesMore
    <3> QED
      BY <2>11, <2>17, <3>1, <3>4, <3>6, <3>9, <3>10 DEF ObjectInv, SoundInputAccepted, CauseInv
  <2>23. CASE ~failed /\ ~(out < flushing.avail_out \/ max_length # -1)
    <3>1. /\ last' = last /\ flushing' = [avail_out |-> BLOCK_SIZE, outsize |-> size]
          /\ delivered' = delivered /\ total_out' = total_out + out
      BY <2>7, <2>23
    <3>2. /\ flushing' \in [avail_out : Nat \ {0}, outsize : 0 .. total_out'] /\ flushing'.outsize = size
          /\ flushing' # NULL
      <4>1. size \in 0 .. total_out' /\ size \in Nat /\ BLOCK_SIZE \in Nat \ {0}
        BY <2>10, <3>1, <2>9, SizesAssumption
      <4>2. NULL \notin [avail_out : Nat, outsize : Nat]
        BY SizesAssumption
      <4> QED
        BY <3>1, <4>1, <4>2
    <3>3. delivered' \in 0 .. total_out' /\ last'.n \in 0 .. total_out'
      <4>1. total_out' \in Nat /\ total_out <= total_out' /\ total_out \in Nat /\ delivered <= total_out'
        BY <1>3, <2>9, <2>10, <3>1
      <4>2. last.n \in 0 .. total_out
        BY <1>2 DEF TypeOK
      <4> QED
        BY <1>3, <3>1, <4>1, <4>2
    <3>4. TypeOK'
      BY <1>2, <2>15, <2>18, <2>19, <3>1, <3>2, <3>3 DEF TypeOK, DecoderRec
    <3>5. a.mode # "error"
      BY <2>6, <2>23
    <3>6. ~need_properties => total_out' = dec'.produced /\ dec'.mode \in {"live", "finished"}
      BY <1>2, <2>2, <2>7, <2>9, <3>1, <3>5 DEF OutputInv, FlushDecoded
    <3>7. need_properties => total_out' = 0 /\ fed < PropsLen
      BY <1>2, <2>10, <3>1 DEF OutputInv
    <3>8. OutputInv'
      BY <1>1, <1>2, <2>10, <3>1, <3>2, <3>6, <3>7 DEF OutputInv
    <3>9. FlushDrains' /\ SoundInputAccepted' /\ last'.result # "MemoryError"
      BY <1>1, <1>2, <2>20, <3>1 DEF FlushDrains, SoundInputAccepted
    <3>10. GivesMore
      BY <1>2, <1>3, <3>1 DEF GivesMore
    <3>11. CauseInv'
      <4>1. SUFFICES ASSUME ~MayFlushStale PROVE ~LeftOver(dec')
        BY <4>1, <3>1, <1>2 DEF CauseInv, LeftOver
      <4>2. ~LeftOver(dec)
        BY <4>1, <1>1, <1>2 DEF CauseInv
      <4>3. need_properties => a = dec
        BY <2>2 DEF FlushDecoded
      <4>4. ~need_properties => a.tables
        BY <1>2, <2>2 DEF FlushDecoded
      <4> QED
        BY <4>2, <4>3, <4>4, <2>7 DEF LeftOver
    <3> QED
      BY <2>11, <2>17, <3>4, <3>8, <3>9, <3>10, <3>11 DEF ObjectInv
  <2> QED
    BY <2>21, <2>22, <2>23
<1> QED
  BY <1>4, <1>5

\* reset() makes a new object; the decoder keeps what it has, without its tables.
LEMMA ResetKeeps ==
  ASSUME ObjectInv, Reset PROVE ObjectInv'
<1>1. /\ flushing = NULL /\ dec' = [dec EXCEPT !.tables = FALSE]
      /\ unconsumed_tail' = NULL /\ unconsumed_length' = 0 /\ need_properties' = TRUE /\ total_out' = 0
      /\ max_length' \in {-1} \cup MaxLengths /\ fed' = 0 /\ delivered' = 0
      /\ last' = [call |-> "none", result |-> "bytes", n |-> 0]
      /\ stream' = stream /\ flushing' = flushing
  BY DEF Reset, Nothing
<1>2. TypeOK /\ DecoderOK(dec) /\ dec \in DecoderRec
  BY DEF ObjectInv, DecoderOK
<1>3. /\ dec' \in DecoderRec /\ dec'.consumed = dec.consumed /\ dec'.produced = dec.produced
      /\ dec'.mode = dec.mode /\ dec'.tables = FALSE
  BY <1>1, <1>2 DEF DecoderRec
<1>4. DecoderOK(dec)'
  BY <1>1, <1>2, <1>3 DEF DecoderOK
<1>5. TypeOK'
  BY <1>1, <1>2, <1>3, Sizes DEF TypeOK, DecoderRec
<1>6. Taken' = 0
  BY <1>1 DEF Taken
<1>7. TailInv' /\ OutputInv'
  BY <1>1, <1>6, Sizes DEF TailInv, OutputInv
<1> QED
  BY <1>1, <1>3, <1>4, <1>5, <1>7 DEF ObjectInv, FlushDrains, SoundInputAccepted, CauseInv

\* A step that is not a reset goes on with the same stream, after the bytes that
\* were passed before.
LEMMA StepKeeps ==
  ASSUME ObjectInv, ~MayStartEmpty, Decompress \/ FlushNothing \/ FlushBegin \/ FlushRound
  PROVE  /\ ObjectInv' /\ GivesMore
         /\ stream' = stream /\ last.result = "bytes" /\ fed <= fed' /\ max_length' = max_length
<1>1. CASE Decompress
  <2>1. PICK n \in ChunkSizes : \/ WaitForProperties(n) \/ RejectProperties(n)
                                \/ \E bufsize \in BufSizes : ReadProperties(n, bufsize) \/ Continue(n, bufsize)
    BY <1>1 DEF Decompress
  <2>2. CanPass(n) /\ fed' = fed + n /\ stream' = stream /\ max_length' = max_length
    BY <2>1 DEF WaitForProperties, RejectProperties, ReadProperties, Continue, Pass
  <2>3. last.result = "bytes" /\ fed <= fed'
    BY <2>2, BeforeDecompress
  <2> QED
    BY <2>1, <2>2, <2>3, PropertiesKeep, ReadPropertiesKeeps, ContinueKeeps
<1>2. CASE FlushNothing \/ FlushBegin \/ FlushRound
  <2>1. stream' = stream /\ fed' = fed /\ fed \in Nat /\ max_length' = max_length
    BY <1>2, Sizes DEF FlushNothing, FlushBegin, FlushRound, ObjectInv, TypeOK
  <2>2. last.result = "bytes"
    BY <1>2 DEF FlushNothing, FlushBegin, FlushRound, Usable, ObjectInv, OutputInv
  <2> QED
    BY <1>2, <2>1, <2>2, FlushBeginKeeps, FlushRoundKeeps
<1> QED
  BY <1>1, <1>2

\* What was returned is determined by what was passed.
LEMMA ReturnedIsKnown ==
  ASSUME ObjectInv, last.result = "bytes"
  PROVE  delivered \in 0 .. Decodable(fed)
<1>1. /\ stream \in Streams /\ DecoderOK(dec) /\ fed \in 0 .. Total /\ delivered \in 0 .. total_out
      /\ total_out \in 0 .. MaxYield * PayloadLen
  BY DEF ObjectInv, TypeOK
<1>2. CASE need_properties
  <2>1. total_out = 0 /\ fed < PropsLen
    BY <1>2 DEF ObjectInv, OutputInv
  <2>2. Decodable(fed) = 0
    BY <2>1, <1>1, Sizes DEF Decodable
  <2> QED
    BY <2>1, <2>2, <1>1
<1>3. CASE ~need_properties
  <2>1. total_out = dec.produced /\ PropsLen + dec.consumed <= fed
    BY <1>3 DEF ObjectInv, OutputInv, TailInv, Taken
  <2>2. /\ dec.consumed \in 0 .. PayloadLen /\ dec.produced \in 0 .. MaxYield * PayloadLen
        /\ dec.produced <= stream.reach[dec.consumed]
    BY <1>1 DEF DecoderOK, DecoderRec
  <2>3. PICK k : k = fed - PropsLen
    OBVIOUS
  <2>4. k \in dec.consumed .. PayloadLen /\ k \in 0 .. PayloadLen /\ fed = PropsLen + k
    BY <1>1, <2>1, <2>2, <2>3, Sizes
  <2>5. /\ stream.reach[dec.consumed] <= stream.reach[k] /\ stream.reach[0] = 0
        /\ stream.reach[k] \in 0 .. MaxYield * PayloadLen
        /\ stream.reach[dec.consumed] \in 0 .. MaxYield * PayloadLen
    BY <1>1, <2>2, <2>4, StreamFacts
  <2>6. Decodable(fed) = stream.reach[k]
    <3>1. CASE k = 0
      BY <3>1, <2>4, <2>5, Sizes DEF Decodable
    <3>2. CASE k # 0
      BY <3>2, <2>3, <2>4, Sizes DEF Decodable
    <3> QED
      BY <3>1, <3>2
  <2>7. delivered <= dec.produced /\ delivered \in Nat
    BY <1>1, <2>1
  <2> QED
    BY <2>2, <2>5, <2>6, <2>7, Sizes
<1>4. need_properties \in BOOLEAN
  BY DEF ObjectInv, TypeOK
<1> QED
  BY <1>2, <1>3, <1>4

\* The invariant is inductive.
LEMMA ObjectInvariant ==
  ASSUME ~MayStartEmpty
  PROVE  Spec => []ObjectInv
<1>1. Init => ObjectInv
  BY InitObject
<1>2. ObjectInv /\ [Next]_vars => ObjectInv'
  <2>1. SUFFICES ASSUME ObjectInv, [Next]_vars PROVE ObjectInv'
    OBVIOUS
  <2>2. CASE UNCHANGED vars
    BY <2>1, <2>2
       DEF vars, tailVars, ObjectInv, TypeOK, DecoderOK, TailInv, OutputInv, FlushDrains,
           SoundInputAccepted, Taken, Decodable, Bytes, CauseInv, LeftOver, Contract!MayRaise,
           Contract!Known
  <2> QED
    BY <2>1, <2>2, StepKeeps, ResetKeeps DEF Next
<1> QED
  BY <1>1, <1>2, PTL DEF Spec

-----------------------------------------------------------------------------
(* The theorems                                                            *)

(* Nothing is lost, repeated or left behind on the way through decompress()    *)
(* and flush(): the tail holds the bytes that the decoder did not take, and    *)
(* what was produced was returned, for every stream and all sizes, provided    *)
(* that the caller does not begin with an empty piece.                         *)
THEOREM BytesAreAccounted ==
  ASSUME ~MayStartEmpty
  PROVE  Spec => []BytesAccounted
<1>1. ObjectInv => BytesAccounted
  <2>1. SUFFICES ASSUME ObjectInv PROVE BytesAccounted
    OBVIOUS
  <2>2. TypeOK /\ FlushDrains /\ last.result # "MemoryError"
    BY <2>1 DEF ObjectInv
  <2>3. InputKept
    <3>1. SUFFICES ASSUME last.result = "bytes"
                   PROVE  /\ unconsumed_length = fed - Taken
                          /\ unconsumed_length > 0 => unconsumed_tail = Bytes(Taken, fed)
      BY <2>2 DEF InputKept
    <3>2. /\ unconsumed_length = fed - Taken
          /\ unconsumed_tail = IF unconsumed_length = 0 THEN NULL ELSE Bytes(Taken, fed)
      BY <2>1, <3>1 DEF ObjectInv, TailInv
    <3> QED
      BY <3>2
  <2>4. OutputDelivered
    BY <2>1 DEF ObjectInv, OutputInv, OutputDelivered
  <2> QED
    BY <2>2, <2>3, <2>4 DEF BytesAccounted
<1> QED
  BY <1>1, ObjectInvariant, PTL

(* A stream that is not damaged is not rejected, except by flush() when        *)
(* max_length is more than the stream holds; and properties are rejected only  *)
(* if they are bad.                                                            *)
THEOREM SoundInputIsAccepted ==
  ASSUME ~MayStartEmpty
  PROVE  Spec => []SoundInputAccepted
<1>1. ObjectInv => SoundInputAccepted
  BY DEF ObjectInv
<1> QED
  BY <1>1, ObjectInvariant, PTL

(* The object implements the streaming decoder of StreamDecoder: it takes the  *)
(* next bytes, returns the next bytes of what those it has determine, raises   *)
(* an exception only for what it was passed, and is as good as new after       *)
(* reset(), if the caller does not begin with an empty piece and does not      *)
(* flush an object that still has the decoder of the stream before.            *)
THEOREM ObjectIsStreamDecoder ==
  ASSUME ~MayStartEmpty, ~MayFlushStale
  PROVE  Spec => ImplementsStreamDecoder
<1>0. ObjectInv /\ last.result = "bytes" => delivered \in 0 .. Decodable(fed)
  BY ReturnedIsKnown
<1>1. Init => Contract!DecoderInit
  BY DEF Init, Nothing, Contract!DecoderInit
<1>2. ObjectInv /\ ObjectInv' /\ [Next]_vars => [Contract!DecoderNext]_(Contract!decoderVars)
  <2>1. SUFFICES ASSUME ObjectInv, ObjectInv', [Next]_vars
                 PROVE  [Contract!DecoderNext]_(Contract!decoderVars)
    OBVIOUS
  <2>2. CASE UNCHANGED vars
    BY <2>2 DEF vars, Contract!decoderVars
  <2>3. CASE Reset
    <3>1. /\ fed' = 0 /\ delivered' = 0 /\ last'.result = "bytes" /\ stream' = stream
          /\ max_length' = -1 \/ max_length' \in Nat
      BY <2>3, SizesAssumption DEF Reset, Nothing
    <3> QED
      BY <3>1 DEF Contract!DecoderNext, Contract!ResetDecoder
  <2>4. CASE Decompress \/ FlushNothing \/ FlushBegin \/ FlushRound
    <3>1. /\ GivesMore /\ stream' = stream /\ last.result = "bytes" /\ fed <= fed'
          /\ max_length' = max_length
      BY <2>1, <2>4, StepKeeps
    <3>2. fed \in Nat /\ fed' \in 0 .. Total /\ delivered \in Nat /\ delivered' \in Nat
      BY <2>1, Sizes DEF ObjectInv, TypeOK
    <3>3. fed' \in fed .. PropsLen + PayloadLen
      BY <3>1, <3>2, Sizes
    <3>4. (last.result = "bytes" => delivered \in 0 .. Decodable(fed))'
      BY <2>1, <1>0, PTL
    <3>5. last'.result = "bytes" => delivered' \in delivered .. Contract!Known(fed')
      <4>1. Decodable(fed)' = Contract!Known(fed')
        BY <3>1 DEF Decodable, Contract!Known
      <4> QED
        BY <3>1, <3>2, <3>4, <4>1 DEF GivesMore
    <3>6. last'.result # "bytes" =>
            delivered' = delivered /\ Contract!MayRaise(last'.result, fed')
      <4>1. SUFFICES ASSUME last'.result # "bytes"
                     PROVE  delivered' = delivered /\ Contract!MayRaise(last'.result, fed')
        OBVIOUS
      <4>2. delivered' = delivered
        BY <4>1, <3>1 DEF GivesMore
      <4> QED
        BY <4>1, <4>2, <3>1, <2>1 DEF ObjectInv, CauseInv, Contract!MayRaise, Contract!Known
    <3>7. Contract!Call
      BY <3>1, <3>3, <3>5, <3>6 DEF Contract!Call
    <3> QED
      BY <3>7 DEF Contract!DecoderNext
  <2> QED
    BY <2>1, <2>2, <2>3, <2>4 DEF Next
<1> QED
  BY <1>1, <1>2, ObjectInvariant, PTL DEF Spec, ImplementsStreamDecoder, Contract!DecoderSpec
=============================================================================
