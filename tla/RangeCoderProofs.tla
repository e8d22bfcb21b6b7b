-------------------------- MODULE RangeCoderProofs --------------------------
(***************************************************************************)
(* The range coder of LzmaEnc.c and LzmaDec.c for every number of byte     *)
(* values, all sizes of probabilities and all sequences of bits.           *)
(***************************************************************************)
EXTENDS RangeCoder, SequenceTheorems, WellFoundedInduction, TLAPS

-----------------------------------------------------------------------------
(* Numbers                                                                 *)

\* Induction: a set with 0 and the successors of its members has every number.
LEMMA EveryNumber ==
  ASSUME NEW T, 0 \in T, \A n \in Nat : n \in T => n + 1 \in T
  PROVE  \A n \in Nat : n \in T
<1> DEFINE Others == Nat \ T
<1>1. SUFFICES ASSUME Others # {} PROVE FALSE
  OBVIOUS
<1>2. IsWellFoundedOn(OpToRel(<, Nat), Nat)
  BY NatLessThanWellFounded
<1>3. PICK x \in Others : \A y \in Others : ~(<<y, x>> \in OpToRel(<, Nat))
  BY <1>1, <1>2, WFMin
<1>4. \A y \in Others : ~(y < x)
  BY <1>3 DEF OpToRel
<1>5. x # 0 /\ x \in Nat
  OBVIOUS
<1>6. x - 1 \in Nat /\ x - 1 < x
  BY <1>5
<1>7. x - 1 \in T
  BY <1>4, <1>6
<1>8. x \in T
  BY <1>6, <1>7
<1> QED
  BY <1>8

LEMMA TimesMonotone ==
  ASSUME NEW a \in Nat, NEW b \in Nat, NEW c \in Nat, a <= b
  PROVE  a * c <= b * c /\ c * a <= c * b
OBVIOUS

\* What division and remainder are.
LEMMA DivMod ==
  ASSUME NEW a \in Nat, NEW d \in Nat, d > 0
  PROVE  a \div d \in Nat /\ (a % d) \in 0 .. d - 1 /\ a = d * (a \div d) + (a % d)
OBVIOUS

LEMMA DivModUnique ==
  ASSUME NEW q \in Nat, NEW d \in Nat, NEW e \in Nat, e < d
  PROVE  ((d * q + e) \div d) = q /\ ((d * q + e) % d) = e
<1> DEFINE a == d * q + e
           x == a \div d
           y == a % d
<1>1. a \in Nat /\ d > 0
  OBVIOUS
<1>2. x \in Nat /\ y \in 0 .. d - 1 /\ a = d * x + y
  BY <1>1, DivMod
<1>3. ~(x >= q + 1)
  <2>1. x >= q + 1 => d * (q + 1) <= d * x
    BY <1>2, TimesMonotone
  <2> QED
    BY <2>1, <1>2
<1>4. ~(q >= x + 1)
  <2>1. q >= x + 1 => d * (x + 1) <= d * q
    BY <1>2, TimesMonotone
  <2> QED
    BY <2>1, <1>2
<1> QED
  BY <1>2, <1>3, <1>4
-----------------------------------------------------------------------------
(* What the recursive definitions compute                                  *)

LEMMA SendAllSteps ==
  ASSUME NEW a, NEW first, NEW rest, NEW m \in Nat
  PROVE  /\ SendAll(a, first, rest, 0) = Send(a, first)
         /\ SendAll(a, first, rest, m + 1) = Send(SendAll(a, first, rest, m), rest)
<1> DEFINE Is(g, n) == g = [k \in 0 .. n |-> IF k = 0 THEN Send(a, first) ELSE Send(g[k - 1], rest)]
           The(n)   == CHOOSE g : Is(g, n)
<1>1. \A n \in Nat : \E g : Is(g, n)
  <2> DEFINE T == {n \in Nat : \E g : Is(g, n)}
  <2>1. 0 \in T
    <3>1. Is([k \in 0 .. 0 |-> Send(a, first)], 0)
      OBVIOUS
    <3> QED
      BY <3>1
  <2>2. ASSUME NEW n \in Nat, n \in T PROVE n + 1 \in T
    <3>1. PICK g : Is(g, n)
      BY <2>2
    <3> DEFINE h == [k \in 0 .. n + 1 |-> IF k \in 0 .. n THEN g[k] ELSE Send(g[n], rest)]
    <3>2. ASSUME NEW k \in 0 .. n + 1
          PROVE  h[k] = IF k = 0 THEN Send(a, first) ELSE Send(h[k - 1], rest)
      <4>1. CASE k = n + 1
        <5>1. h[k] = Send(g[n], rest) /\ h[k - 1] = g[n]
          BY <4>1
        <5> QED
          BY <5>1, <4>1
      <4>2. CASE k \in 0 .. n
        <5>1. h[k] = g[k] /\ (k # 0 => h[k - 1] = g[k - 1])
          BY <4>2
        <5>2. g[k] = IF k = 0 THEN Send(a, first) ELSE Send(g[k - 1], rest)
          BY <4>2, <3>1
        <5> QED
          BY <5>1, <5>2
      <4> QED
        BY <4>1, <4>2
    <3>3. h = [k \in 0 .. n + 1 |-> IF k = 0 THEN Send(a, first) ELSE Send(h[k - 1], rest)]
      BY <3>2
    <3> HIDE DEF h
    <3>4. \E f : Is(f, n + 1)
      BY <3>3
    <3> QED
      BY <3>4
  <2> HIDE DEF T
  <2>3. \A n \in Nat : n \in T
    BY <2>1, <2>2, EveryNumber
  <2> QED
    BY <2>3 DEF T
<1>2. \A n \in Nat : Is(The(n), n)
  BY <1>1
<1>3. \A n \in Nat : SendAll(a, first, rest, n) = The(n)[n]
  BY DEF SendAll
<1> HIDE DEF The
<1>4. \A n \in Nat : The(n)[0] = Send(a, first) /\ \A k \in 1 .. n : The(n)[k] = Send(The(n)[k - 1], rest)
  BY <1>2
<1>5. ASSUME NEW n \in Nat PROVE The(n + 1)[n] = The(n)[n]
  <2> DEFINE T == {k \in Nat : k <= n => The(n + 1)[k] = The(n)[k]}
  <2>1. 0 \in T
    BY <1>4
  <2>2. ASSUME NEW k \in Nat, k \in T PROVE k + 1 \in T
    <3>1. k + 1 <= n => /\ The(n)[k + 1] = Send(The(n)[k], rest)
                        /\ The(n + 1)[k + 1] = Send(The(n + 1)[k], rest)
      BY <1>4
    <3> QED
      BY <2>2, <3>1
  <2> HIDE DEF T
  <2>3. n \in T
    BY <2>1, <2>2, EveryNumber
  <2> QED
    BY <2>3 DEF T
<1> QED
  BY <1>3, <1>4, <1>5

\* The number of a sequence is that of its front, one digit further, and its last digit.
LEMMA NumberSteps ==
  ASSUME NEW t \in Seq(Nat), NEW x \in Nat
  PROVE  Number(<<>>) = 0 /\ Number(Append(t, x)) = Number(t) * B + x
<1> DEFINE u        == Append(t, x)
           Shifted(v, d) == v * B + d
           Is(g, w, n) == g = [k \in 0 .. n |-> IF k = 0 THEN 0 ELSE Shifted(g[k - 1], w[k])]
           The(w, n)   == CHOOSE g : Is(g, w, n)
<1>1. \A w : \A n \in Nat : \E g : Is(g, w, n)
  <2> SUFFICES ASSUME NEW w PROVE \A n \in Nat : \E g : Is(g, w, n)
    OBVIOUS
  <2> DEFINE T == {n \in Nat : \E g : Is(g, w, n)}
  <2>1. 0 \in T
    <3>1. Is([k \in 0 .. 0 |-> 0], w, 0)
      OBVIOUS
    <3> QED
      BY <3>1
  <2>2. ASSUME NEW n \in Nat, n \in T PROVE n + 1 \in T
    <3>1. PICK g : Is(g, w, n)
      BY <2>2
    <3> DEFINE h == [k \in 0 .. n + 1 |-> IF k \in 0 .. n THEN g[k] ELSE Shifted(g[n], w[n + 1])]
    <3>2. ASSUME NEW k \in 0 .. n + 1
          PROVE  h[k] = IF k = 0 THEN 0 ELSE Shifted(h[k - 1], w[k])
      <4>1. CASE k = n + 1
        <5>1. h[k] = Shifted(g[n], w[n + 1]) /\ h[k - 1] = g[n]
          BY <4>1
        <5> QED
          BY <5>1, <4>1
      <4>2. CASE k \in 0 .. n
        <5>1. h[k] = g[k] /\ (k # 0 => h[k - 1] = g[k - 1])
          BY <4>2
        <5>2. g[k] = IF k = 0 THEN 0 ELSE Shifted(g[k - 1], w[k])
          BY <4>2, <3>1
        <5> QED
          BY <5>1, <5>2
      <4> QED
        BY <4>1, <4>2
    <3>3. h = [k \in 0 .. n + 1 |-> IF k = 0 THEN 0 ELSE Shifted(h[k - 1], w[k])]
      BY <3>2
    <3> HIDE DEF h
    <3>4. \E f : Is(f, w, n + 1)
      BY <3>3
    <3> QED
      BY <3>4
  <2> HIDE DEF T
  <2>3. \A n \in Nat : n \in T
    BY <2>1, <2>2, EveryNumber
  <2> QED
    BY <2>3 DEF T
<1>2. \A w : \A n \in Nat : Is(The(w, n), w, n)
  BY <1>1
<1>3. \A w : Number(w) = The(w, Len(w))[Len(w)]
  BY DEF Number
<1> HIDE DEF The
<1>4. \A w : \A n \in Nat : /\ The(w, n)[0] = 0
                            /\ \A k \in 1 .. n : The(w, n)[k] = Shifted(The(w, n)[k - 1], w[k])
  BY <1>2
<1>5. Number(<<>>) = 0
  <2>1. Len(<<>>) = 0 /\ The(<<>>, 0)[0] = 0
    BY <1>4
  <2>2. Number(<<>>) = The(<<>>, Len(<<>>))[Len(<<>>)]
    BY <1>3
  <2> QED
    BY <2>1, <2>2
<1>6. u \in Seq(Nat) /\ Len(t) \in Nat /\ Len(u) = Len(t) + 1 /\ u[Len(t) + 1] = x /\ \A k \in 1 .. Len(t) : u[k] = t[k]
  OBVIOUS
<1> HIDE DEF u, Shifted
<1>7. The(u, Len(t) + 1)[Len(t)] = The(t, Len(t))[Len(t)]
  <2> DEFINE T == {k \in Nat : k <= Len(t) => The(u, Len(t) + 1)[k] = The(t, Len(t))[k]}
  <2>1. 0 \in T
    BY <1>4, <1>6
  <2>2. ASSUME NEW k \in Nat, k \in T PROVE k + 1 \in T
    <3>1. ASSUME k + 1 <= Len(t)
          PROVE  The(u, Len(t) + 1)[k + 1] = The(t, Len(t))[k + 1]
      <4>1. The(t, Len(t))[k + 1] = Shifted(The(t, Len(t))[k], t[k + 1])
        BY <1>4, <1>6, <3>1
      <4>2. The(u, Len(t) + 1)[k + 1] = Shifted(The(u, Len(t) + 1)[k], u[k + 1])
        <5>1. \A i \in 1 .. Len(t) + 1 : The(u, Len(t) + 1)[i] = Shifted(The(u, Len(t) + 1)[i - 1], u[i])
          <6>1. Len(t) + 1 \in Nat
            BY <1>6
          <6>2. \A n \in Nat : \A i \in 1 .. n : The(u, n)[i] = Shifted(The(u, n)[i - 1], u[i])
            BY <1>4
          <6> QED
            BY <6>1, <6>2
        <5>2. k + 1 \in 1 .. Len(t) + 1 /\ (k + 1) - 1 = k
          BY <1>6, <3>1
        <5> QED
          BY <5>1, <5>2
      <4>3. The(u, Len(t) + 1)[k] = The(t, Len(t))[k] /\ u[k + 1] = t[k + 1]
        BY <1>6, <2>2, <3>1
      <4> QED
        BY <4>1, <4>2, <4>3
    <3> QED
      BY <3>1
  <2> HIDE DEF T
  <2>3. Len(t) \in T
    BY <1>6, <2>1, <2>2, EveryNumber
  <2> QED
    BY <2>3 DEF T
<1>8. Number(u) = Shifted(Number(t), x)
  <2>1. The(u, Len(t) + 1)[Len(t) + 1] = Shifted(The(u, Len(t) + 1)[Len(t)], u[Len(t) + 1])
    BY <1>4, <1>6
  <2> QED
    BY <1>3, <1>6, <1>7, <2>1
<1> QED
  BY <1>5, <1>8 DEF u, Shifted

\* The decoder reads one bit after the other.
LEMMA ReadAllSteps ==
  ASSUME NEW s, NEW X, NEW t \in Seq(X), NEW x \in X
  PROVE  ReadAll(s, <<>>) = Started(s) /\ ReadAll(s, Append(t, x)) = Read(ReadAll(s, t), s, x)
<1> DEFINE u        == Append(t, x)
           Is(g, w, n) == g = [k \in 0 .. n |-> IF k = 0 THEN Started(s) ELSE Read(g[k - 1], s, w[k])]
           The(w, n)   == CHOOSE g : Is(g, w, n)
<1>1. \A w : \A n \in Nat : \E g : Is(g, w, n)
  <2> SUFFICES ASSUME NEW w PROVE \A n \in Nat : \E g : Is(g, w, n)
    OBVIOUS
  <2> DEFINE T == {n \in Nat : \E g : Is(g, w, n)}
  <2>1. 0 \in T
    <3>1. Is([k \in 0 .. 0 |-> Started(s)], w, 0)
      OBVIOUS
    <3> QED
      BY <3>1
  <2>2. ASSUME NEW n \in Nat, n \in T PROVE n + 1 \in T
    <3>1. PICK g : Is(g, w, n)
      BY <2>2
    <3> DEFINE h == [k \in 0 .. n + 1 |-> IF k \in 0 .. n THEN g[k] ELSE Read(g[n], s, w[n + 1])]
    <3>2. ASSUME NEW k \in 0 .. n + 1
          PROVE  h[k] = IF k = 0 THEN Started(s) ELSE Read(h[k - 1], s, w[k])
      <4>1. CASE k = n + 1
        <5>1. h[k] = Read(g[n], s, w[n + 1]) /\ h[k - 1] = g[n]
          BY <4>1
        <5> QED
          BY <5>1, <4>1
      <4>2. CASE k \in 0 .. n
        <5>1. h[k] = g[k] /\ (k # 0 => h[k - 1] = g[k - 1])
          BY <4>2
        <5>2. g[k] = IF k = 0 THEN Started(s) ELSE Read(g[k - 1], s, w[k])
          BY <4>2, <3>1
        <5> QED
          BY <5>1, <5>2
      <4> QED
        BY <4>1, <4>2
    <3>3. h = [k \in 0 .. n + 1 |-> IF k = 0 THEN Started(s) ELSE Read(h[k - 1], s, w[k])]
      BY <3>2
    <3> HIDE DEF h
    <3>4. \E f : Is(f, w, n + 1)
      BY <3>3
    <3> QED
      BY <3>4
  <2> HIDE DEF T
  <2>3. \A n \in Nat : n \in T
    BY <2>1, <2>2, EveryNumber
  <2> QED
    BY <2>3 DEF T
<1>2. \A w : \A n \in Nat : Is(The(w, n), w, n)
  BY <1>1
<1>3. \A w : ReadAll(s, w) = The(w, Len(w))[Len(w)]
  BY DEF ReadAll
<1> HIDE DEF The
<1>4. \A w : \A n \in Nat : /\ The(w, n)[0] = Started(s)
                            /\ \A k \in 1 .. n : The(w, n)[k] = Read(The(w, n)[k - 1], s, w[k])
  BY <1>2
<1>5. ReadAll(s, <<>>) = Started(s)
  <2>1. Len(<<>>) = 0 /\ The(<<>>, 0)[0] = Started(s)
    BY <1>4
  <2>2. ReadAll(s, <<>>) = The(<<>>, Len(<<>>))[Len(<<>>)]
    BY <1>3
  <2> QED
    BY <2>1, <2>2
<1>6. u \in Seq(X) /\ Len(t) \in Nat /\ Len(u) = Len(t) + 1 /\ u[Len(t) + 1] = x /\ \A k \in 1 .. Len(t) : u[k] = t[k]
  OBVIOUS
<1> HIDE DEF u
<1>7. The(u, Len(t) + 1)[Len(t)] = The(t, Len(t))[Len(t)]
  <2> DEFINE T == {k \in Nat : k <= Len(t) => The(u, Len(t) + 1)[k] = The(t, Len(t))[k]}
  <2>1. 0 \in T
    BY <1>4, <1>6
  <2>2. ASSUME NEW k \in Nat, k \in T PROVE k + 1 \in T
    <3>1. ASSUME k + 1 <= Len(t)
          PROVE  The(u, Len(t) + 1)[k + 1] = The(t, Len(t))[k + 1]
      <4>1. The(t, Len(t))[k + 1] = Read(The(t, Len(t))[k], s, t[k + 1])
        BY <1>4, <1>6, <3>1
      <4>2. The(u, Len(t) + 1)[k + 1] = Read(The(u, Len(t) + 1)[k], s, u[k + 1])
        <5>1. \A i \in 1 .. Len(t) + 1 : The(u, Len(t) + 1)[i] = Read(The(u, Len(t) + 1)[i - 1], s, u[i])
          <6>1. Len(t) + 1 \in Nat
            BY <1>6
          <6>2. \A n \in Nat : \A i \in 1 .. n : The(u, n)[i] = Read(The(u, n)[i - 1], s, u[i])
            BY <1>4
          <6> QED
            BY <6>1, <6>2
        <5>2. k + 1 \in 1 .. Len(t) + 1 /\ (k + 1) - 1 = k
          BY <1>6, <3>1
        <5> QED
          BY <5>1, <5>2
      <4>3. The(u, Len(t) + 1)[k] = The(t, Len(t))[k] /\ u[k + 1] = t[k + 1]
        BY <1>6, <2>2, <3>1
      <4> QED
        BY <4>1, <4>2, <4>3
    <3> QED
      BY <3>1
  <2> HIDE DEF T
  <2>3. Len(t) \in T
    BY <1>6, <2>1, <2>2, EveryNumber
  <2> QED
    BY <2>3 DEF T
<1>8. ReadAll(s, u) = Read(ReadAll(s, t), s, x)
  <2>1. The(u, Len(t) + 1)[Len(t) + 1] = Read(The(u, Len(t) + 1)[Len(t)], s, u[Len(t) + 1])
    BY <1>4, <1>6
  <2> QED
    BY <1>3, <1>6, <1>7, <2>1
<1> QED
  BY <1>5, <1>8 DEF u
-----------------------------------------------------------------------------
(* Ranges and probabilities                                                *)

LEMMA SizesOK ==
  /\ B \in Nat /\ B >= 2 /\ Total \in Nat /\ Step \in Nat /\ Step >= 2 /\ Total >= 2 * Step
  /\ BufSize \in Nat /\ BufSize > 0 /\ Rooms \subseteq Nat
  /\ B * B \in Nat /\ Top \in Nat /\ W \in Nat /\ W = Top * B /\ 2 * (B * B) <= Top /\ 2 * Top <= W /\ B * B > 0
  /\ Top \div Total \in Nat /\ (Top \div Total) * (Step - 1) >= B * B
<1>1. /\ B \in Nat /\ B >= 2 /\ Total \in Nat /\ Step \in Nat /\ Step >= 2 /\ Total >= 2 * Step
      /\ BufSize \in Nat /\ BufSize > 0 /\ Rooms \subseteq Nat
  BY CoderAssumption
<1>2. B * B \in Nat /\ B * B > 0 /\ Top \in Nat /\ W \in Nat /\ W = Top * B /\ Top = (B * B) * B
  BY <1>1 DEF Top, W
<1>3. (B * B) * 2 <= (B * B) * B /\ Top * 2 <= Top * B
  BY <1>1, <1>2, TimesMonotone
<1>4. (Top \div Total) * (Step - 1) >= B * B
  BY CoderAssumption DEF Top
<1>5. Top \div Total \in Nat
  BY <1>1, <1>2, DivMod
<1> QED
  BY <1>1, <1>2, <1>3, <1>4, <1>5

Probabilities == Step - 1 .. Total - (Step - 1)

\* What Adapted takes away leaves at least Step - 1.
LEMMA AdaptedLeaves ==
  ASSUME NEW x \in Nat, x >= Step - 1
  PROVE  x \div Step \in Nat /\ x - (x \div Step) >= Step - 1 /\ x \div Step <= x
<1> DEFINE q == x \div Step
           e == x % Step
<1>1. q \in Nat /\ e \in Nat /\ x = Step * q + e /\ Step \in Nat /\ Step >= 2
  BY SizesOK, DivMod
<1> HIDE DEF q, e
<1>2. CASE q = 0
  BY <1>1, <1>2 DEF q
<1>3. CASE q >= 1
  <2>1. (Step - 1) * 1 <= (Step - 1) * q
    BY <1>1, <1>3, TimesMonotone
  <2>2. Step * q = (Step - 1) * q + q
    BY <1>1
  <2>3. (Step - 1) * q \in Nat
    BY <1>1
  <2> QED
    BY <1>1, <2>1, <2>2, <2>3 DEF q
<1> QED
  BY <1>1, <1>2, <1>3

LEMMA AdaptedOK ==
  ASSUME NEW p \in Probabilities, NEW bit \in {0, 1}
  PROVE  Adapted(p, bit) \in Probabilities
<1>1. p \in Nat /\ Total - p \in Nat /\ p >= Step - 1 /\ Total - p >= Step - 1 /\ Step \in Nat /\ Total \in Nat
  BY SizesOK DEF Probabilities
<1>2. (Total - p) \div Step \in Nat /\ (Total - p) - ((Total - p) \div Step) >= Step - 1
  BY <1>1, AdaptedLeaves
<1>3. p \div Step \in Nat /\ p - (p \div Step) >= Step - 1
  BY <1>1, AdaptedLeaves
<1> QED
  BY <1>1, <1>2, <1>3 DEF Adapted, Probabilities

LEMMA HalfProbOK == HalfProb \in [Contexts -> Probabilities]
<1>1. Total \div 2 \in Nat /\ 2 * (Total \div 2) <= Total /\ Total < 2 * (Total \div 2) + 2
  BY SizesOK
<1> QED
  BY <1>1, SizesOK DEF HalfProb, Probabilities

\* Both parts of a range are at least 2^16.
LEMMA CutsAreLarge ==
  ASSUME NEW r \in Nat, r >= Top, NEW p \in Probabilities
  PROVE  Bound(r, p) \in Nat /\ B * B <= Bound(r, p) /\ B * B <= r - Bound(r, p)
<1> DEFINE q == r \div Total
           t == Top \div Total
<1>1. q \in Nat /\ t \in Nat /\ Total * q <= r /\ r < Total * q + Total /\ Total * t <= Top /\ Total \in Nat
  BY SizesOK, DivMod
<1>2. t * (Step - 1) >= B * B /\ Step - 1 \in Nat /\ B * B \in Nat
  BY SizesOK
<1>3. p \in Nat /\ Step - 1 <= p /\ Step - 1 <= Total - p /\ Total - p \in Nat
  BY SizesOK DEF Probabilities
<1> HIDE DEF q, t
<1>4. t <= q
  <2>1. ~(q + 1 <= t)
    <3>1. q + 1 <= t => Total * (q + 1) <= Total * t
      BY <1>1, TimesMonotone
    <3>2. Total * (q + 1) = Total * q + Total /\ Total * q \in Nat /\ Total * t \in Nat
      BY <1>1
    <3> QED
      BY <1>1, <3>1, <3>2, SizesOK
  <2> QED
    BY <2>1, <1>1
<1>5. B * B <= q * (Step - 1)
  <2>1. t * (Step - 1) <= q * (Step - 1)
    BY <1>1, <1>2, <1>4, TimesMonotone
  <2>2. t * (Step - 1) \in Nat /\ q * (Step - 1) \in Nat
    BY <1>1, <1>2
  <2> QED
    BY <1>2, <2>1, <2>2
<1>6. q * (Step - 1) <= q * p /\ q * (Step - 1) <= q * (Total - p)
  BY <1>1, <1>2, <1>3, TimesMonotone
<1>7. q * p \in Nat /\ q * (Total - p) = Total * q - q * p /\ q * (Step - 1) \in Nat /\ Total * q \in Nat
  BY <1>1, <1>2, <1>3
<1> QED
  BY <1>1, <1>2, <1>5, <1>6, <1>7 DEF Bound, q

LEMMA HalvesAreLarge ==
  ASSUME NEW r \in Nat, r >= Top
  PROVE  r \div 2 \in Nat /\ B * B <= r \div 2 /\ r \div 2 < r /\ r \div 2 <= r - (r \div 2)
BY SizesOK

\* ... and so a range is large after one shift.
LEMMA ShiftMakesLarge ==
  ASSUME NEW r \in Nat, B * B <= r, r < Top
  PROVE  r * B \in Nat /\ Top <= r * B /\ r * B < W /\ r * B + B <= W
<1>1. B \in Nat /\ B >= 2 /\ Top \in Nat /\ W = Top * B /\ B * B \in Nat /\ Top = (B * B) * B
  BY SizesOK DEF Top
<1>2. (B * B) * B <= r * B
  BY <1>1, TimesMonotone
<1>3. (r + 1) * B <= Top * B
  BY <1>1, TimesMonotone
<1>4. (r + 1) * B = r * B + B /\ r * B \in Nat
  BY <1>1
<1> QED
  BY <1>1, <1>2, <1>3, <1>4
-----------------------------------------------------------------------------
(* Bytes on their way to the stream                                        *)

RangeRec(limit) == [range : Nat, low : Nat, cache : RcBytes, cacheSize : Nat, buf : 0 .. limit, res : {"ok", "write"}]
Encoders(limit) == [rc : RangeRec(limit), sent : Seq(RcBytes), stream : [room : Nat, taken : Nat]]

\* All bytes were taken or are in the buffer; or the stream is full, and they are not all taken.
Written(a) ==
  /\ a.stream.taken <= a.stream.room
  /\ a.rc.res = "ok" => a.stream.taken + a.rc.buf = Len(a.sent)
  /\ a.rc.res = "write" => a.stream.taken = a.stream.room /\ a.stream.taken < Len(a.sent)

\* An encoder between two operations.
Encoder(a) == a \in Encoders(BufSize - 1) /\ Written(a)

\* b has the number of a, and more bytes.
SameNumber(a, b) ==
  /\ b.rc.range = a.rc.range /\ b.rc.low = a.rc.low /\ b.rc.cache = a.rc.cache /\ b.rc.cacheSize = a.rc.cacheSize
  /\ b.stream.room = a.stream.room

LEMMA FlushStreamOK ==
  ASSUME NEW a \in Encoders(BufSize), Written(a)
  PROVE  /\ Encoder(FlushStream(a)) /\ SameNumber(a, FlushStream(a)) /\ FlushStream(a).sent = a.sent
         /\ FlushStream(a).rc.buf = 0
<1> DEFINE free == a.stream.room - a.stream.taken
           n    == IF a.rc.res # "ok" THEN 0 ELSE Min({a.rc.buf, free})
           s    == FlushStream(a)
<1>1. /\ a.rc \in RangeRec(BufSize) /\ a.sent \in Seq(RcBytes) /\ Len(a.sent) \in Nat
      /\ a.rc.buf \in Nat /\ a.stream.room \in Nat /\ a.stream.taken \in Nat /\ a.rc.res \in {"ok", "write"}
      /\ BufSize \in Nat /\ BufSize > 0
  BY SizesOK DEF Encoders, RangeRec
<1>2. free \in Nat
  BY <1>1 DEF Written
<1>3. n \in Nat /\ n <= a.rc.buf /\ n <= free /\ (a.rc.res = "ok" /\ n # a.rc.buf => n = free)
      /\ (a.rc.res # "ok" => n = 0)
  <2>1. \A x, y \in Nat : Min({x, y}) = IF x <= y THEN x ELSE y
    BY DEF Min
  <2> HIDE DEF free
  <2>2. Min({a.rc.buf, free}) = IF a.rc.buf <= free THEN a.rc.buf ELSE free
    BY <1>1, <1>2, <2>1
  <2> QED
    BY <1>1, <1>2, <2>2
<1> HIDE DEF n
<1>4. s = [rc |-> [a.rc EXCEPT !.buf = 0, !.res = IF @ = "ok" /\ n # a.rc.buf THEN "write" ELSE @],
           sent |-> a.sent, stream |-> [a.stream EXCEPT !.taken = @ + n]]
  <2>1. s = [a EXCEPT !.stream.taken = @ + n, !.rc.buf = 0,
                      !.rc.res = IF @ = "ok" /\ n # a.rc.buf THEN "write" ELSE @]
    BY DEF FlushStream, n, free
  <2> QED
    BY <2>1 DEF Encoders, RangeRec
<1> HIDE DEF s
<1>5. /\ s.sent = a.sent /\ s.stream.taken = a.stream.taken + n /\ s.stream.room = a.stream.room
      /\ s.rc.buf = 0 /\ s.rc.res = (IF a.rc.res = "ok" /\ n # a.rc.buf THEN "write" ELSE a.rc.res)
      /\ s.rc.range = a.rc.range /\ s.rc.low = a.rc.low /\ s.rc.cache = a.rc.cache /\ s.rc.cacheSize = a.rc.cacheSize
  BY <1>4 DEF Encoders, RangeRec
<1>6. s \in Encoders(BufSize - 1)
  <2>1. s.rc \in RangeRec(BufSize - 1)
    BY <1>1, <1>4, <1>5 DEF RangeRec
  <2>2. s.stream \in [room : Nat, taken : Nat]
    BY <1>1, <1>3, <1>4 DEF Encoders
  <2> QED
    BY <1>1, <1>4, <2>1, <2>2 DEF Encoders
<1>7. Written(s)
  BY <1>1, <1>2, <1>3, <1>5 DEF Written
<1> QED
  BY <1>5, <1>6, <1>7 DEF Encoder, SameNumber, s

LEMMA SentAndBuf ==
  ASSUME NEW X, NEW Y, NEW Z, NEW a \in [rc : X, sent : Y, stream : Z], NEW q, NEW r
  PROVE  [a EXCEPT !.sent = q, !.rc.buf = r] = [rc |-> [a.rc EXCEPT !.buf = r], sent |-> q, stream |-> a.stream]
<1> DEFINE b == [a EXCEPT !.sent = q]
<1>1. [a EXCEPT !.sent = q, !.rc.buf = r] = [b EXCEPT !.rc.buf = r]
  OBVIOUS
<1>2. b = [rc |-> a.rc, sent |-> q, stream |-> a.stream]
  OBVIOUS
<1>3. PICK x, z : x = a.rc /\ z = a.stream
  OBVIOUS
<1> HIDE DEF b
<1>4. b = [rc |-> x, sent |-> q, stream |-> z]
  BY <1>2, <1>3
<1>5. [b EXCEPT !.rc.buf = r] = [rc |-> [x EXCEPT !.buf = r], sent |-> q, stream |-> z]
  BY <1>4
<1> QED
  BY <1>1, <1>3, <1>5

LEMMA SendOK ==
  ASSUME NEW a, Encoder(a), NEW byte \in RcBytes
  PROVE  Encoder(Send(a, byte)) /\ SameNumber(a, Send(a, byte)) /\ Send(a, byte).sent = Append(a.sent, byte)
<1> DEFINE s == [a EXCEPT !.sent = Append(@, byte), !.rc.buf = @ + 1]
<1>1. /\ a \in Encoders(BufSize - 1) /\ a.rc \in RangeRec(BufSize - 1) /\ a.sent \in Seq(RcBytes)
      /\ a.stream \in [room : Nat, taken : Nat] /\ a.rc.buf \in 0 .. BufSize - 1 /\ BufSize \in Nat /\ BufSize > 0
  BY SizesOK DEF Encoder, Encoders, RangeRec
<1>2. s = [rc |-> [a.rc EXCEPT !.buf = @ + 1], sent |-> Append(a.sent, byte), stream |-> a.stream]
  <2>1. PICK q, r : q = Append(a.sent, byte) /\ r = a.rc.buf + 1
    OBVIOUS
  <2>2. [a EXCEPT !.sent = q, !.rc.buf = r] = [rc |-> [a.rc EXCEPT !.buf = r], sent |-> q, stream |-> a.stream]
    BY <1>1, SentAndBuf DEF Encoders
  <2>3. s = [a EXCEPT !.sent = q, !.rc.buf = r]
    BY <2>1
  <2> QED
    BY <2>1, <2>2, <2>3
<1>3. Append(a.sent, byte) \in Seq(RcBytes) /\ Len(Append(a.sent, byte)) = Len(a.sent) + 1 /\ Len(a.sent) \in Nat
  BY <1>1
<1> HIDE DEF s
<1>4. /\ s.sent = Append(a.sent, byte) /\ s.stream = a.stream /\ s.rc.buf = a.rc.buf + 1 /\ s.rc.res = a.rc.res
      /\ s.rc.range = a.rc.range /\ s.rc.low = a.rc.low /\ s.rc.cache = a.rc.cache /\ s.rc.cacheSize = a.rc.cacheSize
  BY <1>1, <1>2 DEF RangeRec
<1>5. s.rc \in RangeRec(BufSize) /\ (s.rc.buf # BufSize => s.rc \in RangeRec(BufSize - 1))
  BY <1>1, <1>2, <1>4 DEF RangeRec
<1>6. s \in Encoders(BufSize) /\ (s.rc.buf # BufSize => s \in Encoders(BufSize - 1))
  BY <1>1, <1>2, <1>3, <1>5 DEF Encoders
<1>7. Written(s)
  <2>1. a.stream.taken \in Nat /\ a.stream.room \in Nat /\ a.rc.buf \in Nat /\ Written(a)
    BY <1>1 DEF Encoder
  <2>2. Len(s.sent) = Len(a.sent) + 1 /\ Len(a.sent) \in Nat
    BY <1>3, <1>4
  <2>3. s.stream.taken = a.stream.taken /\ s.stream.room = a.stream.room
    BY <1>4
  <2>4. ASSUME s.rc.res = "ok" PROVE s.stream.taken + s.rc.buf = Len(s.sent)
    <3>1. a.rc.res = "ok" /\ s.rc.buf = a.rc.buf + 1
      BY <1>4, <2>4
    <3>2. a.stream.taken + a.rc.buf = Len(a.sent)
      BY <2>1, <3>1 DEF Written
    <3>3. PICK x \in Nat, y \in Nat, z \in Nat : x = a.stream.taken /\ y = a.rc.buf /\ z = Len(a.sent)
      BY <2>1, <2>2
    <3>5. x + y = z
      BY <3>2, <3>3, Zenon
    <3>4. x + (y + 1) = z + 1
      BY <3>5
    <3> QED
      BY <2>2, <2>3, <3>1, <3>3, <3>4
  <2>5. s.rc.res = "write" => s.stream.taken = s.stream.room /\ s.stream.taken < Len(s.sent)
    BY <1>4, <2>1, <2>2, <2>3 DEF Written
  <2> QED
    BY <2>1, <2>3, <2>4, <2>5 DEF Written
<1>8. Send(a, byte) = IF s.rc.buf = BufSize THEN FlushStream(s) ELSE s
  BY DEF Send, s
<1>9. SameNumber(a, s)
  BY <1>4 DEF SameNumber
<1>10. CASE s.rc.buf = BufSize
  BY <1>4, <1>6, <1>7, <1>8, <1>9, <1>10, FlushStreamOK DEF SameNumber
<1>11. CASE s.rc.buf # BufSize
  BY <1>4, <1>6, <1>7, <1>8, <1>9, <1>11 DEF Encoder
<1> QED
  BY <1>10, <1>11

Copies(n, byte) == [k \in 1 .. n |-> byte]

LEMMA CopiesSteps ==
  ASSUME NEW byte \in RcBytes, NEW t \in Seq(RcBytes), NEW n \in Nat
  PROVE  /\ Copies(n, byte) \in Seq(RcBytes) /\ t \o Copies(0, byte) = t
         /\ t \o Copies(n + 1, byte) = Append(t \o Copies(n, byte), byte) /\ t \o Copies(n, byte) \in Seq(RcBytes)
         /\ Len(t \o Copies(n, byte)) = Len(t) + n
<1>1. /\ Copies(n, byte) \in Seq(RcBytes) /\ Copies(n + 1, byte) \in Seq(RcBytes) /\ Len(Copies(n, byte)) = n
      /\ Len(Copies(n + 1, byte)) = n + 1
      /\ \A k \in 1 .. n + 1 : Copies(n + 1, byte)[k] = byte
      /\ \A k \in 1 .. n : Copies(n, byte)[k] = byte
  BY DEF Copies
<1>2. Copies(0, byte) = <<>>
  BY DEF Copies
<1>3. t \o <<>> = t
  OBVIOUS
<1> DEFINE u == t \o Copies(n + 1, byte)
           v == Append(t \o Copies(n, byte), byte)
<1>4. u \in Seq(RcBytes) /\ v \in Seq(RcBytes) /\ Len(u) = Len(t) + n + 1 /\ Len(v) = Len(t) + n + 1 /\ Len(t) \in Nat
  BY <1>1
<1>5. ASSUME NEW i \in 1 .. Len(t) + n + 1 PROVE u[i] = v[i]
  <2>1. CASE i <= Len(t)
    BY <1>1, <2>1
  <2>2. CASE i > Len(t) /\ i <= Len(t) + n
    BY <1>1, <2>2
  <2>3. CASE i = Len(t) + n + 1
    BY <1>1, <2>3
  <2> QED
    BY <1>4, <2>1, <2>2, <2>3
<1> HIDE DEF u, v
<1>6. u = v
  BY <1>4, <1>5, SeqEqual
<1>7. t \o Copies(n, byte) \in Seq(RcBytes) /\ Len(t \o Copies(n, byte)) = Len(t) + n
  <2>1. PICK c \in Seq(RcBytes) : c = Copies(n, byte) /\ Len(c) = n
    BY <1>1
  <2>2. t \o c \in Seq(RcBytes) /\ Len(t \o c) = Len(t) + Len(c)
    OBVIOUS
  <2> QED
    BY <2>1, <2>2
<1>8. t \o Copies(n + 1, byte) = Append(t \o Copies(n, byte), byte)
  BY <1>6 DEF u, v
<1> QED
  BY <1>1, <1>2, <1>3, <1>7, <1>8

LEMMA SendAllOK ==
  ASSUME NEW a, Encoder(a), NEW first \in RcBytes, NEW rest \in RcBytes, NEW n \in Nat
  PROVE  /\ Encoder(SendAll(a, first, rest, n)) /\ SameNumber(a, SendAll(a, first, rest, n))
         /\ SendAll(a, first, rest, n).sent = Append(a.sent, first) \o Copies(n, rest)
<1> DEFINE Holds(k) == /\ Encoder(SendAll(a, first, rest, k)) /\ SameNumber(a, SendAll(a, first, rest, k))
                       /\ SendAll(a, first, rest, k).sent = Append(a.sent, first) \o Copies(k, rest)
           T        == {k \in Nat : Holds(k)}
<1>1. a.sent \in Seq(RcBytes) /\ Append(a.sent, first) \in Seq(RcBytes)
  BY DEF Encoder, Encoders
<1>2. 0 \in T
  <2>1. SendAll(a, first, rest, 0) = Send(a, first)
    BY SendAllSteps
  <2>2. Append(a.sent, first) \o Copies(0, rest) = Append(a.sent, first)
    BY <1>1, CopiesSteps
  <2> QED
    BY <2>1, <2>2, SendOK
<1>3. ASSUME NEW k \in Nat, k \in T PROVE k + 1 \in T
  <2>1. PICK b : b = SendAll(a, first, rest, k)
    OBVIOUS
  <2>2. SendAll(a, first, rest, k + 1) = Send(b, rest)
    <3>1. SendAll(a, first, rest, k + 1) = Send(SendAll(a, first, rest, k), rest)
      BY SendAllSteps
    <3> QED
      BY <2>1, <3>1
  <2>3. Encoder(b) /\ SameNumber(a, b) /\ b.sent = Append(a.sent, first) \o Copies(k, rest)
    BY <1>3, <2>1
  <2>4. Encoder(Send(b, rest)) /\ SameNumber(b, Send(b, rest)) /\ Send(b, rest).sent = Append(b.sent, rest)
    BY <2>3, SendOK
  <2>5. SameNumber(a, Send(b, rest))
    BY <2>3, <2>4 DEF SameNumber
  <2>6. Send(b, rest).sent = Append(a.sent, first) \o Copies(k + 1, rest)
    <3>1. PICK t \in Seq(RcBytes) : t = Append(a.sent, first)
      BY <1>1
    <3>2. t \o Copies(k + 1, rest) = Append(t \o Copies(k, rest), rest)
      BY CopiesSteps
    <3> QED
      BY <2>3, <2>4, <3>1, <3>2
  <2>7. Holds(k + 1)
    BY <2>2, <2>4, <2>5, <2>6
  <2> HIDE DEF Holds
  <2> QED
    BY <2>7
<1> HIDE DEF T, Holds
<1>4. n \in T
  BY <1>2, <1>3, EveryNumber
<1> QED
  BY <1>4 DEF T, Holds
-----------------------------------------------------------------------------
(* Numbers and the bytes that wait                                         *)

LEMMA BytesAreNumbers == Seq(RcBytes) \subseteq Seq(Nat) /\ RcBytes \subseteq Nat
<1>1. RcBytes \subseteq Nat
  BY SizesOK DEF RcBytes
<1>2. ASSUME NEW t \in Seq(RcBytes) PROVE t \in Seq(Nat)
  <2>1. Len(t) \in Nat /\ t \in [1 .. Len(t) -> RcBytes]
    OBVIOUS
  <2>2. t \in [1 .. Len(t) -> Nat]
    BY <1>1, <2>1
  <2> QED
    BY <2>1, <2>2
<1> QED
  BY <1>1, <1>2

LEMMA NumberOK == ASSUME NEW t \in Seq(RcBytes) PROVE Number(t) \in Nat
<1> DEFINE T == {n \in Nat : \A s \in Seq(RcBytes) : Len(s) = n => Number(s) \in Nat}
<1>1. B \in Nat /\ B >= 2 /\ RcBytes \subseteq Nat
  BY SizesOK DEF RcBytes
<1>2. 0 \in T
  <2>1. \A s \in Seq(RcBytes) : Len(s) = 0 => s = <<>>
    OBVIOUS
  <2>2. <<>> \in Seq(Nat) /\ 0 \in Nat
    OBVIOUS
  <2>3. Number(<<>>) = 0
    BY <2>2, NumberSteps
  <2> QED
    BY <2>1, <2>3
<1>3. ASSUME NEW n \in Nat, n \in T PROVE n + 1 \in T
  <2>1. ASSUME NEW s \in Seq(RcBytes), Len(s) = n + 1 PROVE Number(s) \in Nat
    <3> DEFINE u == SubSeq(s, 1, n)
               x == s[n + 1]
    <3>1. u \in Seq(RcBytes) /\ Len(u) = n /\ x \in RcBytes
      BY <2>1
    <3>2. s = Append(u, x)
      BY <2>1
    <3> HIDE DEF u, x
    <3>3. Number(u) \in Nat
      BY <1>3, <3>1
    <3>4. u \in Seq(Nat) /\ x \in Nat
      BY <1>1, <3>1, BytesAreNumbers
    <3>5. Number(s) = Number(u) * B + x
      BY <3>2, <3>4, NumberSteps
    <3>6. Number(u) * B + x \in Nat
      <4>1. \A i, j, y \in Nat : i * j + y \in Nat
        OBVIOUS
      <4> QED
        BY <1>1, <3>3, <3>4, <4>1
    <3> QED
      BY <3>5, <3>6
  <2> QED
    BY <2>1
<1> HIDE DEF T
<1>4. Len(t) \in T
  BY <1>2, <1>3, EveryNumber
<1> QED
  BY <1>4 DEF T

\* The same, for bytes.
LEMMA NumberAppend ==
  ASSUME NEW t \in Seq(RcBytes), NEW x \in RcBytes
  PROVE  Number(t) \in Nat /\ Number(Append(t, x)) = Number(t) * B + x /\ Append(t, x) \in Seq(RcBytes) /\ x \in Nat
<1>2. t \in Seq(Nat) /\ x \in Nat
  BY BytesAreNumbers
<1> QED
  BY <1>2, NumberOK, NumberSteps

\* A carry goes through the bytes that wait.
LEMMA CarryThrough ==
  ASSUME NEW s \in Seq(RcBytes), NEW t \in Seq(RcBytes), Number(t) = Number(s) + 1, NEW n \in Nat
  PROVE  Number(t \o Copies(n, 0)) = Number(s \o Copies(n, B - 1)) + 1
<1> DEFINE T == {k \in Nat : Number(t \o Copies(k, 0)) = Number(s \o Copies(k, B - 1)) + 1}
<1>1. B \in Nat /\ B >= 2 /\ 0 \in RcBytes /\ B - 1 \in RcBytes
  BY SizesOK DEF RcBytes
<1>2. 0 \in T
  BY <1>1, CopiesSteps
<1>3. ASSUME NEW k \in Nat, k \in T PROVE k + 1 \in T
  <2> DEFINE u == s \o Copies(k, B - 1)
             v == t \o Copies(k, 0)
  <2>1. /\ u \in Seq(RcBytes) /\ v \in Seq(RcBytes)
        /\ s \o Copies(k + 1, B - 1) = Append(u, B - 1) /\ t \o Copies(k + 1, 0) = Append(v, 0)
    BY <1>1, CopiesSteps
  <2>2. Number(v) = Number(u) + 1
    BY <1>3
  <2> HIDE DEF u, v
  <2>3. Number(u) \in Nat /\ Number(Append(u, B - 1)) = Number(u) * B + (B - 1) /\ Number(Append(v, 0)) = Number(v) * B + 0
    BY <1>1, <2>1, NumberAppend
  <2>4. (Number(u) + 1) * B + 0 = (Number(u) * B + (B - 1)) + 1
    BY <1>1, <2>3
  <2>5. Number(t \o Copies(k + 1, 0)) = Number(s \o Copies(k + 1, B - 1)) + 1
    BY <2>1, <2>2, <2>3, <2>4
  <2> QED
    BY <2>5
<1> HIDE DEF T
<1>4. n \in T
  BY <1>2, <1>3, EveryNumber
<1> QED
  BY <1>4 DEF T
-----------------------------------------------------------------------------
(* A shift                                                                 *)

\* The carry, the byte and the rest of low.
LEMMA LowParts ==
  ASSUME NEW low \in Nat, low < 2 * W
  PROVE  \E h \in {0, 1}, c \in RcBytes, t \in 0 .. Top - 1 :
           /\ low = W * h + (Top * c + t) /\ (low % W) = Top * c + t /\ (low \div W) = h /\ ((low % W) \div Top) = c
           /\ ((low % W) * B) % W = t * B /\ t * B \in Nat /\ t * B < W
           /\ low % W < (B - 1) * Top <=> c < B - 1
<1> DEFINE l == low % W
           h == low \div W
           c == l \div Top
           t == l % Top
<1>1. B \in Nat /\ B >= 2 /\ Top \in Nat /\ Top > 0 /\ W \in Nat /\ W > 0 /\ W = Top * B
  BY SizesOK
<1>2. h \in Nat /\ l \in 0 .. W - 1 /\ low = W * h + l
  BY <1>1, DivMod
<1>3. h \in {0, 1}
  <2>1. h >= 2 => W * 2 <= W * h
    BY <1>1, <1>2, TimesMonotone
  <2>2. W * h \in Nat
    BY <1>1, <1>2
  <2> QED
    BY <1>1, <1>2, <2>1, <2>2
<1> HIDE DEF l, h
<1>4. c \in Nat /\ t \in 0 .. Top - 1 /\ l = Top * c + t
  BY <1>1, <1>2, DivMod
<1> HIDE DEF c, t
<1>5. c <= B - 1
  <2>1. c >= B => Top * B <= Top * c
    BY <1>1, <1>4, TimesMonotone
  <2>2. Top * c \in Nat
    BY <1>1, <1>4
  <2> QED
    BY <1>1, <1>2, <1>4, <2>1, <2>2
<1>6. l * B = W * c + t * B
  BY <1>1, <1>4
<1>7. t * B \in Nat /\ t * B < W
  <2>1. (t + 1) * B <= Top * B
    BY <1>1, <1>4, TimesMonotone
  <2>2. (t + 1) * B = t * B + B /\ t * B \in Nat
    BY <1>1, <1>4
  <2> QED
    BY <1>1, <2>1, <2>2
<1>8. (l * B) % W = t * B
  <2>1. PICK e \in Nat : e = t * B /\ e < W
    BY <1>7
  <2>2. (W * c + e) % W = e
    BY <1>1, <1>4, <2>1, DivModUnique
  <2> QED
    BY <1>6, <2>1, <2>2
<1>9. l < (B - 1) * Top <=> c < B - 1
  <2>1. c < B - 1 => (c + 1) * Top <= (B - 1) * Top
    BY <1>1, <1>4, TimesMonotone
  <2>2. (c + 1) * Top = Top * c + Top /\ Top * c \in Nat /\ (B - 1) * Top \in Nat /\ (B - 1) * Top = Top * (B - 1)
    BY <1>1, <1>4
  <2> QED
    BY <1>1, <1>4, <1>5, <2>1, <2>2
<1>10. c \in RcBytes
  BY <1>1, <1>4, <1>5 DEF RcBytes
<1> QED
  BY <1>2, <1>3, <1>4, <1>7, <1>8, <1>9, <1>10 DEF l, h, c

\* An encoder with another number.
WithRange(a, v) == [a EXCEPT !.rc.range = v]
WithOnly (a, v) == [a EXCEPT !.rc.low = v]
WithCache(a, v) == [a EXCEPT !.rc.cache = v]
WithSize (a, v) == [a EXCEPT !.rc.cacheSize = v]

LEMMA WithRangeOK ==
  ASSUME NEW a, Encoder(a), NEW v \in Nat
  PROVE  /\ Encoder(WithRange(a, v)) /\ WithRange(a, v).sent = a.sent /\ WithRange(a, v).rc.range = v
         /\ WithRange(a, v).rc.low = a.rc.low /\ WithRange(a, v).rc.cache = a.rc.cache /\ WithRange(a, v).rc.cacheSize = a.rc.cacheSize
<1>1. a \in Encoders(BufSize - 1) /\ Written(a) /\ a.rc \in RangeRec(BufSize - 1)
  BY DEF Encoder, Encoders
<1>2. PICK b : b = WithRange(a, v)
  OBVIOUS
<1>3. b = [rc |-> [a.rc EXCEPT !.range = v], sent |-> a.sent, stream |-> a.stream]
  BY <1>1, <1>2 DEF WithRange, Encoders
<1>4. /\ b.sent = a.sent /\ b.stream = a.stream /\ b.rc.buf = a.rc.buf /\ b.rc.res = a.rc.res /\ b.rc.range = v
      /\ b.rc.low = a.rc.low /\ b.rc.cache = a.rc.cache /\ b.rc.cacheSize = a.rc.cacheSize
  BY <1>1, <1>3 DEF RangeRec
<1>5. b.rc \in RangeRec(BufSize - 1)
  BY <1>1, <1>3 DEF RangeRec
<1>6. b \in Encoders(BufSize - 1)
  BY <1>1, <1>3, <1>5 DEF Encoders
<1>7. Written(b)
  BY <1>1, <1>4 DEF Written
<1> QED
  BY <1>2, <1>4, <1>6, <1>7 DEF Encoder

LEMMA WithOnlyOK ==
  ASSUME NEW a, Encoder(a), NEW v \in Nat
  PROVE  /\ Encoder(WithOnly(a, v)) /\ WithOnly(a, v).sent = a.sent /\ WithOnly(a, v).rc.low = v
         /\ WithOnly(a, v).rc.range = a.rc.range /\ WithOnly(a, v).rc.cache = a.rc.cache /\ WithOnly(a, v).rc.cacheSize = a.rc.cacheSize
<1>1. a \in Encoders(BufSize - 1) /\ Written(a) /\ a.rc \in RangeRec(BufSize - 1)
  BY DEF Encoder, Encoders
<1>2. PICK b : b = WithOnly(a, v)
  OBVIOUS
<1>3. b = [rc |-> [a.rc EXCEPT !.low = v], sent |-> a.sent, stream |-> a.stream]
  BY <1>1, <1>2 DEF WithOnly, Encoders
<1>4. /\ b.sent = a.sent /\ b.stream = a.stream /\ b.rc.buf = a.rc.buf /\ b.rc.res = a.rc.res /\ b.rc.low = v
      /\ b.rc.range = a.rc.range /\ b.rc.cache = a.rc.cache /\ b.rc.cacheSize = a.rc.cacheSize
  BY <1>1, <1>3 DEF RangeRec
<1>5. b.rc \in RangeRec(BufSize - 1)
  BY <1>1, <1>3 DEF RangeRec
<1>6. b \in Encoders(BufSize - 1)
  BY <1>1, <1>3, <1>5 DEF Encoders
<1>7. Written(b)
  BY <1>1, <1>4 DEF Written
<1> QED
  BY <1>2, <1>4, <1>6, <1>7 DEF Encoder

LEMMA WithCacheOK ==
  ASSUME NEW a, Encoder(a), NEW v \in RcBytes
  PROVE  /\ Encoder(WithCache(a, v)) /\ WithCache(a, v).sent = a.sent /\ WithCache(a, v).rc.cache = v
         /\ WithCache(a, v).rc.range = a.rc.range /\ WithCache(a, v).rc.low = a.rc.low /\ WithCache(a, v).rc.cacheSize = a.rc.cacheSize
<1>1. a \in Encoders(BufSize - 1) /\ Written(a) /\ a.rc \in RangeRec(BufSize - 1)
  BY DEF Encoder, Encoders
<1>2. PICK b : b = WithCache(a, v)
  OBVIOUS
<1>3. b = [rc |-> [a.rc EXCEPT !.cache = v], sent |-> a.sent, stream |-> a.stream]
  BY <1>1, <1>2 DEF WithCache, Encoders
<1>4. /\ b.sent = a.sent /\ b.stream = a.stream /\ b.rc.buf = a.rc.buf /\ b.rc.res = a.rc.res /\ b.rc.cache = v
      /\ b.rc.range = a.rc.range /\ b.rc.low = a.rc.low /\ b.rc.cacheSize = a.rc.cacheSize
  BY <1>1, <1>3 DEF RangeRec
<1>5. b.rc \in RangeRec(BufSize - 1)
  BY <1>1, <1>3 DEF RangeRec
<1>6. b \in Encoders(BufSize - 1)
  BY <1>1, <1>3, <1>5 DEF Encoders
<1>7. Written(b)
  BY <1>1, <1>4 DEF Written
<1> QED
  BY <1>2, <1>4, <1>6, <1>7 DEF Encoder

LEMMA WithSizeOK ==
  ASSUME NEW a, Encoder(a), NEW v \in Nat
  PROVE  /\ Encoder(WithSize(a, v)) /\ WithSize(a, v).sent = a.sent /\ WithSize(a, v).rc.cacheSize = v
         /\ WithSize(a, v).rc.range = a.rc.range /\ WithSize(a, v).rc.low = a.rc.low /\ WithSize(a, v).rc.cache = a.rc.cache
<1>1. a \in Encoders(BufSize - 1) /\ Written(a) /\ a.rc \in RangeRec(BufSize - 1)
  BY DEF Encoder, Encoders
<1>2. PICK b : b = WithSize(a, v)
  OBVIOUS
<1>3. b = [rc |-> [a.rc EXCEPT !.cacheSize = v], sent |-> a.sent, stream |-> a.stream]
  BY <1>1, <1>2 DEF WithSize, Encoders
<1>4. /\ b.sent = a.sent /\ b.stream = a.stream /\ b.rc.buf = a.rc.buf /\ b.rc.res = a.rc.res /\ b.rc.cacheSize = v
      /\ b.rc.range = a.rc.range /\ b.rc.low = a.rc.low /\ b.rc.cache = a.rc.cache
  BY <1>1, <1>3 DEF RangeRec
<1>5. b.rc \in RangeRec(BufSize - 1)
  BY <1>1, <1>3 DEF RangeRec
<1>6. b \in Encoders(BufSize - 1)
  BY <1>1, <1>3, <1>5 DEF Encoders
<1>7. Written(b)
  BY <1>1, <1>4 DEF Written
<1> QED
  BY <1>2, <1>4, <1>6, <1>7 DEF Encoder

LEMMA WithLowOK ==
  ASSUME NEW a, Encoder(a), NEW x \in RcBytes, NEW n \in Nat, NEW v \in Nat
  PROVE  /\ Encoder(WithLow(a, x, n, v)) /\ WithLow(a, x, n, v).sent = a.sent
         /\ WithLow(a, x, n, v).rc.range = a.rc.range /\ WithLow(a, x, n, v).rc.cache = x
         /\ WithLow(a, x, n, v).rc.cacheSize = n /\ WithLow(a, x, n, v).rc.low = v
<1>0. PICK s : s = WithLow(a, x, n, v)
  OBVIOUS
<1>1. PICK d, e : d = WithCache(a, x) /\ e = WithSize(d, n)
  OBVIOUS
<1>2. s = WithOnly(e, v)
  BY <1>0, <1>1 DEF WithLow, WithCache, WithSize, WithOnly
<1>3. Encoder(d) /\ d.sent = a.sent /\ d.rc.range = a.rc.range /\ d.rc.cache = x
  BY <1>1, WithCacheOK, Zenon
<1>4. Encoder(e) /\ e.sent = d.sent /\ e.rc.range = d.rc.range /\ e.rc.cache = d.rc.cache /\ e.rc.cacheSize = n
  BY <1>1, <1>3, WithSizeOK, Zenon
<1>5. /\ Encoder(WithOnly(e, v)) /\ WithOnly(e, v).sent = e.sent /\ WithOnly(e, v).rc.range = e.rc.range
      /\ WithOnly(e, v).rc.cache = e.rc.cache /\ WithOnly(e, v).rc.cacheSize = e.rc.cacheSize /\ WithOnly(e, v).rc.low = v
  BY <1>4, WithOnlyOK
<1>6. /\ Encoder(s) /\ s.sent = e.sent /\ s.rc.range = e.rc.range /\ s.rc.cache = e.rc.cache
      /\ s.rc.cacheSize = e.rc.cacheSize /\ s.rc.low = v
  BY <1>2, <1>5, Zenon
<1> QED
  BY <1>0, <1>3, <1>4, <1>6, Zenon

\* The number that an encoder stands for, and how many bytes it has with those that wait.
Pending(a) == Append(a.sent, a.rc.cache) \o Copies(a.rc.cacheSize, B - 1)
Value(a)   == Number(Pending(a)) * W + a.rc.low
Places(a)  == Len(a.sent) + 1 + a.rc.cacheSize

\* A carry has a place to go to.
Ready(a) == Encoder(a) /\ a.rc.low < 2 * W /\ (a.rc.cache = B - 1 => a.rc.low < W)

\* What the bytes of low become.
Moved(a, s, h, c, t) ==
  /\ a.rc.low = W * h + (Top * c + t) /\ s.rc.low = t * B /\ s.rc.low < W
  /\ h = 1 \/ c < B - 1 => s.rc.cache = c /\ s.rc.cacheSize = 0
  /\ h = 0 /\ c = B - 1 => s.rc.cache = a.rc.cache

LEMMA PendingOK ==
  ASSUME NEW a, Encoder(a)
  PROVE  Pending(a) \in Seq(RcBytes) /\ Len(Pending(a)) = Places(a) /\ Number(Pending(a)) \in Nat /\ Value(a) \in Nat
         /\ Places(a) \in Nat
<1>1. a.sent \in Seq(RcBytes) /\ a.rc.cache \in RcBytes /\ a.rc.cacheSize \in Nat /\ a.rc.low \in Nat
  BY DEF Encoder, Encoders, RangeRec
<1>2. B - 1 \in RcBytes /\ W \in Nat
  BY SizesOK DEF RcBytes
<1>3. PICK u \in Seq(RcBytes) : u = Append(a.sent, a.rc.cache) /\ Len(u) = Len(a.sent) + 1 /\ Len(a.sent) \in Nat
  <2>1. PICK q \in Seq(RcBytes), x \in RcBytes : q = a.sent /\ x = a.rc.cache
    BY <1>1
  <2>2. Append(q, x) \in Seq(RcBytes) /\ Len(Append(q, x)) = Len(q) + 1 /\ Len(q) \in Nat
    OBVIOUS
  <2> QED
    BY <2>1, <2>2
<1>4. PICK n \in Nat : n = a.rc.cacheSize
  BY <1>1
<1>5. u \o Copies(n, B - 1) \in Seq(RcBytes) /\ Len(u \o Copies(n, B - 1)) = Len(u) + n
  BY <1>2, CopiesSteps
<1>6. Pending(a) \in Seq(RcBytes) /\ Len(Pending(a)) = Places(a) /\ Places(a) \in Nat
  <2>1. Pending(a) = u \o Copies(n, B - 1)
    BY <1>3, <1>4 DEF Pending
  <2>2. Places(a) = Len(u) + n
    BY <1>3, <1>4 DEF Places
  <2>3. Pending(a) \in Seq(RcBytes)
    BY <1>5, <2>1
  <2>4. Len(Pending(a)) = Len(u) + n
    BY <1>5, <2>1, Zenon
  <2>5. Len(u) + n \in Nat
    BY <1>3
  <2> QED
    BY <2>2, <2>3, <2>4, <2>5
<1>7. Number(Pending(a)) \in Nat
  BY <1>6, NumberOK
<1>8. Number(Pending(a)) * W + a.rc.low \in Nat
  <2>1. \A i, j, k \in Nat : i * j + k \in Nat
    OBVIOUS
  <2> QED
    BY <1>1, <1>2, <1>7, <2>1
<1> QED
  BY <1>6, <1>7, <1>8 DEF Value

\* The arithmetic of a shift.
LEMMA ShiftedValue ==
  ASSUME NEW d \in Nat, NEW h \in Nat, NEW c \in Nat, NEW t \in Nat
  PROVE  ((d + h) * B + c) * W + t * B = (d * W + (W * h + (Top * c + t))) * B
<1>1. B \in Nat /\ Top \in Nat /\ W \in Nat /\ W = Top * B
  BY SizesOK
<1>2. ((d + h) * B + c) * W = ((d + h) * B) * W + c * W
  BY <1>1
<1>3. c * W = (Top * c) * B
  BY <1>1
<1>4. ((d + h) * B) * W = (d * W + W * h) * B
  BY <1>1
<1>5. (d * W + (W * h + (Top * c + t))) * B = (d * W + W * h) * B + (Top * c) * B + t * B
  BY <1>1
<1>6. PICK x \in Nat, y \in Nat, z \in Nat : x = (d * W + W * h) * B /\ y = (Top * c) * B /\ z = t * B
  <2>1. \A i, j \in Nat : i * j \in Nat
    OBVIOUS
  <2>2. d * W \in Nat /\ W * h \in Nat /\ Top * c \in Nat /\ t * B \in Nat
    BY <1>1, <2>1
  <2>3. d * W + W * h \in Nat
    BY <2>2
  <2> QED
    BY <1>1, <2>1, <2>2, <2>3
<1>7. ((d + h) * B + c) * W = x + y
  BY <1>2, <1>3, <1>4, <1>6
<1>8. (d * W + (W * h + (Top * c + t))) * B = (x + y) + z
  BY <1>5, <1>6
<1>9. t * B = z
  BY <1>6
<1> QED
  BY <1>7, <1>8, <1>9, Zenon

\* RangeEnc_ShiftLow multiplies the number by B, and a carry that comes later still has a place.
LEMMA ShiftLowOK ==
  ASSUME NEW a, Ready(a)
  PROVE  /\ Ready(ShiftLow(a)) /\ ShiftLow(a).rc.range = a.rc.range
         /\ Value(ShiftLow(a)) = Value(a) * B /\ Places(ShiftLow(a)) = Places(a) + 1
         /\ \E h \in {0, 1}, c \in RcBytes, t \in 0 .. Top - 1 : Moved(a, ShiftLow(a), h, c, t)
<1>1. /\ Encoder(a) /\ a.sent \in Seq(RcBytes) /\ a.rc.cache \in RcBytes /\ a.rc.cacheSize \in Nat
      /\ a.rc.low \in Nat /\ a.rc.low < 2 * W
  BY DEF Ready, Encoder, Encoders, RangeRec
<1>2. B \in Nat /\ B >= 2 /\ Top \in Nat /\ W \in Nat /\ RcBytes \subseteq Nat /\ 0 \in RcBytes /\ B - 1 \in RcBytes
      /\ \A x \in RcBytes : x <= B - 1
  BY SizesOK DEF RcBytes
<1>3. PICK low \in Nat, x \in RcBytes, n \in Nat, q \in Seq(RcBytes) :
        low = a.rc.low /\ x = a.rc.cache /\ n = a.rc.cacheSize /\ q = a.sent
  BY <1>1
<1>4. PICK h \in {0, 1}, c \in RcBytes, t \in 0 .. Top - 1 :
           /\ low = W * h + (Top * c + t) /\ (low % W) = Top * c + t /\ (low \div W) = h /\ ((low % W) \div Top) = c
           /\ ((low % W) * B) % W = t * B /\ t * B \in Nat /\ t * B < W
           /\ low % W < (B - 1) * Top <=> c < B - 1
  BY <1>1, <1>3, LowParts
<1>5. PICK v \in Nat : v = t * B /\ v < W
  BY <1>4
<1>8. ShiftLow(a) = IF c < B - 1 \/ h # 0
                    THEN SendAll(WithLow(a, c, 0, v), (x + h) % B, (h + B - 1) % B, n)
                    ELSE WithLow(a, x, n + 1, v)
  <2>1. PICK l : l = (a.rc.low % W)
    OBVIOUS
  <2>2. h = (a.rc.low \div W) /\ v = (l * B) % W /\ c = (l \div Top) /\ (l < (B - 1) * Top <=> c < B - 1)
    BY <1>3, <1>4, <1>5, <2>1, Zenon
  <2>3. ShiftLow(a) = IF l < (B - 1) * Top \/ h # 0
                      THEN SendAll(WithLow(a, c, 0, v), (x + h) % B, (h + B - 1) % B, n)
                      ELSE WithLow(a, x, n + 1, v)
    <3>1. ShiftLow(a) = ShiftBy(a, l, h)
      BY <2>1, <2>2, Zenon DEF ShiftLow
    <3>2. v = (l * B) % W /\ c = (l \div Top) /\ x = a.rc.cache /\ n = a.rc.cacheSize
      BY <1>3, <2>2
    <3>3. ShiftBy(a, l, h) = IF l < (B - 1) * Top \/ h # 0
                             THEN SendAll(WithLow(a, c, 0, v), (x + h) % B, (h + B - 1) % B, n)
                             ELSE WithLow(a, x, n + 1, v)
      BY <3>2, Zenon DEF ShiftBy
    <3> QED
      BY <3>1, <3>3, Zenon
  <2> QED
    BY <2>2, <2>3, Zenon
<1>9. PICK s : s = ShiftLow(a)
  OBVIOUS
<1>10. PICK d \in Nat : d = Number(Pending(a))
  BY <1>1, PendingOK
<1>11. Pending(a) = Append(q, x) \o Copies(n, B - 1) /\ Append(q, x) \in Seq(RcBytes)
  BY <1>3 DEF Pending
<1>12. Places(a) = Len(q) + 1 + n /\ Len(q) \in Nat
  BY <1>3 DEF Places
<1> DEFINE Goal == /\ Encoder(s) /\ s.rc.range = a.rc.range /\ s.rc.low = v
                   /\ Number(Pending(s)) = (d + h) * B + c /\ Places(s) = Places(a) + 1
                   /\ h = 1 \/ c < B - 1 => s.rc.cache = c /\ s.rc.cacheSize = 0
                   /\ h = 0 /\ c = B - 1 => s.rc.cache = x
<1>13. ASSUME c < B - 1 \/ h # 0 PROVE Goal
  <2>1. PICK first \in RcBytes, rest \in RcBytes :
          first = x + h /\ rest = (IF h = 0 THEN B - 1 ELSE 0) /\ first = (x + h) % B /\ rest = (h + B - 1) % B
    <3>1. h = 1 => x < B - 1
      <4>1. h = 1 => low >= W
        BY <1>2, <1>4
      <4>2. h = 1 => x # B - 1
        <5>1. x = B - 1 => low < W
          BY <1>3 DEF Ready
        <5> QED
          BY <1>2, <4>1, <5>1
      <4>3. x \in Nat /\ x <= B - 1
        BY <1>2
      <4> QED
        BY <1>2, <4>2, <4>3
    <3>2. x + h \in RcBytes /\ (x + h) % B = x + h
      <4>1. x \in Nat /\ x + h <= B - 1 /\ x + h \in Nat
        BY <1>2, <3>1
      <4>2. \A i \in Nat : i <= B - 1 => i % B = i
        BY <1>2
      <4>3. x + h \in 0 .. B - 1
        BY <1>2, <4>1
      <4> QED
        BY <4>1, <4>2, <4>3 DEF RcBytes
    <3>3. h = 0 => (h + B - 1) % B = B - 1
      BY <1>2
    <3>4. h = 1 => (h + B - 1) % B = 0
      BY <1>2
    <3> QED
      BY <1>2, <3>2, <3>3, <3>4
  <2>2. PICK e : e = WithLow(a, c, 0, v)
    OBVIOUS
  <2>3. /\ Encoder(e) /\ e.sent = q /\ e.rc.cache = c /\ e.rc.cacheSize = 0 /\ e.rc.low = v /\ e.rc.range = a.rc.range
    <3>1. Encoder(a) /\ 0 \in Nat /\ a.sent = q
      BY <1>1, <1>3
    <3>2. /\ Encoder(WithLow(a, c, 0, v)) /\ WithLow(a, c, 0, v).sent = a.sent
          /\ WithLow(a, c, 0, v).rc.range = a.rc.range /\ WithLow(a, c, 0, v).rc.cache = c
          /\ WithLow(a, c, 0, v).rc.cacheSize = 0 /\ WithLow(a, c, 0, v).rc.low = v
      <4>1. Encoder(a)
        BY <3>1
      <4>2. \A i \in RcBytes, j, k \in Nat : 
               /\ Encoder(WithLow(a, i, j, k)) /\ WithLow(a, i, j, k).sent = a.sent
               /\ WithLow(a, i, j, k).rc.range = a.rc.range /\ WithLow(a, i, j, k).rc.cache = i
               /\ WithLow(a, i, j, k).rc.cacheSize = j /\ WithLow(a, i, j, k).rc.low = k
        BY <4>1, WithLowOK
      <4>3. PICK z \in Nat : z = 0
        OBVIOUS
      <4>4. /\ Encoder(WithLow(a, c, z, v)) /\ WithLow(a, c, z, v).sent = a.sent
            /\ WithLow(a, c, z, v).rc.range = a.rc.range /\ WithLow(a, c, z, v).rc.cache = c
            /\ WithLow(a, c, z, v).rc.cacheSize = z /\ WithLow(a, c, z, v).rc.low = v
        BY <4>2
      <4> QED
        BY <4>3, <4>4, Zenon
    <3> QED
      BY <2>2, <3>1, <3>2, Zenon
  <2>4. s = SendAll(e, first, rest, n)
    <3>1. ShiftLow(a) = SendAll(e, (x + h) % B, (h + B - 1) % B, n)
      BY <1>8, <1>13, <2>2, Zenon
    <3> QED
      BY <1>9, <2>1, <3>1, Zenon
  <2>5. Encoder(s) /\ SameNumber(e, s) /\ s.sent = Append(q, first) \o Copies(n, rest)
    <3>1. Encoder(e) /\ e.sent = q
      BY <2>3
    <3>2. /\ Encoder(SendAll(e, first, rest, n)) /\ SameNumber(e, SendAll(e, first, rest, n))
          /\ SendAll(e, first, rest, n).sent = Append(e.sent, first) \o Copies(n, rest)
      <4>1. Encoder(e)
        BY <3>1
      <4>2. \A i, j \in RcBytes, k \in Nat : 
               /\ Encoder(SendAll(e, i, j, k)) /\ SameNumber(e, SendAll(e, i, j, k))
               /\ SendAll(e, i, j, k).sent = Append(e.sent, i) \o Copies(k, j)
        BY <4>1, SendAllOK
      <4> QED
        BY <4>2, Zenon
    <3> QED
      BY <2>4, <3>1, <3>2, Zenon
  <2>6. s.rc.cache = c /\ s.rc.cacheSize = 0 /\ s.rc.low = v /\ s.rc.range = a.rc.range
    BY <2>3, <2>5 DEF SameNumber
  <2>7. PICK w \in Seq(RcBytes) : w = s.sent /\ Len(w) = Len(q) + 1 + n
    <3>1. Append(q, first) \in Seq(RcBytes) /\ Len(Append(q, first)) = Len(q) + 1
      BY AppendProperties
    <3>2. PICK u \in Seq(RcBytes) : u = Append(q, first) /\ Len(u) = Len(q) + 1
      BY <3>1
    <3>3. u \o Copies(n, rest) \in Seq(RcBytes) /\ Len(u \o Copies(n, rest)) = Len(u) + n
      BY CopiesSteps
    <3>4. s.sent = u \o Copies(n, rest)
      BY <2>5, <3>2, Zenon
    <3> QED
      BY <3>2, <3>3, <3>4
  <2>8. Number(w) = d + h
    <3>1. CASE h = 0
      <4>1. first = x /\ rest = B - 1
        BY <1>2, <2>1, <3>1
      <4>2. w = Pending(a)
        BY <1>11, <2>5, <2>7, <4>1, Zenon
      <4> QED
        BY <1>10, <3>1, <4>2
    <3>2. CASE h = 1
      <4>1. PICK f \in Seq(RcBytes), g \in Seq(RcBytes) : f = Append(q, x) /\ g = Append(q, first)
        BY AppendProperties
      <4>2. Number(q) \in Nat /\ Number(f) = Number(q) * B + x /\ Number(g) = Number(q) * B + first
        BY <4>1, NumberAppend
      <4>3. Number(g) = Number(f) + 1
        <5>1. \A i, j \in Nat : i * j \in Nat
          OBVIOUS
        <5>2. PICK y \in Nat : y = Number(q) * B
          BY <1>2, <4>2, <5>1
        <5>3. x \in Nat /\ first = x + 1
          BY <1>2, <2>1, <3>2
        <5>4. Number(f) = y + x /\ Number(g) = y + first
          BY <4>2, <5>2
        <5> QED
          BY <5>3, <5>4
      <4>4. Number(g \o Copies(n, 0)) = Number(f \o Copies(n, B - 1)) + 1
        BY <4>3, CarryThrough
      <4> QED
        BY <1>10, <1>11, <2>1, <2>5, <2>7, <3>2, <4>1, <4>4
    <3> QED
      BY <3>1, <3>2
  <2>9. Pending(s) = Append(w, c)
    <3>1. PICK u \in Seq(RcBytes) : u = Append(w, c)
      BY AppendProperties
    <3>2. u \o Copies(0, B - 1) = u
      BY <1>2, CopiesSteps
    <3> QED
      BY <2>6, <2>7, <3>1, <3>2 DEF Pending
  <2>10. Number(Pending(s)) = (d + h) * B + c
    BY <2>8, <2>9, NumberAppend
  <2>11. Places(s) = Places(a) + 1
    BY <1>12, <2>6, <2>7 DEF Places
  <2>12. ~(h = 0 /\ c = B - 1)
    BY <1>2, <1>13
  <2> QED
    BY <2>5, <2>6, <2>10, <2>11, <2>12, Zenon
<1>14. ASSUME ~(c < B - 1 \/ h # 0) PROVE Goal
  <2>1. h = 0 /\ c = B - 1
    BY <1>2, <1>14
  <2>2. s = WithLow(a, x, n + 1, v)
    BY <1>8, <1>9, <1>14, Zenon
  <2>3. /\ Encoder(s) /\ s.sent = q /\ s.rc.cacheSize = n + 1 /\ s.rc.low = v /\ s.rc.range = a.rc.range /\ s.rc.cache = x
    <3>1. Encoder(a) /\ n + 1 \in Nat /\ a.sent = q
      BY <1>1, <1>3
    <3>2. PICK m \in Nat : m = n + 1
      BY <3>1
    <3>3. /\ Encoder(WithLow(a, x, m, v)) /\ WithLow(a, x, m, v).sent = a.sent
          /\ WithLow(a, x, m, v).rc.range = a.rc.range /\ WithLow(a, x, m, v).rc.cache = x
          /\ WithLow(a, x, m, v).rc.cacheSize = m /\ WithLow(a, x, m, v).rc.low = v
      <4>1. Encoder(a)
        BY <3>1
      <4>2. \A i \in RcBytes, j, k \in Nat : 
               /\ Encoder(WithLow(a, i, j, k)) /\ WithLow(a, i, j, k).sent = a.sent
               /\ WithLow(a, i, j, k).rc.range = a.rc.range /\ WithLow(a, i, j, k).rc.cache = i
               /\ WithLow(a, i, j, k).rc.cacheSize = j /\ WithLow(a, i, j, k).rc.low = k
        BY <4>1, WithLowOK
      <4>3. x \in RcBytes /\ m \in Nat /\ v \in Nat
        OBVIOUS
      <4> QED
        BY <4>2, <4>3
    <3> QED
      BY <2>2, <3>1, <3>2, <3>3, Zenon
  <2>4. Pending(s) = Append(Pending(a), B - 1)
    <3>1. PICK u \in Seq(RcBytes) : u = Append(q, x)
      BY <1>11
    <3>2. u \o Copies(n + 1, B - 1) = Append(u \o Copies(n, B - 1), B - 1)
      BY <1>2, CopiesSteps
    <3> QED
      BY <1>11, <2>3, <3>1, <3>2 DEF Pending
  <2>5. Number(Pending(s)) = d * B + (B - 1)
    <3>1. Pending(a) \in Seq(RcBytes)
      BY <1>1, PendingOK
    <3> QED
      BY <1>2, <1>10, <2>4, <3>1, NumberAppend
  <2>6. Places(s) = Places(a) + 1
    BY <1>12, <2>3 DEF Places
  <2>7. (d + h) * B + c = d * B + (B - 1)
    <3>1. d + h = d
      BY <2>1
    <3> QED
      BY <2>1, <3>1, Zenon
  <2>8. ~(h = 1 \/ c < B - 1)
    BY <1>2, <1>14
  <2> QED
    BY <2>3, <2>5, <2>6, <2>7, <2>8, Zenon
<1> HIDE DEF Goal
<1>15. Goal
  BY <1>13, <1>14, Zenon
<1>16. Value(s) = Value(a) * B
  <2>1. Value(a) = d * W + (W * h + (Top * c + t))
    BY <1>3, <1>4, <1>10 DEF Value
  <2>2. Value(s) = ((d + h) * B + c) * W + t * B
    BY <1>5, <1>15 DEF Goal, Value
  <2>3. c \in Nat /\ t \in Nat /\ h \in Nat
    BY <1>2
  <2>4. ((d + h) * B + c) * W + t * B  = (d * W + (W * h + (Top * c + t))) * B
    <3>1. \A h1 \in Nat : ((d + h1) * B + c) * W + t * B = (d * W + (W * h1 + (Top * c + t))) * B
      <4>1. \A c1, t1 \in Nat : \A h1 \in Nat :
              ((d + h1) * B + c1) * W + t1 * B = (d * W + (W * h1 + (Top * c1 + t1))) * B
        BY ShiftedValue
      <4> QED
        BY <2>3, <4>1, Zenon
    <3> QED
      BY <2>3, <3>1, Zenon
  <2> QED
    BY <2>1, <2>2, <2>4, Zenon
<1>17. Ready(s)
  BY <1>2, <1>5, <1>15 DEF Goal, Ready
<1>18. Moved(a, s, h, c, t)
  BY <1>3, <1>4, <1>5, <1>15 DEF Goal, Moved
<1> QED
  BY <1>9, <1>15, <1>16, <1>17, <1>18 DEF Goal
-----------------------------------------------------------------------------
(* One bit                                                                 *)

LEMMA CutOK ==
  ASSUME NEW a, Encoder(a), NEW r \in Nat, NEW l \in Nat
  PROVE  /\ Encoder(Cut(a, r, l)) /\ Cut(a, r, l).sent = a.sent
         /\ Cut(a, r, l).rc.range = r /\ Cut(a, r, l).rc.low = l
         /\ Cut(a, r, l).rc.cache = a.rc.cache /\ Cut(a, r, l).rc.cacheSize = a.rc.cacheSize
<1>1. PICK b, e : b = WithRange(a, r) /\ e = WithOnly(b, l)
  OBVIOUS
<1>2. Cut(a, r, l) = e
  BY <1>1 DEF Cut, WithRange, WithOnly
<1>3. /\ Encoder(WithRange(a, r)) /\ WithRange(a, r).sent = a.sent /\ WithRange(a, r).rc.range = r
      /\ WithRange(a, r).rc.cache = a.rc.cache /\ WithRange(a, r).rc.cacheSize = a.rc.cacheSize
  BY WithRangeOK
<1>4. Encoder(b) /\ b.sent = a.sent /\ b.rc.range = r /\ b.rc.cache = a.rc.cache /\ b.rc.cacheSize = a.rc.cacheSize
  BY <1>1, <1>3, Zenon
<1>5. /\ Encoder(WithOnly(b, l)) /\ WithOnly(b, l).sent = b.sent /\ WithOnly(b, l).rc.low = l
      /\ WithOnly(b, l).rc.range = b.rc.range
      /\ WithOnly(b, l).rc.cache = b.rc.cache /\ WithOnly(b, l).rc.cacheSize = b.rc.cacheSize
  BY <1>4, WithOnlyOK
<1>6. /\ Encoder(e) /\ e.sent = b.sent /\ e.rc.low = l /\ e.rc.range = b.rc.range
      /\ e.rc.cache = b.rc.cache /\ e.rc.cacheSize = b.rc.cacheSize
  BY <1>1, <1>5, Zenon
<1> QED
  BY <1>2, <1>4, <1>6, Zenon

\* Of what comes after, a carry can come only into a byte that is not yet full.
Proper(a) ==
  /\ Encoder(a) /\ a.rc.low + a.rc.range < 2 * W
  /\ a.rc.cache = B - 1 => a.rc.low + a.rc.range <= W

LEMMA CutValue ==
  ASSUME NEW a, Proper(a), NEW r \in Nat, NEW k \in Nat, k + r <= a.rc.range,
         NEW e, e = Cut(a, r, a.rc.low + k)
  PROVE  /\ Proper(e) /\ e.rc.range = r /\ e.rc.low = a.rc.low + k /\ Value(e) = Value(a) + k /\ Places(e) = Places(a)
<1>1. /\ Encoder(a) /\ a.rc.low \in Nat /\ a.rc.range \in Nat /\ W \in Nat
      /\ a.rc.low + a.rc.range < 2 * W /\ (a.rc.cache = B - 1 => a.rc.low + a.rc.range <= W)
  BY SizesOK DEF Proper, Encoder, Encoders, RangeRec
<1>2. PICK l \in Nat : l = a.rc.low + k
  BY <1>1
<1>3. /\ Encoder(Cut(a, r, l)) /\ Cut(a, r, l).sent = a.sent
      /\ Cut(a, r, l).rc.range = r /\ Cut(a, r, l).rc.low = l
      /\ Cut(a, r, l).rc.cache = a.rc.cache /\ Cut(a, r, l).rc.cacheSize = a.rc.cacheSize
  <2>1. Encoder(a)
    BY <1>1
  <2>2. \A i, j \in Nat :
          /\ Encoder(Cut(a, i, j)) /\ Cut(a, i, j).sent = a.sent
          /\ Cut(a, i, j).rc.range = i /\ Cut(a, i, j).rc.low = j
          /\ Cut(a, i, j).rc.cache = a.rc.cache /\ Cut(a, i, j).rc.cacheSize = a.rc.cacheSize
    BY <2>1, CutOK
  <2> QED
    BY <2>2
<1>4. /\ Encoder(e) /\ e.sent = a.sent /\ e.rc.range = r /\ e.rc.low = l
      /\ e.rc.cache = a.rc.cache /\ e.rc.cacheSize = a.rc.cacheSize
  BY <1>2, <1>3, Zenon
<1>5. Proper(e)
  BY <1>1, <1>2, <1>4 DEF Proper
<1>6. Pending(e) = Pending(a) /\ Places(e) = Places(a)
  BY <1>4 DEF Pending, Places
<1>7. Value(e) = Value(a) + k
  <2>1. PICK d \in Nat : d = Number(Pending(a))
    BY <1>1, PendingOK
  <2>2. PICK x \in Nat : x = d * W
    <3>1. \A i, j \in Nat : i * j \in Nat
      OBVIOUS
    <3> QED
      BY <1>1, <3>1
  <2>3. Value(a) = x + a.rc.low /\ Value(e) = x + l
    BY <1>4, <1>6, <2>1, <2>2, Zenon DEF Value
  <2> QED
    BY <1>1, <1>2, <2>3
<1> QED
  BY <1>2, <1>4, <1>5, <1>6, <1>7

\* The sum of what is left of low and the range, after a shift.
LEMMA SumAfterShift ==
  ASSUME NEW l \in Nat, NEW r \in Nat, NEW h \in {0, 1}, NEW c \in RcBytes, NEW t \in 0 .. Top - 1,
         l = W * h + (Top * c + t), r < Top
  PROVE  /\ t * B + r * B < 2 * W
         /\ h = 1 /\ c = B - 1 /\ l + r < 2 * W => t * B + r * B <= W
         /\ h = 0 /\ c = B - 1 /\ l + r <= W => t * B + r * B <= W
<1>1. /\ B \in Nat /\ B >= 2 /\ Top \in Nat /\ W \in Nat /\ W = Top * B /\ W = B * Top /\ c \in Nat /\ t \in Nat
      /\ h \in Nat /\ t < Top
  BY SizesOK DEF RcBytes
<1>2. (t + r) * B = t * B + r * B /\ (t + r) * B \in Nat
  BY <1>1
<1>3. t * B + r * B < 2 * W
  <2>1. (t + r + 2) * B <= (2 * Top) * B
    BY <1>1, TimesMonotone
  <2>2. (t + r + 2) * B = (t + r) * B + 2 * B /\ (2 * Top) * B = 2 * W
    BY <1>1
  <2> QED
    BY <1>1, <1>2, <2>1, <2>2
<1>4. c = B - 1 => Top * c + Top = W
  BY <1>1
<1>5. c = B - 1 /\ t + r <= Top => t * B + r * B <= W
  <2>1. t + r <= Top => (t + r) * B <= Top * B
    BY <1>1, TimesMonotone
  <2> QED
    BY <1>1, <1>2, <2>1
<1>6. h = 1 => l = W + (Top * c + t)
  BY <1>1
<1>7. h = 0 => l = Top * c + t
  BY <1>1
<1>8. Top * c \in Nat
  BY <1>1
<1>9. h = 1 /\ c = B - 1 /\ l + r < 2 * W => t + r <= Top
  BY <1>1, <1>4, <1>6, <1>8
<1>10. h = 0 /\ c = B - 1 /\ l + r <= W => t + r <= Top
  BY <1>1, <1>4, <1>7, <1>8
<1> QED
  BY <1>3, <1>5, <1>9, <1>10

\* RC_NORM: a range that is small is made large by one shift.
LEMMA NormalizedOK ==
  ASSUME NEW a, Proper(a), B * B <= a.rc.range, a.rc.range < W, NEW s, s = Normalized(a)
  PROVE  /\ Proper(s) /\ Top <= s.rc.range /\ s.rc.range < W
         /\ a.rc.range >= Top => s.rc.range = a.rc.range /\ Value(s) = Value(a) /\ Places(s) = Places(a)
         /\ a.rc.range < Top => s.rc.range = a.rc.range * B /\ Value(s) = Value(a) * B /\ Places(s) = Places(a) + 1
<1>1. PICK r \in Nat, l \in Nat : r = a.rc.range /\ l = a.rc.low
  BY DEF Proper, Encoder, Encoders, RangeRec
<1>2. CASE r >= Top
  <2>1. s = a
    BY <1>1, <1>2, SizesOK DEF Normalized
  <2> QED
    BY <1>1, <1>2, <2>1, SizesOK
<1>3. CASE r < Top
  <2>1. PICK x \in Nat : x = r * B /\ Top <= x /\ x < W
    BY <1>1, <1>3, ShiftMakesLarge
  <2>2. PICK e : e = Cut(a, x, l)
    OBVIOUS
  <2>3. s = ShiftLow(e)
    BY <1>1, <1>3, <2>1, <2>2, Zenon DEF Normalized
  <2>4. Encoder(a) /\ l + r < 2 * W /\ (a.rc.cache = B - 1 => l + r <= W) /\ W \in Nat /\ B * B > 0 /\ B * B \in Nat
    BY <1>1, SizesOK DEF Proper
  <2>5. /\ Encoder(e) /\ e.sent = a.sent /\ e.rc.range = x /\ e.rc.low = l
        /\ e.rc.cache = a.rc.cache /\ e.rc.cacheSize = a.rc.cacheSize
    <3>1. Encoder(a)
      BY <2>4
    <3>2. \A i, j \in Nat :
            /\ Encoder(Cut(a, i, j)) /\ Cut(a, i, j).sent = a.sent
            /\ Cut(a, i, j).rc.range = i /\ Cut(a, i, j).rc.low = j
            /\ Cut(a, i, j).rc.cache = a.rc.cache /\ Cut(a, i, j).rc.cacheSize = a.rc.cacheSize
      BY <3>1, CutOK
    <3> QED
      BY <2>2, <3>2
  <2>6. Ready(e)
    BY <1>1, <2>4, <2>5 DEF Ready
  <2>7. Value(e) = Value(a) /\ Places(e) = Places(a)
    BY <1>1, <2>5 DEF Value, Places, Pending
  <2>8. /\ Ready(s) /\ s.rc.range = x /\ Value(s) = Value(a) * B /\ Places(s) = Places(a) + 1
        /\ \E h \in {0, 1}, c \in RcBytes, t \in 0 .. Top - 1 : Moved(e, s, h, c, t)
    BY <2>3, <2>5, <2>6, <2>7, ShiftLowOK
  <2>9. Proper(s)
    <3>1. PICK h \in {0, 1}, c \in RcBytes, t \in 0 .. Top - 1 : Moved(e, s, h, c, t)
      BY <2>8
    <3>2. l = W * h + (Top * c + t) /\ s.rc.low = t * B
      BY <2>5, <3>1 DEF Moved
    <3>3. /\ t * B + x < 2 * W
          /\ h = 1 /\ c = B - 1 /\ l + r < 2 * W => t * B + x <= W
          /\ h = 0 /\ c = B - 1 /\ l + r <= W => t * B + x <= W
      BY <1>3, <2>1, <3>2, SumAfterShift
    <3>4. s.rc.cache = B - 1 => c = B - 1 /\ (h = 1 \/ a.rc.cache = B - 1)
      <4>1. c \in Nat /\ c <= B - 1 /\ B \in Nat
        BY SizesOK DEF RcBytes
      <4>2. h = 1 \/ c < B - 1 => s.rc.cache = c
        BY <3>1 DEF Moved
      <4>3. h = 0 /\ c = B - 1 => s.rc.cache = a.rc.cache
        BY <2>5, <3>1 DEF Moved
      <4> QED
        BY <4>1, <4>2, <4>3
    <3>5. Encoder(s)
      BY <2>8 DEF Ready
    <3> QED
      BY <2>4, <2>8, <3>2, <3>3, <3>4, <3>5 DEF Proper
  <2>10. s.rc.range = a.rc.range * B
    BY <1>1, <2>1, <2>8, Zenon
  <2>11. ~(a.rc.range >= Top)
    BY <1>1, <1>3, SizesOK
  <2>12. Top <= s.rc.range /\ s.rc.range < W
    BY <2>1, <2>8, Zenon
  <2> QED
    BY <2>8, <2>9, <2>10, <2>11, <2>12, Zenon
<1>4. r >= Top \/ r < Top
  BY SizesOK
<1> QED
  BY <1>2, <1>3, <1>4, Zenon
-----------------------------------------------------------------------------
(* What the decoder has read                                               *)

Decoder(range, code, pos, p, bits) == [range |-> range, code |-> code, pos |-> pos, probs |-> p, bits |-> bits]

LEMMA FilledOK ==
  ASSUME NEW r \in Nat, NEW code \in Nat, code < r, r < W, NEW k \in Nat, NEW p, NEW bits, NEW s
  PROVE  Filled(Decoder(r, code, k, p, bits), s) =
         IF r < Top THEN Decoder(r * B, code * B + s[k + 1], k + 1, p, bits) ELSE Decoder(r, code, k, p, bits)
<1>1. B \in Nat /\ B >= 2 /\ Top \in Nat /\ W \in Nat /\ W = Top * B
  BY SizesOK
<1>2. PICK d : d = Decoder(r, code, k, p, bits)
  OBVIOUS
<1>3. d.range = r /\ d.code = code /\ d.pos = k /\ d.probs = p /\ d.bits = bits
  BY <1>2 DEF Decoder
<1>4. CASE r < Top
  <2>1. PICK x \in Nat : x = code * B /\ x < W
    <3>1. (code + 1) * B <= Top * B
      BY <1>1, <1>4, TimesMonotone
    <3>2. (code + 1) * B = code * B + B /\ code * B \in Nat
      BY <1>1
    <3> QED
      BY <1>1, <3>1, <3>2
  <2>2. x % W = x
    BY <1>1, <2>1
  <2>3. (d.code * B) % W = x
    BY <1>3, <2>1, <2>2, Zenon
  <2>4. PICK y, z : y = r * B /\ z = s[k + 1]
    OBVIOUS
  <2>5. Filled(d, s) = [d EXCEPT !.range = y, !.code = x + z, !.pos = k + 1]
    BY <1>3, <1>4, <2>3, <2>4 DEF Filled
  <2>6. Filled(d, s) = Decoder(y, x + z, k + 1, p, bits)
    BY <1>2, <2>5 DEF Decoder
  <2> QED
    BY <1>2, <1>4, <2>1, <2>4, <2>6, Zenon
<1>5. CASE ~(r < Top)
  BY <1>2, <1>3, <1>5, Zenon DEF Filled
<1> QED
  BY <1>4, <1>5

\* The bound of a bit, and the range that its two values leave.
BoundOf(r, p, c)       == IF c.context = "direct" THEN r \div 2 ELSE Bound(r, p[c.context])
RangeOf(r, p, c)       == IF c.context = "direct" \/ c.bit = 0 THEN BoundOf(r, p, c) ELSE r - BoundOf(r, p, c)
ProbsOf(p, c)          == IF c.context = "direct" THEN p ELSE [p EXCEPT ![c.context] = Adapted(@, c.bit)]
Coded                  == [context : Contexts \cup {"direct"}, bit : {0, 1}]

LEMMA ReadOK ==
  ASSUME NEW d, NEW s, NEW c \in Coded, NEW r \in Nat, NEW code \in Nat, NEW k, NEW p, NEW bits,
         Filled(d, s) = Decoder(r, code, k, p, bits), BoundOf(r, p, c) \in Nat,
         c.bit = 0 <=> code < BoundOf(r, p, c)
  PROVE  Read(d, s, c) = Decoder(RangeOf(r, p, c), code - BoundOf(r, p, c) * c.bit, k, ProbsOf(p, c), Append(bits, c.bit))
<1>1. PICK f : f = Filled(d, s)
  OBVIOUS
<1>2. f.range = r /\ f.code = code /\ f.pos = k /\ f.probs = p /\ f.bits = bits
  BY <1>1 DEF Decoder
<1>3. PICK b \in Nat : b = BoundOf(r, p, c)
  OBVIOUS
<1>4. b = IF c.context = "direct" THEN f.range \div 2 ELSE Bound(f.range, f.probs[c.context])
  BY <1>2, <1>3 DEF BoundOf
<1>5. c.bit = IF f.code < b THEN 0 ELSE 1
  BY <1>2, <1>3 DEF Coded
<1>6. PICK bit : bit = c.bit
  OBVIOUS
<1>7. Read(d, s, c) =
        [range |-> IF c.context = "direct" \/ bit = 0 THEN b ELSE f.range - b,
         code  |-> f.code - b * bit, pos |-> f.pos,
         probs |-> IF c.context = "direct" THEN f.probs ELSE [f.probs EXCEPT ![c.context] = Adapted(@, bit)],
         bits  |-> Append(f.bits, bit)]
  <2>1. b = IF c.context = "direct" THEN f.range \div 2 ELSE Bound(f.range, f.probs[c.context])
    BY <1>4
  <2>2. bit = IF f.code < b THEN 0 ELSE 1
    BY <1>5, <1>6
  <2> QED
    BY <1>1, <2>1, <2>2 DEF Read
<1>8. PICK r1, x, t, q : /\ r1 = IF c.context = "direct" \/ bit = 0 THEN b ELSE f.range - b
                         /\ x = f.code - b * bit
                         /\ t = Append(f.bits, bit)
                         /\ q = IF c.context = "direct" THEN f.probs ELSE [f.probs EXCEPT ![c.context] = Adapted(@, bit)]
  OBVIOUS
<1>10. Read(d, s, c) = Decoder(r1, x, k, q, t)
  BY <1>2, <1>7, <1>8, Zenon DEF Decoder
<1>11. r1 = RangeOf(r, p, c)
  BY <1>2, <1>3, <1>6, <1>8 DEF RangeOf
<1>12. x = code - BoundOf(r, p, c) * c.bit
  BY <1>2, <1>3, <1>6, <1>8
<1>13. t = Append(bits, c.bit) /\ q = ProbsOf(p, c)
  BY <1>2, <1>6, <1>8 DEF ProbsOf
<1> QED
  BY <1>10, <1>11, <1>12, <1>13

\* Both parts of a range are large enough, and lie in it.
LEMMA PartsOK ==
  ASSUME NEW r \in Nat, r >= Top, r < W, NEW p \in [Contexts -> Probabilities], NEW c \in Coded
  PROVE  /\ BoundOf(r, p, c) \in Nat /\ RangeOf(r, p, c) \in Nat
         /\ B * B <= RangeOf(r, p, c) /\ RangeOf(r, p, c) < W
         /\ c.bit = 0 => RangeOf(r, p, c) = BoundOf(r, p, c) /\ BoundOf(r, p, c) <= r
         /\ c.bit = 1 => BoundOf(r, p, c) + RangeOf(r, p, c) <= r
         /\ ProbsOf(p, c) \in [Contexts -> Probabilities]
<1>1. B * B \in Nat /\ B * B > 0 /\ Top \in Nat /\ W \in Nat
  BY SizesOK
<1>2. CASE c.context = "direct"
  <2>1. PICK h \in Nat : h = r \div 2 /\ B * B <= h /\ h < r /\ h <= r - h
    BY HalvesAreLarge
  <2>2. BoundOf(r, p, c) = h /\ RangeOf(r, p, c) = h /\ ProbsOf(p, c) = p
    BY <1>2, <2>1 DEF BoundOf, RangeOf, ProbsOf
  <2> QED
    BY <1>1, <2>1, <2>2
<1>3. CASE c.context # "direct"
  <2>1. c.context \in Contexts /\ c.bit \in {0, 1}
    BY <1>3 DEF Coded
  <2>2. PICK q \in Probabilities : q = p[c.context]
    BY <2>1
  <2>3. PICK b \in Nat : b = Bound(r, q) /\ B * B <= b /\ B * B <= r - b
    BY CutsAreLarge
  <2>4. BoundOf(r, p, c) = b /\ RangeOf(r, p, c) = (IF c.bit = 0 THEN b ELSE r - b)
    BY <1>3, <2>2, <2>3 DEF BoundOf, RangeOf
  <2>5. PICK bit \in {0, 1} : bit = c.bit
    BY <2>1
  <2>6. Adapted(q, bit) \in Probabilities
    BY AdaptedOK
  <2>7. ProbsOf(p, c) = [p EXCEPT ![c.context] = Adapted(q, bit)]
    BY <1>3, <2>2, <2>5 DEF ProbsOf
  <2>8. ProbsOf(p, c) \in [Contexts -> Probabilities]
    BY <2>6, <2>7
  <2> QED
    BY <1>1, <2>1, <2>3, <2>4, <2>8
<1> QED
  BY <1>2, <1>3

Bits(cs) == [i \in 1 .. Len(cs) |-> cs[i].bit]

LEMMA BitsAppend ==
  ASSUME NEW cs \in Seq(Coded), NEW c \in Coded
  PROVE  Bits(Append(cs, c)) = Append(Bits(cs), c.bit)
<1>1. PICK t : t = Append(cs, c)
  OBVIOUS
<1>2. /\ Len(cs) \in Nat /\ Len(t) = Len(cs) + 1 /\ t[Len(cs) + 1] = c
      /\ \A i \in 1 .. Len(cs) : t[i] = cs[i]
  BY <1>1, AppendProperties
<1>0. ASSUME NEW w \in Seq(Coded), NEW n \in Nat, n = Len(w)
      PROVE  Bits(w) \in Seq({0, 1}) /\ Len(Bits(w)) = n /\ \A i \in 1 .. n : Bits(w)[i] = w[i].bit
  <2>1. \A i \in 1 .. n : w[i].bit \in {0, 1}
    <3>1. ASSUME NEW i \in 1 .. n PROVE w[i].bit \in {0, 1}
      <4>1. w[i] \in Coded
        BY <1>0
      <4> QED
        BY <4>1 DEF Coded
    <3> QED
      BY <3>1
  <2>2. Bits(w) = [i \in 1 .. n |-> w[i].bit]
    BY <1>0 DEF Bits
  <2>3. Bits(w) \in [1 .. n -> {0, 1}]
    BY <2>1, <2>2
  <2> QED
    BY <2>2, <2>3
<1>3. Bits(cs) \in Seq({0, 1}) /\ Len(Bits(cs)) = Len(cs) /\ \A i \in 1 .. Len(cs) : Bits(cs)[i] = cs[i].bit
  BY <1>0, <1>2
<1>4. Bits(t) \in Seq({0, 1}) /\ Len(Bits(t)) = Len(cs) + 1 /\ \A i \in 1 .. Len(cs) + 1 : Bits(t)[i] = t[i].bit
  <2>1. t \in Seq(Coded)
    BY <1>1
  <2> QED
    BY <1>0, <1>2, <2>1
<1>5. PICK u : u = Append(Bits(cs), c.bit)
  OBVIOUS
<1>6. PICK g \in Seq({0, 1}), bit \in {0, 1} : g = Bits(cs) /\ bit = c.bit
  BY <1>3 DEF Coded
<1>7. u \in Seq({0, 1}) /\ Len(u) = Len(g) + 1 /\ u[Len(g) + 1] = bit /\ \A i \in 1 .. Len(g) : u[i] = g[i]
  BY <1>5, <1>6
<1>8. Len(Bits(t)) = Len(u) /\ \A i \in 1 .. Len(u) : Bits(t)[i] = u[i]
  BY <1>2, <1>3, <1>4, <1>6, <1>7
<1>9. Bits(t) = u
  BY <1>4, <1>7, <1>8, SeqEqual
<1> QED
  BY <1>1, <1>5, <1>9

LEMMA PrefixStep ==
  ASSUME NEW s \in Seq(RcBytes), NEW k \in Nat, k < Len(s)
  PROVE  /\ s[k + 1] \in Nat /\ s[k + 1] < B /\ Number(SubSeq(s, 1, k)) \in Nat
         /\ Number(SubSeq(s, 1, k + 1)) = Number(SubSeq(s, 1, k)) * B + s[k + 1]
<1>1. SubSeq(s, 1, k) \in Seq(RcBytes) /\ s[k + 1] \in RcBytes
  OBVIOUS
<1>2. SubSeq(s, 1, k + 1) = Append(SubSeq(s, 1, k), s[k + 1])
  <2>0. SubSeq(s, 1, k + 1) \in Seq(RcBytes)
    OBVIOUS
  <2>1. PICK t \in Seq(RcBytes), u \in Seq(RcBytes), x \in RcBytes : t = SubSeq(s, 1, k) /\ x = s[k + 1] /\ u = SubSeq(s, 1, k + 1)
    BY <1>1, <2>0
  <2>2. Len(t) = k /\ \A i \in 1 .. k : t[i] = s[i]
    BY <2>1
  <2>3. Len(u) = k + 1 /\ \A i \in 1 .. k + 1 : u[i] = s[i]
    BY <2>1
  <2>4. PICK v \in Seq(RcBytes) : v = Append(t, x)
    BY AppendProperties
  <2>5. Len(v) = k + 1 /\ v[k + 1] = x /\ \A i \in 1 .. k : v[i] = t[i]
    BY <2>2, <2>4
  <2>6. Len(v) = Len(u) /\ \A i \in 1 .. Len(u) : v[i] = u[i]
    BY <2>1, <2>2, <2>3, <2>5
  <2>7. v = u
    BY <2>6, SeqEqual
  <2> QED
    BY <2>1, <2>4, <2>7
<1>3. PICK t \in Seq(RcBytes), x \in RcBytes : t = SubSeq(s, 1, k) /\ x = s[k + 1]
  BY <1>1
<1>4. Number(t) \in Nat /\ Number(Append(t, x)) = Number(t) * B + x /\ x \in Nat
  BY NumberAppend
<1>5. x < B
  BY SizesOK DEF RcBytes
<1> QED
  BY <1>2, <1>3, <1>4, <1>5, Zenon

\* Of every sequence of k bytes whose number is from v to v + r, the decoder reads cs.
Reads(v, r, k, p, cs) ==
  \A s \in Seq(RcBytes) :
    k <= Len(s) /\ v <= Number(SubSeq(s, 1, k)) /\ Number(SubSeq(s, 1, k)) < v + r
    => s[1] = 0 /\ Filled(ReadAll(s, cs), s) = Decoder(r, Number(SubSeq(s, 1, k)) - v, k, p, Bits(cs))

\* The interval of a digit more.
LEMMA LastDigit ==
  ASSUME NEW b \in Nat, NEW v \in Nat, NEW r \in Nat, NEW n \in Nat, NEW x \in Nat, x < b,
         v * b <= n * b + x, n * b + x < v * b + r * b
  PROVE  v <= n /\ n < v + r /\ (n - v) * b + x = (n * b + x) - v * b
<1>1. ~(n + 1 <= v)
  <2>1. n + 1 <= v => (n + 1) * b <= v * b
    BY TimesMonotone
  <2>2. (n + 1) * b = n * b + b /\ n * b \in Nat /\ v * b \in Nat
    OBVIOUS
  <2> QED
    BY <2>1, <2>2
<1>2. ~(v + r <= n)
  <2>1. v + r <= n => (v + r) * b <= n * b
    BY TimesMonotone
  <2>2. (v + r) * b = v * b + r * b /\ n * b \in Nat /\ v * b \in Nat /\ r * b \in Nat
    OBVIOUS
  <2> QED
    BY <2>1, <2>2
<1>3. (n - v) * b + x = (n * b + x) - v * b
  <2>1. (n - v) * b = n * b - v * b /\ n * b \in Nat /\ v * b \in Nat
    OBVIOUS
  <2> QED
    BY <2>1
<1> QED
  BY <1>1, <1>2, <1>3

\* v1 and r1 are the part of an interval that the bit c takes, and q are its probabilities.
Part(v, r, k, p, cs, c, v1, r1, q) ==
  /\ p \in [Contexts -> Probabilities] /\ cs \in Seq(Coded) /\ c \in Coded
  /\ r >= Top /\ r < W /\ Reads(v, r, k, p, cs)
  /\ r1 = RangeOf(r, p, c) /\ q = ProbsOf(p, c)
  /\ v1 = (IF c.bit = 0 THEN v ELSE v + BoundOf(r, p, c))

\* n is the number of the first k bytes, and lies in an interval.
Within(s, k, n, v, r) == s \in Seq(RcBytes) /\ k <= Len(s) /\ n = Number(SubSeq(s, 1, k)) /\ v <= n /\ n < v + r

\* Before the range is made large again.
LEMMA ReadsBit ==
  ASSUME NEW v \in Nat, NEW r \in Nat, NEW k \in Nat, NEW p, NEW cs, NEW c, NEW v1 \in Nat, NEW r1 \in Nat, NEW q,
         NEW s, NEW n \in Nat
  PROVE  Part(v, r, k, p, cs, c, v1, r1, q) /\ Within(s, k, n, v1, r1)
        => s[1] = 0 /\ Read(ReadAll(s, cs), s, c) = Decoder(r1, n - v1, k, q, Bits(Append(cs, c)))
<1>0. SUFFICES ASSUME p \in [Contexts -> Probabilities], cs \in Seq(Coded), c \in Coded, s \in Seq(RcBytes),
                      r >= Top, r < W, Reads(v, r, k, p, cs), r1 = RangeOf(r, p, c), q = ProbsOf(p, c),
                      v1 = (IF c.bit = 0 THEN v ELSE v + BoundOf(r, p, c)),
                      k <= Len(s), n = Number(SubSeq(s, 1, k)), v1 <= n, n < v1 + r1
               PROVE  s[1] = 0 /\ Read(ReadAll(s, cs), s, c) = Decoder(r1, n - v1, k, q, Bits(Append(cs, c)))
  BY Zenon DEF Part, Within
<1>01. PICK b \in Nat : b = BoundOf(r, p, c)
  BY <1>0, PartsOK
<1>02. p \in [Contexts -> Probabilities] /\ cs \in Seq(Coded) /\ c \in Coded /\ s \in Seq(RcBytes)
  BY <1>0
<1>1. /\ r >= Top /\ r < W /\ Reads(v, r, k, p, cs) /\ b = BoundOf(r, p, c) /\ r1 = RangeOf(r, p, c)
      /\ q = ProbsOf(p, c) /\ v1 = (IF c.bit = 0 THEN v ELSE v + b)
      /\ k <= Len(s) /\ n = Number(SubSeq(s, 1, k)) /\ v1 <= n /\ n < v1 + r1
  BY <1>0, <1>01, Zenon
<1>2. PICK bit \in {0, 1} : bit = c.bit
  BY <1>02 DEF Coded
<1>3. (bit = 0 => r1 = b /\ b <= r) /\ (bit = 1 => b + r1 <= r)
  BY <1>1, <1>02, <1>2, PartsOK
<1>4. v1 = (IF bit = 0 THEN v ELSE v + b) /\ v1 <= n /\ n < v1 + r1
  BY <1>1, <1>2, Zenon
<1>5. v <= n /\ n < v + r /\ n - v \in Nat /\ (bit = 0 <=> n - v < b) /\ (n - v) - b * bit = n - v1
  <2>1. CASE bit = 0
    BY <1>3, <1>4, <2>1
  <2>2. CASE bit = 1
    BY <1>3, <1>4, <2>2
  <2> QED
    BY <2>1, <2>2
<1>6. s[1] = 0 /\ Filled(ReadAll(s, cs), s) = Decoder(r, n - v, k, p, Bits(cs))
  BY <1>1, <1>02, <1>5, Zenon DEF Reads
<1>7. PICK x \in Nat : x = n - v
  BY <1>5
<1>8. PICK d, bits : d = ReadAll(s, cs) /\ bits = Bits(cs)
  OBVIOUS
<1>9. Filled(d, s) = Decoder(r, x, k, p, bits)
  BY <1>6, <1>7, <1>8, Zenon
<1>10. c.bit = 0 <=> x < BoundOf(r, p, c)
  BY <1>1, <1>2, <1>5, <1>7, Zenon
<1>11. Read(d, s, c) = Decoder(RangeOf(r, p, c), x - BoundOf(r, p, c) * c.bit, k, ProbsOf(p, c), Append(bits, c.bit))
  <2>1. BoundOf(r, p, c) \in Nat
    BY <1>1, Zenon
  <2> QED
    BY <1>02, <1>9, <1>10, <2>1, ReadOK
<1>12. x - BoundOf(r, p, c) * c.bit = n - v1
  BY <1>1, <1>2, <1>5, <1>7, Zenon
<1>13. Append(bits, c.bit) = Bits(Append(cs, c))
  BY <1>02, <1>8, BitsAppend, Zenon
<1> QED
  BY <1>1, <1>6, <1>8, <1>11, <1>12, <1>13, Zenon

\* The decoder reads one bit more of every sequence in the interval that the bit leaves.
LEMMA ReadsStep ==
  ASSUME NEW v \in Nat, NEW r \in Nat, NEW k \in Nat, NEW p, NEW cs, NEW c, NEW v1 \in Nat, NEW r1 \in Nat, NEW q, NEW v2 \in Nat, NEW r2 \in Nat, NEW k2 \in Nat
  PROVE  /\ Part(v, r, k, p, cs, c, v1, r1, q)
         /\ r1 >= Top => r2 = r1 /\ v2 = v1 /\ k2 = k
         /\ r1 < Top => r2 = r1 * B /\ v2 = v1 * B /\ k2 = k + 1
        => Reads(v2, r2, k2, q, Append(cs, c))
<1>1. SUFFICES ASSUME Part(v, r, k, p, cs, c, v1, r1, q),
                      r1 >= Top => r2 = r1 /\ v2 = v1 /\ k2 = k,
                      r1 < Top => r2 = r1 * B /\ v2 = v1 * B /\ k2 = k + 1,
                      NEW s \in Seq(RcBytes), k2 <= Len(s),
                      v2 <= Number(SubSeq(s, 1, k2)), Number(SubSeq(s, 1, k2)) < v2 + r2
               PROVE  /\ s[1] = 0
                      /\ Filled(ReadAll(s, Append(cs, c)), s) =
                           Decoder(r2, Number(SubSeq(s, 1, k2)) - v2, k2, q, Bits(Append(cs, c)))
  BY Zenon DEF Reads
<1>02. p \in [Contexts -> Probabilities] /\ cs \in Seq(Coded) /\ c \in Coded
  BY <1>1 DEF Part
<1>2. PICK bits : bits = Bits(Append(cs, c))
  OBVIOUS
<1>3. PICK d : d = Read(ReadAll(s, cs), s, c)
  OBVIOUS
<1>4. ReadAll(s, Append(cs, c)) = d
  BY <1>02, <1>3, ReadAllSteps
<1>5. B \in Nat /\ B >= 2 /\ Top \in Nat /\ W \in Nat /\ r1 < W
  <2>1. r >= Top /\ r < W /\ r1 = RangeOf(r, p, c)
    BY <1>1 DEF Part
  <2> QED
    BY <1>02, <2>1, PartsOK, SizesOK
<1>6. Len(s) \in Nat
  OBVIOUS
<1>7. CASE r1 >= Top
  <2>1. r2 = r1 /\ v2 = v1 /\ k2 = k /\ k <= Len(s)
    BY <1>1, <1>7
  <2>2. PICK n \in Nat : n = Number(SubSeq(s, 1, k))
    <3>1. SubSeq(s, 1, k) \in Seq(RcBytes)
      BY <1>6, <2>1
    <3> QED
      BY <3>1, NumberOK
  <2>3. v1 <= n /\ n < v1 + r1
    BY <1>1, <2>1, <2>2, Zenon
  <2>4. s[1] = 0 /\ d = Decoder(r1, n - v1, k, q, bits)
    <3>1. s[1] = 0 /\ Read(ReadAll(s, cs), s, c) = Decoder(r1, n - v1, k, q, Bits(Append(cs, c)))
      <4>1. Within(s, k, n, v1, r1)
        BY <2>1, <2>2, <2>3, Zenon DEF Within
      <4>2. Part(v, r, k, p, cs, c, v1, r1, q)
        BY <1>1, Zenon
      <4> QED
        BY <4>1, <4>2, ReadsBit
    <3> QED
      BY <1>2, <1>3, <3>1, Zenon
  <2>5. PICK x \in Nat : x = n - v1 /\ x < r1
    BY <2>3
  <2>6. Filled(Decoder(r1, x, k, q, bits), s) = Decoder(r1, x, k, q, bits)
    <3>1. ~(r1 < Top)
      BY <1>5, <1>7
    <3>2. x < r1 /\ r1 < W
      BY <1>5, <2>5
    <3> QED
      BY <3>1, <3>2, FilledOK
  <2>7. Filled(d, s) = Decoder(r1, n - v1, k, q, bits)
    BY <2>4, <2>5, <2>6, Zenon
  <2> QED
    BY <1>2, <1>4, <2>1, <2>2, <2>4, <2>7, Zenon
<1>8. CASE r1 < Top
  <2>1. r2 = r1 * B /\ v2 = v1 * B /\ k2 = k + 1 /\ k < Len(s) /\ k <= Len(s)
    <3>1. r2 = r1 * B /\ v2 = v1 * B /\ k2 = k + 1
      BY <1>1, <1>8, Zenon
    <3>2. k2 <= Len(s)
      BY <1>1
    <3>3. k2 = k + 1
      BY <3>1
    <3>4. k < Len(s) /\ k <= Len(s)
      BY <1>6, <3>2, <3>3
    <3> QED
      BY <3>1, <3>4, Zenon
  <2>2. PICK n \in Nat, y \in Nat : /\ n = Number(SubSeq(s, 1, k)) /\ y = s[k + 1] /\ y < B
                                    /\ Number(SubSeq(s, 1, k2)) = n * B + y
    <3>1. /\ s[k + 1] \in Nat /\ s[k + 1] < B /\ Number(SubSeq(s, 1, k)) \in Nat
          /\ Number(SubSeq(s, 1, k + 1)) = Number(SubSeq(s, 1, k)) * B + s[k + 1]
      BY <2>1, PrefixStep
    <3> QED
      BY <2>1, <3>1
  <2>3. v1 * B <= n * B + y /\ n * B + y < v1 * B + r1 * B
    BY <1>1, <2>1, <2>2, Zenon
  <2>4. v1 <= n /\ n < v1 + r1 /\ (n - v1) * B + y = (n * B + y) - v1 * B
    <3>1. PICK bb \in Nat : bb = B
      BY <1>5
    <3>2. y < bb /\ v1 * bb <= n * bb + y /\ n * bb + y < v1 * bb + r1 * bb
      BY <2>2, <2>3, <3>1, Zenon
    <3>3. v1 <= n /\ n < v1 + r1 /\ (n - v1) * bb + y = (n * bb + y) - v1 * bb
      BY <3>2, LastDigit
    <3> QED
      BY <3>1, <3>3, Zenon
  <2>5. s[1] = 0 /\ d = Decoder(r1, n - v1, k, q, bits)
    <3>0. Within(s, k, n, v1, r1)
      BY <2>1, <2>2, <2>4, Zenon DEF Within
    <3>1. s[1] = 0 /\ Read(ReadAll(s, cs), s, c) = Decoder(r1, n - v1, k, q, Bits(Append(cs, c)))
      <4>2. Part(v, r, k, p, cs, c, v1, r1, q)
        BY <1>1, Zenon
      <4> QED
        BY <3>0, <4>2, ReadsBit
    <3> QED
      BY <1>2, <1>3, <3>1, Zenon
  <2>6. PICK x \in Nat : x = n - v1 /\ x < r1
    BY <2>4
  <2>7. Filled(Decoder(r1, x, k, q, bits), s) = Decoder(r1 * B, x * B + s[k + 1], k + 1, q, bits)
    <3>1. x < r1 /\ r1 < W
      BY <1>5, <2>6
    <3> QED
      BY <1>8, <3>1, FilledOK
  <2>8. Filled(d, s) = Decoder(r2, (n * B + y) - v2, k2, q, bits)
    BY <2>1, <2>2, <2>4, <2>5, <2>6, <2>7, Zenon
  <2>9. Filled(d, s) = Decoder(r2, Number(SubSeq(s, 1, k2)) - v2, k2, q, bits)
    <3>1. PICK m : m = n * B + y
      OBVIOUS
    <3>2. Filled(d, s) = Decoder(r2, m - v2, k2, q, bits)
      BY <2>8, <3>1, Zenon
    <3>3. m = Number(SubSeq(s, 1, k2))
      BY <2>2, <3>1, Zenon
    <3> QED
      BY <3>2, <3>3, Zenon
  <2> QED
    BY <1>2, <1>4, <2>5, <2>9, Zenon
<1> QED
  BY <1>5, <1>7, <1>8

\* The first five bytes.
LEMMA ReadsFirst == Reads(0, W - 1, 5, HalfProb, <<>>)
<1>1. SUFFICES ASSUME NEW s \in Seq(RcBytes), 5 <= Len(s), Number(SubSeq(s, 1, 5)) < 0 + (W - 1)
               PROVE  s[1] = 0 /\ Filled(ReadAll(s, <<>>), s) = Decoder(W - 1, Number(SubSeq(s, 1, 5)) - 0, 5, HalfProb, Bits(<<>>))
  BY Zenon DEF Reads
<1>2. /\ B \in Nat /\ B >= 2 /\ Top \in Nat /\ W \in Nat /\ 2 * Top <= W /\ W = Top * B /\ Top = (B * B) * B /\ B * B \in Nat
      /\ B * B > 0 /\ 2 * (B * B) <= Top
  BY SizesOK DEF Top
<1>3. PICK x1 \in Nat, x2 \in Nat, x3 \in Nat, x4 \in Nat, x5 \in Nat :
        x1 = s[1] /\ x2 = s[2] /\ x3 = s[3] /\ x4 = s[4] /\ x5 = s[5]
  <2>1. Len(s) \in Nat
    OBVIOUS
  <2>2. s[0 + 1] \in Nat /\ s[1 + 1] \in Nat /\ s[2 + 1] \in Nat /\ s[3 + 1] \in Nat /\ s[4 + 1] \in Nat
    BY <1>1, <2>1, PrefixStep
  <2>3. s[1] \in Nat /\ s[2] \in Nat /\ s[3] \in Nat /\ s[4] \in Nat /\ s[5] \in Nat
    <3>1. 0 + 1 = 1 /\ 1 + 1 = 2 /\ 2 + 1 = 3 /\ 3 + 1 = 4 /\ 4 + 1 = 5
      OBVIOUS
    <3> QED
      BY <2>2, <3>1, Zenon
  <2> QED
    BY <2>3, Zenon
<1>40. \A i, j \in Nat : i * B + j \in Nat
  BY <1>2
<1>41. PICK n1 \in Nat : n1 = x1
  OBVIOUS
<1>42. PICK n2 \in Nat : n2 = n1 * B + x2
  BY <1>40
<1>43. PICK n3 \in Nat : n3 = n2 * B + x3
  BY <1>40
<1>44. PICK n4 \in Nat : n4 = n3 * B + x4
  BY <1>40
<1>45. PICK n5 \in Nat : n5 = n4 * B + x5
  BY <1>40
<1>4. n1 = x1 /\ n2 = n1 * B + x2 /\ n3 = n2 * B + x3 /\ n4 = n3 * B + x4 /\ n5 = n4 * B + x5
  BY <1>41, <1>42, <1>43, <1>44, <1>45, Zenon
<1>5. Number(SubSeq(s, 1, 5)) = n5
  <2>0. Len(s) \in Nat
    OBVIOUS
  <2>1. \A k \in Nat : k < Len(s) => Number(SubSeq(s, 1, k + 1)) = Number(SubSeq(s, 1, k)) * B + s[k + 1]
    BY PrefixStep
  <2>2. Number(SubSeq(s, 1, 0)) = 0
    <3>1. SubSeq(s, 1, 0) = <<>>
      OBVIOUS
    <3>2. Number(<<>>) = 0
      <4>1. <<>> \in Seq(Nat) /\ 0 \in Nat
        OBVIOUS
      <4> QED
        BY <4>1, NumberSteps
    <3> QED
      BY <3>1, <3>2
  <2>3. Number(SubSeq(s, 1, 1)) = n1
    <3>1. Number(SubSeq(s, 1, 0 + 1)) = Number(SubSeq(s, 1, 0)) * B + s[0 + 1]
      BY <1>1, <2>0, <2>1
    <3> QED
      <4>1. 0 + 1 = 1 /\ 0 * B + x1 = x1
        BY <1>2
      <4> QED
        BY <1>3, <1>4, <2>2, <3>1, <4>1, Zenon
  <2>4. Number(SubSeq(s, 1, 2)) = n2
    <3>1. Number(SubSeq(s, 1, 1 + 1)) = Number(SubSeq(s, 1, 1)) * B + s[1 + 1]
      BY <1>1, <2>0, <2>1
    <3>2. 1 + 1 = 2
      OBVIOUS
    <3> QED
      BY <1>3, <1>4, <2>3, <3>1, <3>2, Zenon
  <2>5. Number(SubSeq(s, 1, 3)) = n3
    <3>1. Number(SubSeq(s, 1, 2 + 1)) = Number(SubSeq(s, 1, 2)) * B + s[2 + 1]
      BY <1>1, <2>0, <2>1
    <3>2. 2 + 1 = 3
      OBVIOUS
    <3> QED
      BY <1>3, <1>4, <2>4, <3>1, <3>2, Zenon
  <2>6. Number(SubSeq(s, 1, 4)) = n4
    <3>1. Number(SubSeq(s, 1, 3 + 1)) = Number(SubSeq(s, 1, 3)) * B + s[3 + 1]
      BY <1>1, <2>0, <2>1
    <3>2. 3 + 1 = 4
      OBVIOUS
    <3> QED
      BY <1>3, <1>4, <2>5, <3>1, <3>2, Zenon
  <2> QED
    <3>1. Number(SubSeq(s, 1, 4 + 1)) = Number(SubSeq(s, 1, 4)) * B + s[4 + 1]
      BY <1>1, <2>0, <2>1
    <3>2. 4 + 1 = 5
      OBVIOUS
    <3> QED
      BY <1>3, <1>4, <2>6, <3>1, <3>2, Zenon
<1>6. n5 < W - 1
  BY <1>1, <1>2, <1>5
<1>7. x1 = 0
  <2>1. \A i, j, m, x \in Nat : i <= j /\ m = j * B + x => i * B <= m
    <3>1. ASSUME NEW i \in Nat, NEW j \in Nat, NEW m \in Nat, NEW x \in Nat, i <= j, m = j * B + x
          PROVE  i * B <= m
      <4>1. i * B <= j * B /\ i * B \in Nat /\ j * B \in Nat
        BY <1>2, <3>1, TimesMonotone
      <4> QED
        BY <3>1, <4>1
    <3> QED
      BY <3>1
  <2>2. ~(1 <= n1)
    <3>1. SUFFICES ASSUME 1 <= n1 PROVE FALSE
      OBVIOUS
    <3>2. B <= n2
      <4>1. 1 * B <= n2
        BY <1>4, <2>1, <3>1
      <4> QED
        BY <1>2, <4>1
    <3>3. B * B <= n3
      BY <1>2, <1>4, <2>1, <3>2
    <3>4. (B * B) * B <= n4
      BY <1>2, <1>4, <2>1, <3>3
    <3>5. Top <= n4
      BY <1>2, <3>4, Zenon
    <3>6. Top * B <= n5
      BY <1>2, <1>4, <2>1, <3>5
    <3>7. W <= n5
      BY <1>2, <3>6, Zenon
    <3> QED
      BY <1>2, <1>6, <3>7
  <2> QED
    BY <1>4, <2>2
<1>8. n5 = ((x2 * B + x3) * B + x4) * B + x5
  <2>1. n2 = x2
    BY <1>2, <1>4, <1>7
  <2> QED
    BY <1>4, <2>1, Zenon
<1>9. Started(s) = Decoder(W - 1, n5, 5, HalfProb, <<>>)
  BY <1>3, <1>8, Zenon DEF Started, Decoder
<1>10. PICK r \in Nat : r = W - 1 /\ n5 < r /\ r < W /\ ~(r < Top)
  BY <1>2, <1>6
<1>11. Filled(Decoder(r, n5, 5, HalfProb, <<>>), s) = Decoder(r, n5, 5, HalfProb, <<>>)
  <2>1. PICK k \in Nat : k = 5
    OBVIOUS
  <2>2. Filled(Decoder(r, n5, k, HalfProb, <<>>), s) = Decoder(r, n5, k, HalfProb, <<>>)
    BY <1>10, FilledOK
  <2> QED
    BY <2>1, <2>2, Zenon
<1>12. ReadAll(s, <<>>) = Started(s)
  <2>1. <<>> \in Seq(Nat) /\ 0 \in Nat
    OBVIOUS
  <2> QED
    BY <2>1, ReadAllSteps
<1>13. Bits(<<>>) = <<>>
  BY DEF Bits
<1>14. Number(SubSeq(s, 1, 5)) - 0 = n5
  BY <1>5
<1> QED
  BY <1>3, <1>7, <1>9, <1>10, <1>11, <1>12, <1>13, <1>14, Zenon
-----------------------------------------------------------------------------
(* The end                                                                 *)

\* A low whose last digits are 0 has one digit less after a shift; h is no carry.
Shifts(a, s) == \E h \in {0, 1}, c \in RcBytes, t \in 0 .. Top - 1 : Moved(a, s, h, c, t)

LEMMA LowDigits ==
  ASSUME NEW a, NEW s, Shifts(a, s), a.rc.low < W
  PROVE  \E c \in Nat, t \in Nat : /\ t < Top /\ a.rc.low = Top * c + t /\ s.rc.low = t * B /\ s.rc.low < W
                                   /\ c < B - 1 => s.rc.cache = c /\ s.rc.cacheSize = 0
<1>1. PICK h \in {0, 1}, c \in RcBytes, t \in 0 .. Top - 1 : Moved(a, s, h, c, t)
  BY DEF Shifts
<1>2. Top \in Nat /\ W \in Nat /\ c \in Nat /\ t \in Nat /\ t < Top
  BY <1>1, SizesOK DEF RcBytes
<1>3. /\ a.rc.low = W * h + (Top * c + t) /\ s.rc.low = t * B /\ s.rc.low < W
      /\ c < B - 1 => s.rc.cache = c /\ s.rc.cacheSize = 0
  BY <1>1 DEF Moved
<1>4. PICK x \in Nat : x = Top * c + t
  <2>1. \A i, j, k \in Nat : i * j + k \in Nat
    OBVIOUS
  <2> QED
    BY <1>2, <2>1
<1>5. h = 0
  <2>1. h = 1 => W * h + x >= W
    BY <1>2
  <2> QED
    BY <1>2, <1>3, <1>4, <2>1
<1>6. W * h + x = x
  BY <1>2, <1>5
<1>7. a.rc.low = Top * c + t
  BY <1>3, <1>4, <1>6, Zenon
<1> QED
  BY <1>2, <1>3, <1>7, Zenon

\* FlushData: five bytes, and nothing is left behind.
LEMMA FlushDataOK ==
  ASSUME NEW a, Ready(a)
  PROVE  /\ Encoder(FlushData(a)) /\ FlushData(a).rc.range = a.rc.range /\ FlushData(a).rc.low = 0
         /\ FlushData(a).rc.cache = 0 /\ FlushData(a).rc.cacheSize = 0
         /\ Number(FlushData(a).sent) = Value(a) /\ Len(FlushData(a).sent) = Places(a) + 4
<1>1. PICK a1, a2, a3, a4, a5 : /\ a1 = ShiftLow(a) /\ a2 = ShiftLow(a1) /\ a3 = ShiftLow(a2)
                                /\ a4 = ShiftLow(a3) /\ a5 = ShiftLow(a4)
  OBVIOUS
<1>2. FlushData(a) = a5
  BY <1>1, Zenon DEF FlushData
<1>3. ASSUME NEW e, Ready(e), NEW f, f = ShiftLow(e)
      PROVE  /\ Ready(f) /\ f.rc.range = e.rc.range /\ Value(f) = Value(e) * B /\ Places(f) = Places(e) + 1
             /\ Shifts(e, f)
  BY <1>3, ShiftLowOK DEF Shifts
<1>4. /\ Ready(a1) /\ a1.rc.range = a.rc.range /\ Value(a1) = Value(a) * B /\ Places(a1) = Places(a) + 1
      /\ Shifts(a, a1)
  BY <1>1, <1>3
<1>5. /\ Ready(a2) /\ a2.rc.range = a1.rc.range /\ Value(a2) = Value(a1) * B /\ Places(a2) = Places(a1) + 1
      /\ Shifts(a1, a2)
  BY <1>1, <1>3, <1>4
<1>6. /\ Ready(a3) /\ a3.rc.range = a2.rc.range /\ Value(a3) = Value(a2) * B /\ Places(a3) = Places(a2) + 1
      /\ Shifts(a2, a3)
  BY <1>1, <1>3, <1>5
<1>7. /\ Ready(a4) /\ a4.rc.range = a3.rc.range /\ Value(a4) = Value(a3) * B /\ Places(a4) = Places(a3) + 1
      /\ Shifts(a3, a4)
  BY <1>1, <1>3, <1>6
<1>8. /\ Ready(a5) /\ a5.rc.range = a4.rc.range /\ Value(a5) = Value(a4) * B /\ Places(a5) = Places(a4) + 1
      /\ Shifts(a4, a5)
  BY <1>1, <1>3, <1>7
<1>9. /\ B \in Nat /\ B >= 2 /\ Top \in Nat /\ W \in Nat /\ W = Top * B /\ Top = B * B * B /\ Top > 0
      /\ RcBytes \subseteq Nat
  BY SizesOK DEF Top, RcBytes
<1>10. PICK t1 \in Nat : a1.rc.low = t1 * B /\ a1.rc.low < W
  <2>1. PICK h \in {0, 1}, c \in RcBytes, t \in 0 .. Top - 1 : Moved(a, a1, h, c, t)
    BY <1>4 DEF Shifts
  <2>2. t \in Nat /\ a1.rc.low = t * B /\ a1.rc.low < W
    BY <1>9, <2>1 DEF Moved
  <2> QED
    BY <2>2
<1>11. PICK u2 \in Int : a2.rc.low = (u2 * B) * B /\ a2.rc.low < W
  <2>2. PICK c \in Nat, t \in Nat : a1.rc.low = Top * c + t /\ a2.rc.low = t * B /\ a2.rc.low < W
    BY <1>5, <1>10, LowDigits
  <2>3. PICK u \in Int : u = t1 - (B * B) * c
    <3>1. \A i, j, k, m \in Nat : i - (j * k) * m \in Int
      OBVIOUS
    <3> QED
      BY <1>9, <3>1
  <2>4. t = u * B
    <3>1. c \in Nat /\ t \in Nat
      OBVIOUS
    <3>2. t1 * B = (B * B * B) * c + t
      BY <1>9, <1>10, <2>2, Zenon
    <3>3. (t1 - (B * B) * c) * B = t1 * B - (B * B * B) * c
      BY <1>9, <3>1
    <3>4. PICK x \in Int, y \in Int : x = t1 * B /\ y = (B * B * B) * c
      <4>1. \A i, j \in Nat : i * j \in Int
        OBVIOUS
      <4>2. B * B \in Nat /\ B * B * B \in Nat
        BY <1>9
      <4> QED
        BY <1>9, <3>1, <4>1, <4>2
    <3>5. t = x - y
      BY <3>1, <3>2, <3>4
    <3> QED
      BY <2>3, <3>3, <3>4, <3>5, Zenon
  <2> QED
    BY <2>2, <2>4, Zenon
<1>12. PICK u3 \in Int : a3.rc.low = u3 * Top /\ a3.rc.low < W
  <2>2. PICK c \in Nat, t \in Nat : a2.rc.low = Top * c + t /\ a3.rc.low = t * B /\ a3.rc.low < W
    BY <1>6, <1>11, LowDigits
  <2>3. PICK u \in Int : u = u2 - B * c
    <3>1. \A i \in Int, j, k \in Nat : i - j * k \in Int
      OBVIOUS
    <3> QED
      BY <1>9, <3>1
  <2>4. t = (u * B) * B
    <3>1. c \in Nat /\ t \in Nat
      OBVIOUS
    <3>2. (u2 * B) * B = (B * B * B) * c + t
      BY <1>9, <1>11, <2>2, Zenon
    <3>3. ((u2 - B * c) * B) * B = (u2 * B) * B - (B * B * B) * c
      BY <1>9, <3>1
    <3>4. PICK x \in Int, y \in Int : x = (u2 * B) * B /\ y = (B * B * B) * c
      <4>1. \A i, j \in Int : i * j \in Int
        OBVIOUS
      <4>2. u2 * B \in Int /\ B * B \in Int /\ B * B * B \in Int
        BY <1>9, <4>1
      <4> QED
        BY <1>9, <3>1, <4>1, <4>2
    <3>5. t = x - y
      BY <3>1, <3>2, <3>4
    <3> QED
      BY <2>3, <3>3, <3>4, <3>5, Zenon
  <2>5. ((u * B) * B) * B = u * (B * B * B)
    BY <1>9
  <2> QED
    BY <1>9, <2>2, <2>4, <2>5, Zenon
<1>13. a4.rc.low = 0
  <2>2. PICK c \in Nat, t \in Nat : t < Top /\ a3.rc.low = Top * c + t /\ a4.rc.low = t * B
    BY <1>7, <1>12, LowDigits
  <2>3. c \in Nat /\ t \in Nat /\ t < Top
    BY <2>2
  <2>4. PICK u \in Int : u = u3 - c
    BY <2>3
  <2>5. t = u * Top
    <3>1. u3 * Top = Top * c + t
      BY <1>12, <2>2, Zenon
    <3>2. (u3 - c) * Top = u3 * Top - Top * c
      BY <1>9, <2>3
    <3>3. PICK x \in Int, y \in Int : x = u3 * Top /\ y = Top * c
      <4>1. \A i, j \in Int : i * j \in Int
        OBVIOUS
      <4> QED
        BY <1>9, <2>3, <4>1
    <3>4. t = x - y
      BY <2>3, <3>1, <3>3
    <3> QED
      BY <2>4, <3>2, <3>3, <3>4, Zenon
  <2>6. t = 0
    <3>1. CASE u >= 1
      <4>1. 1 * Top <= u * Top
        BY <1>9, <3>1, TimesMonotone
      <4> QED
        BY <1>9, <2>3, <2>5, <4>1
    <3>2. CASE u = 0
      BY <1>9, <2>5, <3>2
    <3>3. CASE u <= -1
      <4>1. PICK m \in Nat : m = 0 - u /\ m >= 1
        BY <3>3
      <4>2. 1 * Top <= m * Top
        BY <1>9, <4>1, TimesMonotone
      <4>3. u * Top = 0 - m * Top
        BY <1>9, <4>1
      <4>4. m * Top \in Nat
        BY <1>9
      <4> QED
        BY <1>9, <2>3, <2>5, <4>2, <4>3, <4>4
    <3> QED
      BY <3>1, <3>2, <3>3
  <2> QED
    BY <1>9, <2>2, <2>6
<1>14. a5.rc.low = 0 /\ a5.rc.cache = 0 /\ a5.rc.cacheSize = 0
  <2>1. a4.rc.low < W
    BY <1>9, <1>13, SizesOK
  <2>2. PICK c \in Nat, t \in Nat : /\ a4.rc.low = Top * c + t /\ a5.rc.low = t * B
                                    /\ c < B - 1 => a5.rc.cache = c /\ a5.rc.cacheSize = 0
    BY <1>8, <2>1, LowDigits
  <2>3. PICK x \in Nat : x = Top * c
    <3>1. \A i, j \in Nat : i * j \in Nat
      OBVIOUS
    <3> QED
      BY <1>9, <3>1
  <2>4. x + t = 0
    BY <1>13, <2>2, <2>3, Zenon
  <2>5. x = 0 /\ t = 0
    BY <2>4
  <2>6. c = 0
    <3>1. c >= 1 => Top * c >= Top
      BY <1>9
    <3> QED
      BY <1>9, <2>3, <2>5, <3>1
  <2>7. t * B = 0
    BY <1>9, <2>5
  <2> QED
    BY <1>9, <2>2, <2>6, <2>7
<1>15. PICK q \in Seq(RcBytes) : q = a5.sent
  BY <1>8 DEF Ready, Encoder, Encoders
<1>16. Len(q) = Places(a) + 4
  <2>1. Places(a5) = Len(q) + 1 + 0
    BY <1>14, <1>15, Zenon DEF Places
  <2>2. PICK l \in Nat, n \in Nat : l = Len(q) /\ n = Places(a)
    BY PendingOK DEF Ready
  <2>3. l + 1 + 0 = ((((n + 1) + 1) + 1) + 1) + 1
    BY <1>4, <1>5, <1>6, <1>7, <1>8, <2>1, <2>2, Zenon
  <2>4. l = n + 4
    BY <2>3
  <2> QED
    BY <2>2, <2>4
<1>17. Number(q) = Value(a)
  <2>1. 0 \in RcBytes /\ B - 1 \in RcBytes
    BY <1>9 DEF RcBytes
  <2>2. Pending(a5) = Append(q, 0)
    <3>0. PICK z \in RcBytes : z = 0
      BY <2>1
    <3>3. PICK u \in Seq(RcBytes) : u = Append(q, z)
      BY AppendProperties
    <3>1. u = Append(q, z) /\ z = 0
      BY <3>0, <3>3
    <3>2. u \o Copies(0, B - 1) = u
      BY <2>1, CopiesSteps
    <3> QED
      BY <1>14, <1>15, <3>1, <3>2, Zenon DEF Pending
  <2>3. PICK n \in Nat, v \in Nat : n = Number(q) /\ v = Value(a)
    BY NumberOK, PendingOK DEF Ready
  <2>4. Number(Pending(a5)) = n * B + 0
    BY <2>1, <2>2, <2>3, NumberAppend
  <2>5. Value(a5) = (n * B + 0) * W + 0
    BY <1>14, <2>4, Zenon DEF Value
  <2>6. Value(a5) = ((((v * B) * B) * B) * B) * B
    BY <1>4, <1>5, <1>6, <1>7, <1>8, <2>3, Zenon
  <2>7. (n * B) * W = ((((v * B) * B) * B) * B) * B
    <3>1. (n * B + 0) * W + 0 = (n * B) * W
      <4>1. n * B + 0 = n * B /\ (n * B) * W \in Nat
        BY <1>9
      <4> QED
        BY <4>1
    <3> QED
      BY <2>5, <2>6, <3>1, Zenon
  <2>8. ((((v * B) * B) * B) * B) * B = (v * B) * W
    <3>1. ((((v * B) * B) * B) * B) * B = (v * B) * (B * B * B * B)
      BY <1>9
    <3>2. B * B * B * B = W
      BY <1>9
    <3> QED
      BY <3>1, <3>2, Zenon
  <2>9. PICK m \in Nat : m = B * W /\ m > 0
    <3>1. \A i, j \in Nat : i > 0 /\ j > 0 => i * j \in Nat /\ i * j > 0
      OBVIOUS
    <3>2. W > 0 /\ B > 0
      BY SizesOK
    <3> QED
      BY <1>9, <3>1, <3>2
  <2>10. n * m = v * m
    <3>1. (n * B) * W = n * (B * W) /\ (v * B) * W = v * (B * W)
      BY <1>9
    <3> QED
      BY <2>7, <2>8, <2>9, <3>1, Zenon
  <2>11. n = v
    <3>1. \A i, j \in Nat : i < j => i * m < j * m
      <4>1. ASSUME NEW i \in Nat, NEW j \in Nat, i < j PROVE i * m < j * m
        <5>1. (i + 1) * m <= j * m
          <6>1. PICK k \in Nat : k = i + 1
            OBVIOUS
          <6>2. k <= j
            BY <4>1, <6>1
          <6>3. k * m <= j * m
            BY <6>2, TimesMonotone
          <6> QED
            BY <6>1, <6>3, Zenon
        <5>2. (i + 1) * m = i * m + m
          OBVIOUS
        <5>3. PICK x \in Nat, y \in Nat : x = i * m /\ y = j * m
          OBVIOUS
        <5>4. x + m <= y
          BY <5>1, <5>2, <5>3, Zenon
        <5>5. x < y
          BY <2>9, <5>4
        <5> QED
          BY <5>3, <5>5, Zenon
      <4> QED
        BY <4>1
    <3>2. PICK x \in Nat : x = n * m /\ x = v * m
      <4>1. n * m \in Nat
        OBVIOUS
      <4> QED
        BY <2>10, <4>1, Zenon
    <3>3. ~(n < v)
      <4>1. n < v => x < x
        BY <3>1, <3>2, Zenon
      <4> QED
        BY <4>1
    <3>4. ~(v < n)
      <4>1. v < n => x < x
        BY <3>1, <3>2, Zenon
      <4> QED
        BY <4>1
    <3> QED
      BY <3>3, <3>4
  <2> QED
    BY <2>3, <2>11
<1>18. Encoder(a5) /\ a5.rc.cache \in RcBytes /\ a5.rc.range = a.rc.range
  <2>1. Encoder(a5)
    BY <1>8 DEF Ready
  <2>2. a5.rc.cache \in RcBytes
    BY <2>1 DEF Encoder, Encoders, RangeRec
  <2>3. a5.rc.range = a.rc.range
    BY <1>4, <1>5, <1>6, <1>7, <1>8, Zenon
  <2> QED
    BY <2>1, <2>2, <2>3
<1> QED
  BY <1>2, <1>14, <1>15, <1>16, <1>17, <1>18, Zenon
-----------------------------------------------------------------------------
(* The steps                                                               *)

\* While bits are coded: the interval is a proper one and its range is large, and
\* every sequence of bytes in it is decoded to what was coded.
Keeps(a, p, cs) ==
  /\ Proper(a) /\ Top <= a.rc.range /\ a.rc.range < W
  /\ p \in [Contexts -> Probabilities] /\ cs \in Seq(Coded)
  /\ Reads(Value(a), a.rc.range, Places(a) + 4, p, cs)

\* The part of the interval that is the bit's.
Chosen(a, p, c) ==
  IF c.bit = 0 THEN Cut(a, BoundOf(a.rc.range, p, c), a.rc.low)
  ELSE Cut(a, RangeOf(a.rc.range, p, c), a.rc.low + BoundOf(a.rc.range, p, c))

ChosenValue(a, p, c) == IF c.bit = 0 THEN Value(a) ELSE Value(a) + BoundOf(a.rc.range, p, c)

LEMMA ChosenOK ==
  ASSUME NEW a, NEW p, NEW cs, NEW c \in Coded, Keeps(a, p, cs), NEW e, e = Chosen(a, p, c)
  PROVE  /\ Proper(e) /\ e.rc.range = RangeOf(a.rc.range, p, c) /\ Value(e) = ChosenValue(a, p, c)
         /\ Places(e) = Places(a) /\ B * B <= e.rc.range /\ e.rc.range < W
<1>1. /\ Proper(a) /\ Encoder(a) /\ a.rc.low \in Nat /\ a.rc.range \in Nat /\ a.rc.range >= Top /\ a.rc.range < W
      /\ p \in [Contexts -> Probabilities]
  <2>1. Top \in Nat
    BY SizesOK
  <2> QED
    BY <2>1 DEF Keeps, Proper, Encoder, Encoders, RangeRec
<1>2. PICK l \in Nat, v \in Nat : l = a.rc.low /\ v = Value(a)
  BY <1>1, PendingOK
<1>3. PICK r \in Nat : r = a.rc.range /\ r >= Top /\ r < W
  BY <1>1
<1>4. /\ BoundOf(r, p, c) \in Nat /\ RangeOf(r, p, c) \in Nat
      /\ B * B <= RangeOf(r, p, c) /\ RangeOf(r, p, c) < W
      /\ c.bit = 0 => RangeOf(r, p, c) = BoundOf(r, p, c) /\ BoundOf(r, p, c) <= r
      /\ c.bit = 1 => BoundOf(r, p, c) + RangeOf(r, p, c) <= r
  BY <1>1, <1>3, PartsOK
<1>5. PICK b \in Nat, x \in Nat : b = BoundOf(r, p, c) /\ x = RangeOf(r, p, c)
  BY <1>4
<1>6. \A i, k \in Nat : k + i <= a.rc.range =>
        \A f : f = Cut(a, i, a.rc.low + k) =>
          /\ Proper(f) /\ f.rc.range = i /\ f.rc.low = a.rc.low + k /\ Value(f) = Value(a) + k /\ Places(f) = Places(a)
  BY <1>1, CutValue
<1>7. c.bit \in {0, 1}
  BY DEF Coded
<1>8. ASSUME c.bit = 0
      PROVE  Proper(e) /\ e.rc.range = x /\ Value(e) = v /\ Places(e) = Places(a)
  <2>1. PICK z \in Nat : z = 0
    OBVIOUS
  <2>2. x = b /\ z + x <= a.rc.range
    BY <1>3, <1>4, <1>5, <1>8, <2>1
  <2>3. e = Cut(a, x, l)
    BY <1>2, <1>3, <1>5, <1>8, <2>2, Zenon DEF Chosen
  <2>4. e = Cut(a, x, a.rc.low + z)
    <3>1. l = l + z
      BY <2>1
    <3> QED
      BY <1>2, <2>3, <3>1, Zenon
  <2>5. Proper(e) /\ e.rc.range = x /\ Value(e) = v + z /\ Places(e) = Places(a)
    <3>1. Proper(e) /\ e.rc.range = x /\ Value(e) = Value(a) + z /\ Places(e) = Places(a)
      BY <1>6, <2>2, <2>4
    <3> QED
      BY <1>2, <3>1, Zenon
  <2> QED
    BY <2>1, <2>5
<1>9. ASSUME c.bit = 1
      PROVE  Proper(e) /\ e.rc.range = x /\ Value(e) = v + b /\ Places(e) = Places(a)
  <2>1. b + x <= a.rc.range
    BY <1>3, <1>4, <1>5, <1>9, Zenon
  <2>2. ~(c.bit = 0)
    BY <1>9
  <2>3. e = Cut(a, x, a.rc.low + b)
    BY <1>3, <1>5, <2>2, Zenon DEF Chosen
  <2> QED
    <3>1. Proper(e) /\ e.rc.range = x /\ Value(e) = Value(a) + b /\ Places(e) = Places(a)
      BY <1>6, <2>1, <2>3
    <3> QED
      BY <1>2, <3>1, Zenon
<1>10. ChosenValue(a, p, c) = IF c.bit = 0 THEN v ELSE v + b
  BY <1>2, <1>3, <1>5, Zenon DEF ChosenValue
<1>11. CASE c.bit = 0
  BY <1>3, <1>4, <1>5, <1>8, <1>10, <1>11
<1>12. CASE c.bit = 1
  BY <1>3, <1>4, <1>5, <1>9, <1>10, <1>12
<1> QED
  BY <1>7, <1>11, <1>12

\* A bit is coded: the next interval keeps what the decoder reads.
LEMMA BitCoded ==
  ASSUME NEW a, NEW p, NEW cs, NEW c \in Coded, Keeps(a, p, cs), NEW s, s = Normalized(Chosen(a, p, c))
  PROVE  Keeps(s, ProbsOf(p, c), Append(cs, c))
<1>1. PICK e : e = Chosen(a, p, c)
  OBVIOUS
<1>2. /\ Proper(e) /\ e.rc.range = RangeOf(a.rc.range, p, c) /\ Value(e) = ChosenValue(a, p, c)
      /\ Places(e) = Places(a) /\ B * B <= e.rc.range /\ e.rc.range < W
  BY <1>1, ChosenOK
<1>3. s = Normalized(e)
  BY <1>1, Zenon
<1>4. /\ Proper(s) /\ Top <= s.rc.range /\ s.rc.range < W
      /\ e.rc.range >= Top => s.rc.range = e.rc.range /\ Value(s) = Value(e) /\ Places(s) = Places(e)
      /\ e.rc.range < Top => s.rc.range = e.rc.range * B /\ Value(s) = Value(e) * B /\ Places(s) = Places(e) + 1
  BY <1>2, <1>3, NormalizedOK
<1>5. /\ Proper(a) /\ Encoder(a) /\ a.rc.range \in Nat /\ a.rc.range >= Top /\ a.rc.range < W
      /\ p \in [Contexts -> Probabilities] /\ cs \in Seq(Coded) /\ Reads(Value(a), a.rc.range, Places(a) + 4, p, cs)
  <2>1. Top \in Nat
    BY SizesOK
  <2> QED
    BY <2>1 DEF Keeps, Proper, Encoder, Encoders, RangeRec
<1>6. PICK v \in Nat, r \in Nat, n \in Nat : v = Value(a) /\ r = a.rc.range /\ n = Places(a)
  BY <1>5, PendingOK
<1>7. Encoder(e) /\ Encoder(s) /\ e.rc.range \in Nat /\ s.rc.range \in Nat
  BY <1>2, <1>4 DEF Proper, Encoder, Encoders, RangeRec
<1>8. PICK v1 \in Nat, r1 \in Nat : v1 = Value(e) /\ r1 = e.rc.range
  BY <1>7, PendingOK
<1>9. PICK v2 \in Nat, r2 \in Nat, n2 \in Nat : v2 = Value(s) /\ r2 = s.rc.range /\ n2 = Places(s)
  BY <1>7, PendingOK
<1>10. PICK k \in Nat, k2 \in Nat : k = n + 4 /\ k2 = n2 + 4
  OBVIOUS
<1>11. /\ r1 >= Top => r2 = r1 /\ v2 = v1 /\ n2 = n
       /\ r1 < Top => r2 = r1 * B /\ v2 = v1 * B /\ n2 = n + 1
  BY <1>2, <1>4, <1>6, <1>8, <1>9, Zenon
<1>12. /\ r1 >= Top => r2 = r1 /\ v2 = v1 /\ k2 = k
       /\ r1 < Top => r2 = r1 * B /\ v2 = v1 * B /\ k2 = k + 1
  <2>1. n2 = n => k2 = k
    BY <1>10
  <2>2. n2 = n + 1 => k2 = k + 1
    BY <1>10
  <2> QED
    BY <1>11, <2>1, <2>2
<1>13. PICK q : q = ProbsOf(p, c)
  OBVIOUS
<1>14. Part(v, r, k, p, cs, c, v1, r1, q)
  <2>1. Reads(v, r, k, p, cs)
    BY <1>5, <1>6, <1>10, Zenon
  <2>2. r >= Top /\ r < W
    BY <1>5, <1>6, Zenon
  <2>3. r1 = RangeOf(r, p, c) /\ v1 = (IF c.bit = 0 THEN v ELSE v + BoundOf(r, p, c))
    BY <1>2, <1>6, <1>8, Zenon DEF ChosenValue
  <2> QED
    BY <1>5, <1>13, <2>1, <2>2, <2>3, Zenon DEF Part
<1>15. Reads(v2, r2, k2, q, Append(cs, c))
  <2>1. \A i, j, m \in Nat :
         (/\ Part(v, r, k, p, cs, c, v1, r1, q)
          /\ r1 >= Top => j = r1 /\ i = v1 /\ m = k
          /\ r1 < Top => j = r1 * B /\ i = v1 * B /\ m = k + 1)
         => Reads(i, j, m, q, Append(cs, c))
    BY ReadsStep
  <2> QED
    BY <1>12, <1>14, <2>1, Zenon
<1>16. Reads(Value(s), s.rc.range, Places(s) + 4, q, Append(cs, c))
  BY <1>9, <1>10, <1>15, Zenon
<1>17. q \in [Contexts -> Probabilities] /\ Append(cs, c) \in Seq(Coded)
  <2>1. q \in [Contexts -> Probabilities]
    <3>1. r >= Top /\ r < W
      BY <1>5, <1>6, Zenon
    <3> QED
      BY <1>5, <1>13, <3>1, PartsOK
  <2>2. Append(cs, c) \in Seq(Coded)
    BY <1>5
  <2> QED
    BY <2>1, <2>2
<1> QED
  BY <1>4, <1>13, <1>16, <1>17, Zenon DEF Keeps

\* After the end: nothing is left in low or in the buffer, and the decoder reads
\* the bytes to the last one, with a code of 0.
Ended(e, p, cs) ==
  /\ Encoder(e) /\ e.rc.low = 0 /\ e.rc.cache = 0 /\ e.rc.cacheSize = 0 /\ e.rc.buf = 0
  /\ Top <= e.rc.range /\ e.rc.range < W
  /\ e.sent[1] = 0 /\ Filled(ReadAll(e.sent, cs), e.sent) = Decoder(e.rc.range, 0, Len(e.sent), p, Bits(cs))

LEMMA FinishOK ==
  ASSUME NEW a, NEW p, NEW cs, Keeps(a, p, cs), NEW e, e = FlushStream(FlushData(a))
  PROVE  Ended(e, p, cs) /\ Number(e.sent) = Value(a) /\ e.rc.range = a.rc.range
<1>1. /\ Proper(a) /\ Encoder(a) /\ a.rc.range \in Nat /\ a.rc.low \in Nat /\ W \in Nat /\ Top \in Nat /\ Top > 0
      /\ a.rc.range >= Top /\ a.rc.range < W /\ Reads(Value(a), a.rc.range, Places(a) + 4, p, cs)
  <2>1. Top \in Nat /\ W \in Nat /\ Top > 0
    BY SizesOK
  <2> QED
    BY <2>1 DEF Keeps, Proper, Encoder, Encoders, RangeRec
<1>2. Ready(a)
  BY <1>1 DEF Proper, Ready
<1>3. PICK f : f = FlushData(a)
  OBVIOUS
<1>4. /\ Encoder(f) /\ f.rc.range = a.rc.range /\ f.rc.low = 0
      /\ f.rc.cache = 0 /\ f.rc.cacheSize = 0
      /\ Number(f.sent) = Value(a) /\ Len(f.sent) = Places(a) + 4
  BY <1>2, <1>3, FlushDataOK
<1>5. f \in Encoders(BufSize) /\ Written(f)
  <2>1. f \in Encoders(BufSize - 1) /\ Written(f)
    BY <1>4 DEF Encoder
  <2>2. 0 .. BufSize - 1 \subseteq 0 .. BufSize
    BY SizesOK
  <2>3. RangeRec(BufSize - 1) \subseteq RangeRec(BufSize)
    BY <2>2 DEF RangeRec
  <2>4. Encoders(BufSize - 1) \subseteq Encoders(BufSize)
    BY <2>3 DEF Encoders
  <2> QED
    BY <2>1, <2>4
<1>6. /\ Encoder(e) /\ SameNumber(f, e) /\ e.sent = f.sent /\ e.rc.buf = 0
  BY <1>3, <1>5, FlushStreamOK
<1>7. e.rc.low = 0 /\ e.rc.cache = 0 /\ e.rc.cacheSize = 0 /\ e.rc.range = a.rc.range
  BY <1>4, <1>6 DEF SameNumber
<1>8. PICK s \in Seq(RcBytes) : s = e.sent
  BY <1>6 DEF Encoder, Encoders
<1>9. PICK v \in Nat, k \in Nat, r \in Nat : v = Value(a) /\ k = Places(a) + 4 /\ r = a.rc.range
  BY <1>1, PendingOK
<1>10. Number(s) = v /\ Len(s) = k
  BY <1>4, <1>6, <1>8, <1>9, Zenon
<1>11. SubSeq(s, 1, k) = s
  BY <1>10
<1>12. s[1] = 0 /\ Filled(ReadAll(s, cs), s) = Decoder(r, v - v, k, p, Bits(cs))
  <2>1. k <= k /\ v <= v /\ v < v + r
    <3>1. r > 0
      BY <1>1, <1>9
    <3> QED
      BY <3>1
  <2>2. Reads(v, r, k, p, cs)
    BY <1>1, <1>9, Zenon
  <2>3. k <= Len(s) /\ v <= Number(SubSeq(s, 1, k)) /\ Number(SubSeq(s, 1, k)) < v + r
    BY <1>10, <1>11, <2>1, Zenon
  <2>4. s[1] = 0 /\ Filled(ReadAll(s, cs), s) = Decoder(r, Number(SubSeq(s, 1, k)) - v, k, p, Bits(cs))
    BY <2>2, <2>3, Zenon DEF Reads
  <2> QED
    BY <1>10, <1>11, <2>4, Zenon
<1>13. v - v = 0
  OBVIOUS
<1>14. Top <= e.rc.range /\ e.rc.range < W
  BY <1>1, <1>7
<1>15. Filled(ReadAll(e.sent, cs), e.sent) = Decoder(e.rc.range, 0, Len(e.sent), p, Bits(cs))
  BY <1>7, <1>8, <1>9, <1>10, <1>12, <1>13, Zenon
<1>16. Ended(e, p, cs)
  BY <1>6, <1>7, <1>8, <1>12, <1>14, <1>15, Zenon DEF Ended
<1> QED
  BY <1>4, <1>6, <1>7, <1>16, Zenon

\* What the steps keep.
CoderInv ==
  /\ rcPc \in {"code", "done"}
  /\ rcPc = "code" => Keeps(All, probs, coded)
  /\ rcPc = "done" => Ended(All, probs, coded)

LEMMA WholeRecord ==
  ASSUME NEW a, Encoder(a)
  PROVE  a = [rc |-> a.rc, sent |-> a.sent, stream |-> a.stream]
BY DEF Encoder, Encoders

\* The probabilities of a start.
LEMMA HalfOK == HalfProb \in [Contexts -> Probabilities]
<1>1. Total \div 2 \in Probabilities
  <2>1. Total \in Nat /\ Step \in Nat /\ Total >= 2 * Step /\ Step >= 2
    BY SizesOK
  <2>2. PICK h \in Nat : h = Total \div 2 /\ 2 * h <= Total /\ Total <= 2 * h + 1
    BY <2>1
  <2>3. Step - 1 <= h /\ h <= Total - (Step - 1)
    BY <2>1, <2>2
  <2> QED
    BY <2>1, <2>2, <2>3 DEF Probabilities
<1> QED
  BY <1>1 DEF HalfProb

LEMMA InitOK == RcInit => CoderInv /\ Value(All) = 0
<1> SUFFICES ASSUME RcInit PROVE CoderInv /\ Value(All) = 0
  OBVIOUS
<1>1. /\ W \in Nat /\ Top \in Nat /\ 2 * Top <= W /\ Top > 0 /\ B \in Nat /\ B >= 2 /\ BufSize \in Nat /\ BufSize > 0 /\ Rooms \subseteq Nat
  BY SizesOK
<1>2. 0 \in RcBytes /\ B - 1 \in RcBytes /\ 0 \in 0 .. BufSize - 1
  BY <1>1 DEF RcBytes
<1>3. rc \in RangeRec(BufSize - 1)
  <2>1. W - 1 \in Nat
    BY <1>1
  <2> QED
    BY <1>2, <2>1 DEF RcInit, RangeRec
<1>4. Encoder(All) /\ All.rc.low = 0 /\ All.rc.range = W - 1 /\ All.rc.cache = 0 /\ All.rc.cacheSize = 0 /\ All.sent = <<>>
  <2>1. stream \in [room : Nat, taken : Nat] /\ stream.taken = 0 /\ stream.room \in Nat
    <3>1. stream \in [room : Rooms, taken : {0}]
      BY DEF RcInit
    <3>2. /\ stream.room \in Rooms /\ stream.taken = 0
          /\ stream = [room |-> stream.room, taken |-> stream.taken]
      BY <3>1
    <3>3. stream.room \in Nat /\ stream.taken \in Nat
      BY <1>1, <3>2
    <3> QED
      BY <3>2, <3>3
  <2>2. sent = <<>> /\ sent \in Seq(RcBytes) /\ Len(sent) = 0
    BY DEF RcInit
  <2>3. All \in Encoders(BufSize - 1)
    BY <1>3, <2>1, <2>2 DEF All, Encoders
  <2>4. /\ All.rc = rc /\ All.stream = stream /\ All.sent = <<>>
        /\ rc.low = 0 /\ rc.range = W - 1 /\ rc.cache = 0 /\ rc.cacheSize = 0 /\ rc.buf = 0 /\ rc.res = "ok"
    BY <2>2 DEF All, RcInit
  <2>5. Written(All)
    BY <2>1, <2>2, <2>4 DEF Written
  <2> QED
    BY <2>3, <2>4, <2>5 DEF Encoder
<1>5. Proper(All)
  BY <1>1, <1>4 DEF Proper
<1>6. Value(All) = 0
  <2>1. PICK z \in RcBytes : z = 0
    BY <1>2
  <2>2. PICK q \in Seq(RcBytes) : q = <<>> /\ Number(q) = 0
    <3>1. <<>> \in Seq(RcBytes) /\ <<>> \in Seq(Nat) /\ 0 \in Nat
      OBVIOUS
    <3> QED
      BY <3>1, NumberSteps
  <2>3. PICK u \in Seq(RcBytes) : u = Append(q, z) /\ Number(u) = 0 * B + z
    BY <2>2, NumberAppend
  <2>4. u \o Copies(0, B - 1) = u
    BY <1>2, CopiesSteps
  <2>5. Pending(All) = u
    BY <1>4, <2>1, <2>2, <2>3, <2>4, Zenon DEF Pending
  <2>6. 0 * B + z = 0 /\ 0 * W + 0 = 0
    BY <1>1, <2>1
  <2> QED
    BY <1>4, <2>3, <2>5, <2>6, Zenon DEF Value
<1>7. Places(All) + 4 = 5
  <2>1. Places(All) = Len(<<>>) + 1 + 0
    BY <1>4, Zenon DEF Places
  <2> QED
    BY <2>1
<1>8. Reads(Value(All), All.rc.range, Places(All) + 4, probs, coded)
  <2>1. probs = HalfProb /\ coded = <<>>
    BY DEF RcInit
  <2> QED
    BY <1>4, <1>6, <1>7, <2>1, ReadsFirst, Zenon
<1>9. Keeps(All, probs, coded)
  <2>1. probs \in [Contexts -> Probabilities] /\ coded \in Seq(Coded)
    <3>1. <<>> \in Seq(Coded)
      OBVIOUS
    <3> QED
      BY <3>1, HalfOK DEF RcInit
  <2>2. Top <= All.rc.range /\ All.rc.range < W
    BY <1>1, <1>4
  <2> QED
    BY <1>5, <1>8, <2>1, <2>2, Zenon DEF Keeps
<1>10. rcPc = "code"
  BY DEF RcInit
<1> QED
  BY <1>6, <1>9, <1>10 DEF CoderInv

\* A step that codes the bit c.
Coding(c) ==
  /\ rcPc = "code" /\ rcPc' = "code" /\ All' = Normalized(Chosen(All, probs, c))
  /\ probs' = ProbsOf(probs, c) /\ coded' = Append(coded, c)

\* What Become sets.
LEMMA BecomeIs ==
  ASSUME NEW a, Encoder(a), Become(a)
  PROVE  All' = a
<1>1. a = [rc |-> a.rc, sent |-> a.sent, stream |-> a.stream]
  BY WholeRecord
<1>2. All' = [rc |-> rc', sent |-> sent', stream |-> stream']
  BY DEF All
<1> QED
  BY <1>1, <1>2, Zenon DEF Become

LEMMA CodingEncoder ==
  ASSUME NEW a, NEW p, NEW cs, NEW c \in Coded, Keeps(a, p, cs)
  PROVE  Encoder(Normalized(Chosen(a, p, c)))
<1>1. Keeps(Normalized(Chosen(a, p, c)), ProbsOf(p, c), Append(cs, c))
  BY BitCoded
<1> QED
  BY <1>1 DEF Keeps, Proper

LEMMA CodeIsCoding ==
  ASSUME CoderInv, NEW c \in Contexts, NEW bit \in {0, 1}, Code(c, bit)
  PROVE  Coding([context |-> c, bit |-> bit]) /\ [context |-> c, bit |-> bit] \in Coded
<1>1. PICK d : d = [context |-> c, bit |-> bit]
  OBVIOUS
<1>2. d \in Coded /\ d.bit = bit /\ d.context = c /\ c # "direct"
  BY <1>1, CoderAssumption DEF Coded
<1>3. rcPc = "code" /\ rcPc' = "code" /\ Keeps(All, probs, coded)
  BY DEF CoderInv, Code
<1>4. All.rc = rc
  BY DEF All
<1>5. BoundOf(rc.range, probs, d) = Bound(rc.range, probs[c])
  BY <1>2, Zenon DEF BoundOf
<1>6. RangeOf(rc.range, probs, d) = IF bit = 0 THEN Bound(rc.range, probs[c]) ELSE rc.range - Bound(rc.range, probs[c])
  BY <1>2, <1>5, Zenon DEF RangeOf
<1>7. PICK b : b = Bound(rc.range, probs[c])
  OBVIOUS
<1>8. Chosen(All, probs, d) = IF bit = 0 THEN Cut(All, b, rc.low) ELSE Cut(All, rc.range - b, rc.low + b)
  <2>1. CASE bit = 0
    BY <1>2, <1>4, <1>5, <1>7, <2>1, Zenon DEF Chosen
  <2>2. CASE bit # 0
    BY <1>2, <1>4, <1>5, <1>6, <1>7, <2>2, Zenon DEF Chosen
  <2> QED
    BY <2>1, <2>2
<1>9. Become(Normalized(IF bit = 0 THEN Cut(All, b, rc.low) ELSE Cut(All, rc.range - b, rc.low + b)))
  BY <1>7, Zenon DEF Code
<1>10. Become(Normalized(Chosen(All, probs, d)))
  BY <1>8, <1>9, Zenon
<1>11. Encoder(Normalized(Chosen(All, probs, d)))
  BY <1>2, <1>3, CodingEncoder
<1>12. All' = Normalized(Chosen(All, probs, d))
  BY <1>10, <1>11, BecomeIs
<1>13. probs' = ProbsOf(probs, d) /\ coded' = Append(coded, d)
  BY <1>1, <1>2, Zenon DEF ProbsOf, Code
<1> QED
  BY <1>1, <1>2, <1>3, <1>12, <1>13, Zenon DEF Coding

LEMMA DirectIsCoding ==
  ASSUME CoderInv, NEW bit \in {0, 1}, Direct(bit)
  PROVE  Coding([context |-> "direct", bit |-> bit]) /\ [context |-> "direct", bit |-> bit] \in Coded
<1>1. PICK d : d = [context |-> "direct", bit |-> bit]
  OBVIOUS
<1>2. d \in Coded /\ d.bit = bit /\ d.context = "direct"
  BY <1>1 DEF Coded
<1>3. rcPc = "code" /\ rcPc' = "code" /\ Keeps(All, probs, coded)
  BY DEF CoderInv, Direct
<1>4. All.rc = rc
  BY DEF All
<1>5. PICK h \in Nat, l \in Nat : h = rc.range \div 2 /\ l = rc.low
  <2>1. rc.range \in Nat /\ rc.low \in Nat
    BY <1>3, <1>4 DEF Keeps, Proper, Encoder, Encoders, RangeRec
  <2> QED
    BY <2>1
<1>6. BoundOf(rc.range, probs, d) = h /\ RangeOf(rc.range, probs, d) = h
  BY <1>2, <1>5, Zenon DEF BoundOf, RangeOf
<1>7. Chosen(All, probs, d) = Cut(All, h, l + h * bit)
  <2>1. CASE bit = 0
    <3>1. l + h * bit = l
      BY <2>1
    <3> QED
      BY <1>2, <1>4, <1>5, <1>6, <2>1, <3>1, Zenon DEF Chosen
  <2>2. CASE bit = 1
    <3>1. l + h * bit = l + h /\ ~(bit = 0)
      BY <2>2
    <3> QED
      BY <1>2, <1>4, <1>5, <1>6, <3>1, Zenon DEF Chosen
  <2> QED
    BY <2>1, <2>2
<1>8. Become(Normalized(Cut(All, h, l + h * bit)))
  BY <1>5, Zenon DEF Direct
<1>9. Become(Normalized(Chosen(All, probs, d)))
  BY <1>7, <1>8, Zenon
<1>10. Encoder(Normalized(Chosen(All, probs, d)))
  BY <1>2, <1>3, CodingEncoder
<1>11. All' = Normalized(Chosen(All, probs, d))
  BY <1>9, <1>10, BecomeIs
<1>12. probs' = ProbsOf(probs, d) /\ coded' = Append(coded, d)
  BY <1>1, <1>2, Zenon DEF ProbsOf, Direct
<1> QED
  BY <1>1, <1>2, <1>3, <1>11, <1>12, Zenon DEF Coding

LEMMA CodingKeeps ==
  ASSUME CoderInv, NEW c \in Coded, Coding(c)
  PROVE  CoderInv'
<1>1. Keeps(All, probs, coded) /\ rcPc' = "code"
  BY DEF CoderInv, Coding
<1>2. PICK s : s = Normalized(Chosen(All, probs, c))
  OBVIOUS
<1>3. Keeps(s, ProbsOf(probs, c), Append(coded, c))
  BY <1>1, <1>2, BitCoded
<1>4. All' = s /\ probs' = ProbsOf(probs, c) /\ coded' = Append(coded, c)
  BY <1>2, Zenon DEF Coding
<1>5. Keeps(All', probs', coded')
  BY <1>3, <1>4, Zenon
<1> QED
  BY <1>1, <1>5 DEF CoderInv

LEMMA FinishKeeps ==
  ASSUME CoderInv, Finish
  PROVE  /\ CoderInv' /\ rcPc = "code" /\ rcPc' = "done" /\ Keeps(All, probs, coded) /\ probs' = probs
         /\ Ended(All', probs', coded') /\ Number(All'.sent) = Value(All) /\ All'.rc.range = All.rc.range
<1>1. Keeps(All, probs, coded) /\ rcPc = "code" /\ rcPc' = "done" /\ probs' = probs /\ coded' = coded
  BY DEF CoderInv, Finish
<1>2. PICK e : e = FlushStream(FlushData(All))
  OBVIOUS
<1>3. Ended(e, probs, coded) /\ Number(e.sent) = Value(All) /\ e.rc.range = All.rc.range
  BY <1>1, <1>2, FinishOK
<1>4. Become(e)
  BY <1>2, Zenon DEF Finish
<1>5. Encoder(e)
  BY <1>3 DEF Ended
<1>6. All' = e
  BY <1>4, <1>5, BecomeIs
<1>7. Ended(All', probs', coded') /\ Number(All'.sent) = Value(All) /\ All'.rc.range = All.rc.range
  BY <1>1, <1>3, <1>6, Zenon
<1>8. CoderInv'
  BY <1>1, <1>7 DEF CoderInv
<1> QED
  BY <1>1, <1>7, <1>8

LEMMA CoderKept == CoderInv /\ [RcNext]_rcVars => CoderInv'
<1> SUFFICES ASSUME CoderInv, [RcNext]_rcVars PROVE CoderInv'
  OBVIOUS
<1>1. ASSUME NEW bit \in {0, 1}, Direct(bit) PROVE CoderInv'
  BY <1>1, DirectIsCoding, CodingKeeps
<1>2. ASSUME NEW bit \in {0, 1}, NEW c \in Contexts, Code(c, bit) PROVE CoderInv'
  BY <1>2, CodeIsCoding, CodingKeeps
<1>3. CASE Finish
  BY <1>3, FinishKeeps
<1>4. CASE UNCHANGED rcVars
  BY <1>4 DEF CoderInv, All, rcVars
<1>5. CASE RcDone
  BY <1>4, <1>5 DEF RcDone
<1> QED
  BY <1>1, <1>2, <1>3, <1>4, <1>5 DEF RcNext

THEOREM CodingStays == RcSpec => []CoderInv
BY InitOK, CoderKept, PTL DEF RcSpec
-----------------------------------------------------------------------------
(* The properties                                                          *)

LEMMA InvDecodes == CoderInv => BitsDecode
<1> SUFFICES ASSUME CoderInv PROVE BitsDecode
  OBVIOUS
<1>1. Encoder(All) /\ Top <= rc.range /\ rc.range < W /\ rc.low \in 0 .. 2 * W
  <2>1. All.rc = rc /\ W \in Nat
    BY SizesOK DEF All
  <2>2. CASE rcPc = "code"
    <3>1. Proper(All) /\ Top <= rc.range /\ rc.range < W
      BY <2>1, <2>2 DEF CoderInv, Keeps
    <3>2. rc.low \in Nat /\ rc.range \in Nat /\ rc.low + rc.range < 2 * W
      BY <2>1, <3>1 DEF Proper, Encoder, Encoders, RangeRec
    <3> QED
      BY <2>1, <3>1, <3>2 DEF Proper
  <2>3. CASE rcPc = "done"
    <3>1. Encoder(All) /\ Top <= rc.range /\ rc.range < W /\ rc.low = 0
      BY <2>1, <2>3 DEF CoderInv, Ended
    <3> QED
      BY <2>1, <3>1
  <2> QED
    BY <2>2, <2>3 DEF CoderInv
<1>2. CoderTypeOK
  <2>1. rc \in RangeRec(BufSize - 1) /\ sent \in Seq(RcBytes)
    BY <1>1 DEF Encoder, Encoders, All
  <2> QED
    BY <1>1, <2>1 DEF CoderInv, CoderTypeOK, RangeRec
<1>3. RangeIsLarge
  BY <1>1 DEF RangeIsLarge
<1>4. DecodesBack
  <2>1. SUFFICES ASSUME rcPc = "done"
                 PROVE  /\ sent[1] = 0
                        /\ DecoderEnd.bits = Bits(coded) /\ DecoderEnd.probs = probs
                        /\ DecoderEnd.pos = Len(sent) /\ DecoderEnd.code = 0
    BY DEF DecodesBack, Bits
  <2>2. All.sent = sent
    BY DEF All
  <2>3. sent[1] = 0 /\ DecoderEnd = Decoder(All.rc.range, 0, Len(sent), probs, Bits(coded))
    BY <2>1, <2>2, Zenon DEF CoderInv, Ended, DecoderEnd
  <2> QED
    BY <2>3 DEF Decoder
<1>5. WrittenOrError
  <2>1. SUFFICES ASSUME rcPc = "done"
                 PROVE  /\ rc.res = "ok" <=> stream.taken = Len(sent)
                        /\ stream.taken < Len(sent) => stream.taken = stream.room
    BY Zenon DEF WrittenOrError
  <2>2. Written(All) /\ All.rc = rc /\ All.sent = sent /\ All.stream = stream /\ rc.buf = 0
    BY <2>1 DEF CoderInv, Ended, Encoder, All
  <2>3. stream.taken \in Nat /\ stream.room \in Nat /\ rc.res \in {"ok", "write"}
    BY <1>1 DEF Encoder, Encoders, RangeRec, All
  <2> QED
    BY <2>2, <2>3 DEF Written
<1> QED
  BY <1>2, <1>3, <1>4, <1>5 DEF BitsDecode

\* What was coded is decoded: for every base of digits, precision and speed of the
\* probabilities that leave a range large, and for every size of buffer.
THEOREM Decodes == RcSpec => []BitsDecode
BY CodingStays, InvDecodes, PTL

\* The number is the one that the refinement gives to low.
LEMMA ExactLow ==
  /\ Digits * W + rc.low = Value(All) /\ Digits' * W + rc'.low = Value(All')
  /\ All.rc = rc /\ All'.rc = rc'
<1>1. \A n : Waiting(n) = Copies(n, B - 1)
  BY DEF Waiting, Copies
<1>2. All.rc = rc /\ All.sent = sent /\ All'.rc = rc' /\ All'.sent = sent'
  BY DEF All
<1>3. Digits = Number(Pending(All)) /\ Digits' = Number(Pending(All'))
  BY <1>1, <1>2, Zenon DEF Digits, Pending
<1> QED
  BY <1>2, <1>3, Zenon DEF Value

\* What the interval becomes.
Larger(v, r) == IF r < Top THEN <<v * B, r * B>> ELSE <<v, r>>

LEMMA CodingMoves ==
  ASSUME CoderInv, NEW c \in Coded, Coding(c)
  PROVE  <<Value(All'), rc'.range>> = Larger(ChosenValue(All, probs, c), RangeOf(rc.range, probs, c))
<1>1. Keeps(All, probs, coded)
  BY DEF CoderInv, Coding
<1>2. PICK e : e = Chosen(All, probs, c)
  OBVIOUS
<1>3. PICK s : s = Normalized(e)
  OBVIOUS
<1>4. /\ Proper(e) /\ e.rc.range = RangeOf(All.rc.range, probs, c) /\ Value(e) = ChosenValue(All, probs, c)
      /\ B * B <= e.rc.range /\ e.rc.range < W
  BY <1>1, <1>2, ChosenOK
<1>5. /\ e.rc.range >= Top => s.rc.range = e.rc.range /\ Value(s) = Value(e)
      /\ e.rc.range < Top => s.rc.range = e.rc.range * B /\ Value(s) = Value(e) * B
  BY <1>3, <1>4, NormalizedOK
<1>6. e.rc.range \in Nat /\ Top \in Nat
  BY <1>4, SizesOK DEF Proper, Encoder, Encoders, RangeRec
<1>7. All' = s /\ All.rc = rc /\ All'.rc = rc'
  BY <1>2, <1>3, ExactLow, Zenon DEF Coding
<1>8. <<Value(s), s.rc.range>> = Larger(Value(e), e.rc.range)
  <2>1. CASE e.rc.range < Top
    BY <1>5, <2>1, Zenon DEF Larger
  <2>2. CASE ~(e.rc.range < Top)
    <3>1. e.rc.range >= Top
      BY <1>6, <2>2
    <3> QED
      BY <1>5, <2>2, <3>1, Zenon DEF Larger
  <2> QED
    BY <2>1, <2>2
<1> QED
  BY <1>4, <1>7, <1>8, Zenon

LEMMA ExactNormal ==
  ASSUME NEW v, NEW r
  PROVE  Exact!Normal(<<v, r>>) = Larger(v, r)
<1>1. Exact!Top = Top
  BY Zenon DEF Exact!Top, Top
<1> QED
  BY <1>1 DEF Exact!Normal, Larger

LEMMA ExactCode ==
  ASSUME CoderInv, NEW c \in Contexts, NEW bit \in {0, 1}, Code(c, bit)
  PROVE  Exact!Code(c, bit)
<1>1. PICK d : d = [context |-> c, bit |-> bit]
  OBVIOUS
<1>2. Coding(d) /\ d \in Coded /\ d.bit = bit /\ d.context = c /\ c # "direct"
  BY <1>1, CodeIsCoding, CoderAssumption
<1>3. <<Value(All'), rc'.range>> = Larger(ChosenValue(All, probs, d), RangeOf(rc.range, probs, d))
  BY <1>2, CodingMoves
<1>4. All.rc = rc
  BY ExactLow
<1>5. PICK b : b = Bound(rc.range, probs[c])
  OBVIOUS
<1>6. BoundOf(rc.range, probs, d) = b /\ RangeOf(rc.range, probs, d) = IF bit = 0 THEN b ELSE rc.range - b
  BY <1>2, <1>5, Zenon DEF BoundOf, RangeOf
<1>7. ChosenValue(All, probs, d) = IF bit = 0 THEN Value(All) ELSE Value(All) + b
  BY <1>2, <1>4, <1>6, Zenon DEF ChosenValue
<1>8. Exact!Bound(rc.range, probs[c]) = b
  BY <1>5, Zenon DEF Exact!Bound, Bound
<1>9. PICK v, x : v = ChosenValue(All, probs, d) /\ x = RangeOf(rc.range, probs, d)
  OBVIOUS
<1>10. Exact!Cut(Value(All), rc.range, b, bit) = <<v, x>>
  <2>1. CASE bit = 0
    BY <1>6, <1>7, <1>9, <2>1, Zenon DEF Exact!Cut
  <2>2. CASE ~(bit = 0)
    BY <1>6, <1>7, <1>9, <2>2, Zenon DEF Exact!Cut
  <2> QED
    BY <2>1, <2>2
<1>11. <<Value(All'), rc'.range>> = Exact!Normal(Exact!Cut(Value(All), rc.range, Exact!Bound(rc.range, probs[c]), bit))
  BY <1>3, <1>8, <1>9, <1>10, ExactNormal, Zenon
<1>12. PICK n : n = Exact!Normal(Exact!Cut(Digits * W + rc.low, rc.range, Exact!Bound(rc.range, probs[c]), bit))
  OBVIOUS
<1>13. n = <<Digits' * W + rc'.low, rc'.range>>
  BY <1>11, <1>12, ExactLow, Zenon
<1>14. Digits' * W + rc'.low = n[1] /\ rc'.range = n[2]
  BY <1>13
<1>15. ~(rcPc = "done") /\ ~(rcPc' = "done") /\ (rcPc' = "done") = (rcPc = "done")
  BY <1>2 DEF Coding
<1>16. probs' = [probs EXCEPT ![c] = Exact!Adapted(@, bit)]
  <2>1. probs' = [probs EXCEPT ![c] = Adapted(@, bit)]
    BY DEF Code
  <2> QED
    BY <2>1, Zenon DEF Adapted, Exact!Adapted
<1> QED
  BY <1>12, <1>14, <1>15, <1>16, Zenon DEF Exact!Code

LEMMA ExactDirect ==
  ASSUME CoderInv, NEW bit \in {0, 1}, Direct(bit)
  PROVE  Exact!Direct(bit)
<1>1. PICK d : d = [context |-> "direct", bit |-> bit]
  OBVIOUS
<1>2. Coding(d) /\ d \in Coded /\ d.bit = bit /\ d.context = "direct"
  BY <1>1, DirectIsCoding
<1>3. <<Value(All'), rc'.range>> = Larger(ChosenValue(All, probs, d), RangeOf(rc.range, probs, d))
  BY <1>2, CodingMoves
<1>4. All.rc = rc
  BY ExactLow
<1>5. PICK h : h = rc.range \div 2
  OBVIOUS
<1>6. BoundOf(rc.range, probs, d) = h /\ RangeOf(rc.range, probs, d) = h
  BY <1>2, <1>5, Zenon DEF BoundOf, RangeOf
<1>7. ChosenValue(All, probs, d) = IF bit = 0 THEN Value(All) ELSE Value(All) + h
  BY <1>2, <1>4, <1>6, Zenon DEF ChosenValue
<1>8. <<Value(All'), rc'.range>> = Exact!Normal(IF bit = 0 THEN <<Value(All), h>> ELSE <<Value(All) + h, h>>)
  <2>1. CASE bit = 0
    BY <1>3, <1>6, <1>7, <2>1, ExactNormal, Zenon
  <2>2. CASE ~(bit = 0)
    BY <1>3, <1>6, <1>7, <2>2, ExactNormal, Zenon
  <2> QED
    BY <2>1, <2>2
<1>9. PICK n : n = Exact!Normal(IF bit = 0 THEN <<Digits * W + rc.low, h>> ELSE <<(Digits * W + rc.low) + h, h>>)
  OBVIOUS
<1>10. n = <<Digits' * W + rc'.low, rc'.range>>
  BY <1>8, <1>9, ExactLow, Zenon
<1>11. Digits' * W + rc'.low = n[1] /\ rc'.range = n[2]
  BY <1>10
<1>12. ~(rcPc = "done") /\ ~(rcPc' = "done") /\ (rcPc' = "done") = (rcPc = "done")
  BY <1>2 DEF Coding
<1>13. probs' = probs
  BY DEF Direct
<1> QED
  BY <1>5, <1>9, <1>11, <1>12, <1>13, Zenon DEF Exact!Direct

LEMMA ExactFinish ==
  ASSUME CoderInv, Finish
  PROVE  Exact!Finish
<1>1. /\ rcPc = "code" /\ rcPc' = "done" /\ Keeps(All, probs, coded) /\ probs' = probs
      /\ Ended(All', probs', coded') /\ Number(All'.sent) = Value(All) /\ All'.rc.range = All.rc.range
  BY FinishKeeps
<1>2. /\ B \in Nat /\ B >= 2 /\ Top \in Nat /\ W \in Nat /\ W = Top * B /\ Top = B * B * B
  BY SizesOK DEF Top
<1>3. PICK v \in Nat : v = Value(All)
  <2>1. Encoder(All)
    BY <1>1 DEF Keeps, Proper
  <2> QED
    BY <2>1, PendingOK
<1>4. PICK e : e = All'
  OBVIOUS
<1>5. e.sent \in Seq(RcBytes) /\ e.rc.cache = 0 /\ e.rc.cacheSize = 0 /\ e.rc.low = 0 /\ Number(e.sent) = v
  BY <1>1, <1>3, <1>4 DEF Ended, Encoder, Encoders
<1>6. PICK q \in Seq(RcBytes) : q = e.sent
  BY <1>5
<1>7. Value(e) = (v * B) * W
  <2>0. 0 \in RcBytes /\ B - 1 \in RcBytes
    BY <1>2 DEF RcBytes
  <2>1. PICK z \in RcBytes : z = 0
    BY <2>0
  <2>2. PICK u \in Seq(RcBytes) : u = Append(q, z) /\ Number(u) = Number(q) * B + z
    BY NumberAppend
  <2>3. u \o Copies(0, B - 1) = u
    BY <2>0, CopiesSteps
  <2>4. Pending(e) = u
    BY <1>5, <1>6, <2>1, <2>2, <2>3, Zenon DEF Pending
  <2>5. Value(e) = (v * B + z) * W + 0
    BY <1>5, <1>6, <2>2, <2>4, Zenon DEF Value
  <2>6. PICK x \in Nat : x = v * B
    <3>1. \A i, j \in Nat : i * j \in Nat
      OBVIOUS
    <3> QED
      BY <1>2, <3>1
  <2>7. x + z = x /\ x * W + 0 = x * W
    <3>1. x * W \in Nat
      BY <1>2
    <3> QED
      BY <2>1, <3>1
  <2> QED
    BY <2>5, <2>6, <2>7, Zenon
<1>8. (v * B) * W = v * (B * B * B * B * B)
  <2>1. (v * B) * ((B * B * B) * B) = v * (B * B * B * B * B)
    BY <1>2
  <2> QED
    BY <1>2, <2>1, Zenon
<1>9. Digits' * W + rc'.low = (Digits * W + rc.low) * (B * B * B * B * B)
  BY <1>3, <1>4, <1>7, <1>8, ExactLow, Zenon
<1>10. rc'.range = rc.range
  BY <1>1, ExactLow, Zenon
<1>11. ~(rcPc = "done") /\ (rcPc' = "done") = TRUE
  BY <1>1
<1> QED
  BY <1>1, <1>9, <1>10, <1>11, Zenon DEF Exact!Finish

LEMMA ExactInit == RcInit => Exact!Init
<1> SUFFICES ASSUME RcInit PROVE Exact!Init
  OBVIOUS
<1>1. Digits * W + rc.low = 0
  BY InitOK, ExactLow, Zenon
<1>2. rc.range = W - 1 /\ probs = [c \in Contexts |-> Total \div 2] /\ ~(rcPc = "done")
  BY DEF RcInit, HalfProb
<1>3. Exact!W = W
  BY Zenon DEF Exact!W, Exact!Top, W, Top
<1>4. (rcPc = "done") = FALSE
  BY <1>2
<1> QED
  BY <1>1, <1>2, <1>3, <1>4, Zenon DEF Exact!Init

LEMMA ExactNext == CoderInv /\ [RcNext]_rcVars => [Exact!Next]_Exact!vars
<1> SUFFICES ASSUME CoderInv, [RcNext]_rcVars PROVE Exact!Next \/ UNCHANGED Exact!vars
  OBVIOUS
<1>1. ASSUME NEW bit \in {0, 1}, Direct(bit) PROVE Exact!Next
  <2>1. Exact!Direct(bit)
    BY <1>1, ExactDirect
  <2> QED
    BY <2>1, Zenon DEF Exact!Next
<1>2. ASSUME NEW bit \in {0, 1}, NEW c \in Contexts, Code(c, bit) PROVE Exact!Next
  <2>1. Exact!Code(c, bit)
    BY <1>2, ExactCode
  <2> QED
    BY <2>1, Zenon DEF Exact!Next
<1>3. CASE Finish
  <2>1. Exact!Finish
    BY <1>3, ExactFinish
  <2> QED
    BY <2>1, Zenon DEF Exact!Next
<1>4. ASSUME UNCHANGED rcVars PROVE UNCHANGED Exact!vars
  <2>1. rc' = rc /\ sent' = sent /\ probs' = probs /\ rcPc' = rcPc
    BY <1>4 DEF rcVars
  <2>2. Digits' * W + rc'.low = Digits * W + rc.low
    BY <2>1, Zenon DEF Digits
  <2> QED
    BY <2>1, <2>2, Zenon DEF Exact!vars
<1>5. CASE RcDone
  BY <1>4, <1>5 DEF RcDone
<1> QED
  BY <1>1, <1>2, <1>3, <1>4, <1>5 DEF RcNext

\* No carry is lost: with the bytes that were sent and those that wait, the encoder
\* is the arithmetic coder whose low may grow without limit.
THEOREM CarriesExact == RcSpec => CarriesAreExact
<1>1. RcSpec => []CoderInv
  BY CodingStays
<1> QED
  BY <1>1, ExactInit, ExactNext, PTL DEF RcSpec, CarriesAreExact, Exact!Spec
=============================================================================
