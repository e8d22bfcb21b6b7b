------------------------------ MODULE MatchOps ------------------------------
(***************************************************************************)
(* The searches of the match finders (LzFind.c, LzFindOpt.c, LzFindMt.c):   *)
(* hashes, the tables of the last position with a hash, the binary tree and *)
(* the chain of positions with the same hash, and their normalisation.      *)
(*                                                                         *)
(* A byte is a number below Base; what is exclusive-or in the code is        *)
(* addition modulo Base, which has the same property: with the other         *)
(* operand fixed it is one-to-one.  The tables of crc are left out of it;    *)
(* collisions come from the small number of hash values.  A position is a    *)
(* number modulo PosRange, which stands for 2^32.                           *)
(***************************************************************************)
EXTENDS Integers, Sequences, FiniteSets, SequencesExt

CONSTANTS
  Base,         \* byte values
  PosRange,     \* values of a UInt32 position
  HistorySize   \* historySize, the dictionary

ASSUME MatchOpsAssumption ==
  /\ Base \in Nat \ {0, 1} /\ HistorySize \in Nat \ {0}
  /\ PosRange \in Nat /\ PosRange > HistorySize + 2

CyclicSize == HistorySize + 1     \* cyclicBufferSize
NoPos      == 0                   \* kEmptyHashValue
Wrap(x)    == x % PosRange
Lesser(a, b) == IF a < b THEN a ELSE b
-----------------------------------------------------------------------------
Byte(src, i) == src[i + 1]        \* the byte at offset i
Mix(a, b)    == (a + b) % Base    \* a ^ b, of a crc or a byte

(* HASH2_CALC .. HASH5_CALC, HASH_ZIP_CALC.  h2 and h3 are the hashes of the  *)
(* first two and three bytes, hv of all; with equal first bytes an equal h2   *)
(* (h3) means two (three) equal bytes, which the code relies on.              *)
H2(src, i) == Mix(Byte(src, i), Byte(src, i + 1))
H3(src, i) == <<H2(src, i), Byte(src, i + 2)>>
HV(src, i, n, zip) ==
  CASE zip   -> <<Mix(Byte(src, i + 1), Byte(src, i + 2)), Byte(src, i)>>
    [] n = 2 -> <<Byte(src, i), Byte(src, i + 1)>>
    [] n = 3 -> H3(src, i)
    [] n = 4 -> <<H2(src, i), Mix(Byte(src, i + 2), Byte(src, i + 3))>>
    [] n = 5 -> <<H2(src, i), Mix(Mix(Byte(src, i + 2), Byte(src, i + 3)), Byte(src, i + 4))>>

ByteValues     == 0..(Base - 1)
HashTable == [(ByteValues \X ByteValues) -> 0..(PosRange - 1)]
EmptyH2   == [h \in ByteValues |-> NoPos]
EmptyHash == [h \in ByteValues \X ByteValues |-> NoPos]

\* Offset of the first byte at or after `from` that differs from the one
\* `delta` before it, or lenLimit (UPDATE_maxLen and the loops like it).
Common(src, cur, delta, from, lenLimit) ==
  CHOOSE k \in from..lenLimit :
    /\ k = lenLimit \/ Byte(src, cur + k) # Byte(src, cur - delta + k)
    /\ \A j \in from..(k - 1) : Byte(src, cur + j) = Byte(src, cur - delta + j)

\* MatchFinder_Normalize3: a reference that is too old becomes "none".
Normal(ref, sub) == (IF ref < sub THEN sub ELSE ref) - sub
-----------------------------------------------------------------------------
(* The nearest matches of two and three bytes from the tables of h2 and h3, of   *)
(* which only the longest is extended (the heads of Bt3_, Bt4_, Bt5_, Hc4_ and    *)
(* Hc5_MatchFinder_GetMatches, and MixMatches2 to 4, which do not look further     *)
(* than n - 1 bytes).  d2 and d3 are distances; `reach` is the first too far.      *)
Quick(src, cur, reach, n, d2, d3, lenLimit) ==
  LET near(d) == d < reach /\ Byte(src, cur - d) = Byte(src, cur)
      whole2  == near(d2) /\ (n = 3 \/ Byte(src, cur - d2 + 2) = Byte(src, cur + 2))
      use3    == ~whole2 /\ n > 3 /\ near(d3)
      longer  == IF whole2 THEN d2 ELSE d3
  IN (IF near(d2) /\ ~whole2 THEN << <<2, d2 - 1>> >> ELSE <<>>)
     \o (IF whole2 \/ use3
         THEN << <<Common(src, cur, longer, Lesser(n - 1, 3), lenLimit), longer - 1>> >>
         ELSE <<>>)

LastLen(list) == IF list = <<>> THEN 0 ELSE list[Len(list)][1]

\* The slot of the position `delta` before the one in slot cyc.
Slot(cyc, delta) == (cyc - delta) + (IF cyc < delta THEN CyclicSize ELSE 0)
-----------------------------------------------------------------------------
(* GetMatchesSpec1, SkipMatchesSpec, GetMatchesSpecN_2: the search in the       *)
(* binary tree makes the current position its root.  A node has two sons (0:    *)
(* positions with smaller bytes, 1: greater); ptr[b] is the place that waits     *)
(* for the next node on side b, len[b] the bytes all nodes there have in common  *)
(* with the current position.                                                  *)
SetSon(son, at, m) == [son EXCEPT ![at[1]][at[2]] = m]

InReach(m, pos) == (IF pos < CyclicSize THEN 0 ELSE pos - CyclicSize) < m

TreeStep(src, cur, pos, cyc, lenLimit, s) ==
  LET delta == Wrap(pos - s.m)
      node  == Slot(cyc, delta)
      pair  == s.son[node]
      len   == Common(src, cur, delta, Lesser(s.len[0], s.len[1]), lenLimit)
      list  == IF s.max < len THEN Append(s.list, <<len, delta - 1>>) ELSE s.list
      b     == IF Byte(src, cur - delta + len) < Byte(src, cur + len) THEN 1 ELSE 0
  IN IF len = lenLimit
     THEN [s EXCEPT !.list = list, !.done = TRUE,
             !.son = SetSon(SetSon(s.son, s.ptr[1], pair[0]), s.ptr[0], pair[1])]
     ELSE [s EXCEPT !.list = list, !.max = IF @ < len THEN len ELSE @,
             !.son = SetSon(s.son, s.ptr[b], s.m), !.m = pair[b],
             !.ptr[b] = <<node, b>>, !.len[b] = len]

TreeSearch(src, cur, pos, cyc, lenLimit, son, m, cut, max) ==
  LET start == [son |-> son, m |-> m, ptr |-> (0 :> <<cyc, 1>> @@ 1 :> <<cyc, 0>>), len |-> (0 :> 0 @@ 1 :> 0),
                max |-> max, list |-> <<>>, done |-> FALSE]
      step(s, i) == IF s.done \/ ~InReach(s.m, pos) THEN s ELSE TreeStep(src, cur, pos, cyc, lenLimit, s)
      Result(end) ==
        [son  |-> IF end.done THEN end.son ELSE SetSon(SetSon(end.son, end.ptr[0], NoPos), end.ptr[1], NoPos),
         list |-> end.list]
  IN Result(FoldLeft(step, start, [i \in 1..cut |-> i]))

EmptySons == [i \in 0..HistorySize |-> (0 :> NoPos @@ 1 :> NoPos)]
-----------------------------------------------------------------------------
(* Hc_GetMatchesSpec: the positions with the same hash are a chain.            *)
ChainStep(src, cur, pos, cyc, lenLimit, s) ==
  LET delta == Wrap(pos - s.m)
      len   == Common(src, cur, delta, 0, lenLimit)
      more  == Byte(src, cur + s.max) = Byte(src, cur - delta + s.max) /\ s.max < len
  IN IF s.m = NoPos \/ delta >= CyclicSize THEN [s EXCEPT !.done = TRUE]
     ELSE [s EXCEPT !.m = s.son[Slot(cyc, delta)], !.done = more /\ len = lenLimit,
             !.list = IF more THEN Append(@, <<len, delta - 1>>) ELSE @, !.max = IF more THEN len ELSE @]

ChainSearch(src, cur, pos, cyc, lenLimit, son, m, cut, max) ==
  LET linked == [son EXCEPT ![cyc] = m]
      step(s, i) == IF s.done THEN s ELSE ChainStep(src, cur, pos, cyc, lenLimit, s)
      end == FoldLeft(step, [son |-> linked, m |-> m, max |-> max, list |-> <<>>, done |-> FALSE], [i \in 1..cut |-> i])
  IN [son |-> linked, list |-> end.list]

EmptyChain == [i \in 0..HistorySize |-> NoPos]
-----------------------------------------------------------------------------
(* What the searches are for.                                                *)
Reach(cur) == Lesser(cur, HistorySize)

MatchLen(src, cur, d, lenLimit) == Common(src, cur, d, 0, lenLimit)

\* The lengths at each distance that are longer than at all smaller distances.
Records(src, cur, lenLimit, least) ==
  {<<MatchLen(src, cur, d, lenLimit), d - 1>> :
     d \in {e \in 1..Reach(cur) :
              /\ MatchLen(src, cur, e, lenLimit) >= least
              /\ \A f \in 1..(e - 1) : MatchLen(src, cur, f, lenLimit) < MatchLen(src, cur, e, lenLimit)}}
=============================================================================
