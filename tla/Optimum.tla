------------------------------- MODULE Optimum -------------------------------
(***************************************************************************)
(* How LzmaEnc.c chooses its symbols: GetOptimum compares the prices of     *)
(* ways to code the next bytes, keeps the best way to each position in opt   *)
(* and walks back; GetOptimumFast looks one position ahead; the symbols are   *)
(* then coded one at a time by LzmaEnc_CodeOneBlock.                         *)
(*                                                                         *)
(* Prices follow the adaptive probabilities, so here they are any: one of     *)
(* `Seeds` makes a price of what a price may depend on (the kind of bit, the   *)
(* state, the position, length, distance and bytes).                          *)
(***************************************************************************)
EXTENDS MatchOps, LzmaStates

CONSTANTS
  ParseInputs,   \* what is to be coded, sequences of bytes
  Seeds,
  FastBytes,     \* values of numFastBytes
  MatchLenMax,   \* LZMA_MATCH_LEN_MAX
  NumOpts,       \* kNumOpts, and how far from it the parser stops (64 there)
  OptsEdge,
  FarBits        \* distances: what is 7 (ChangePair), 0x80, 1 << 9 and 1 << 15 in GetOptimumFast

ASSUME OptimumAssumption ==
  /\ MatchLenMax < NumOpts - 1 /\ OptsEdge \in 1..NumOpts
  /\ \A f \in FastBytes : f \in 3..MatchLenMax

VARIABLES
  job,      \* what was chosen: input, fast, seed, fastBytes, least (the shortest match found)
  parser,   \* nowPos, state, reps, additionalOffset, numAvail, longestMatchLen, matches, optCur, optEnd
  opt,      \* p->opt
  loop,     \* of GetOptimum: cur, last, reps; pc is where the coder is
  symbol    \* the last symbol, and the price of the way it is part of: claimed and paid

parserVars == <<job, parser, opt, loop, symbol>>

MarkLit      == -1                    \* MARK_LIT
Infinity == 2^20                  \* kInfinityPrice
NoClaim  == -1
ByteOf(i)     == Byte(job.input, i)
MfPos(p) == p.nowPos + p.additionalOffset     \* of the match finder
-----------------------------------------------------------------------------
(* Prices, by kind and the two or three things they depend on.               *)
Price(kind, a, b) == 1 + ((job.seed * (1 + kind + 5 * a + 11 * b) + kind) % 13)

PosStateAt(pos)      == pos % 2
IsMatchBit(bit, s, pos) == Price(bit, s, PosStateAt(pos))
IsRepBit(bit, s)     == Price(2 + bit, s, 0)
ShortRepBits(s, pos) == Price(4, s, PosStateAt(pos))                \* GetPrice_ShortRep
PureRepBits(i, s, pos) == Price(5 + i, s, IF i = 0 THEN PosStateAt(pos) ELSE 0)
LenBits(pos, len)    == Price(10, PosStateAt(pos), len)
RepLenBits(pos, len) == Price(11, PosStateAt(pos), len)
DistBits(d, len)     == Price(12, d, LenToPos(len))
\* LitEnc_GetPrice, LitEnc_Matched_GetPrice; `delta` is reps[0].
LiteralBits(s, pos, delta) ==
  IF s \in LitStates THEN Price(13 + ByteOf(pos), ByteOf(pos - 1), pos % 2)
  ELSE Price(17 + ByteOf(pos), ByteOf(pos - 1), 2 * ByteOf(pos - delta) + (pos % 2))
\* GetPrice_Rep_0
Rep0Bits(s, pos) == IsMatchBit(1, s, pos) + IsRepBit(1, s) + PureRepBits(0, s, pos)
-----------------------------------------------------------------------------
\* Length of the match of at most `limit` bytes, 0 if it is less than two.
RepLen(pos, delta, limit) ==
  LET n == Common(job.input, pos, delta, 0, limit) IN IF n < 2 THEN 0 ELSE n

(* ReadMatchDistances: the finder gives matches up to numFastBytes (that they are   *)
(* right is checked in MatchTables), the last of them is made as long as it is.     *)
ReadMatches(p) ==
  LET pos   == MfPos(p)
      avail == Len(job.input) - pos
      found == SetToSortSeq(Records(job.input, pos, Lesser(avail, job.fastBytes), job.least),
                            LAMBDA m, n : m[1] < n[1])
      len   == LastLen(found)
  IN [p EXCEPT !.additionalOffset = @ + 1, !.numAvail = avail, !.matches = found,
               !.longestMatchLen = IF len # job.fastBytes THEN len
                                   ELSE Common(job.input, pos, Last(found)[2] + 1, len, Lesser(avail, MatchLenMax))]

MovePosBy(p, n) == [p EXCEPT !.additionalOffset = @ + n]    \* MOVE_POS

FirstOf(m, len) == CHOOSE i \in DOMAIN m : m[i][1] >= len /\ (i = 1 \/ m[i - 1][1] < len)
-----------------------------------------------------------------------------
(* opt: `Try` takes a way to cell i if it is better than the one there.            *)
Try(o, i, price, len, dist, extra) ==
  IF price < o[i].price THEN [o EXCEPT ![i].price = price, ![i].len = len, ![i].dist = dist, ![i].extra = extra] ELSE o

Further(w, i) == [w EXCEPT !.last = IF @ < i THEN i ELSE @]

\* All lengths of a repeated match from cell cur.
TryRep(o, cur, pos, i, len, price) ==
  FoldLeft(LAMBDA r, k : Try(r, cur + (len + 1 - k), price + RepLenBits(pos, len + 1 - k), len + 1 - k, i, 0),
           o, [k \in 1..(len - 1) |-> k])

\* Backward: the way to cell cur becomes the cells wr..cur, in place, but for its
\* first symbol, which is the result.
BackStep(b) ==
  LET c    == b.opt[b.cur]
      from == b.cur - c.len - c.extra
      two  == [b.opt EXCEPT ![b.wr - 1].len = c.len, ![b.wr - 1].dist = IF c.extra = 1 THEN c.dist ELSE 0]
      lit  == [two EXCEPT ![b.wr - 2].len = 1, ![b.wr - 2].dist = MarkLit]
      o    == CASE c.extra = 0 -> b.opt [] c.extra = 1 -> two [] OTHER -> lit
      w    == b.wr - Lesser(c.extra, 2)
      dist == IF c.extra = 1 THEN MarkLit ELSE c.dist
      len  == CASE c.extra = 0 -> c.len [] c.extra = 1 -> 1 [] OTHER -> c.extra - 1
  IN IF from = 0 THEN [b EXCEPT !.opt = o, !.wr = w, !.cur = 0, !.dist = dist, !.len = len]
     ELSE [b EXCEPT !.opt = [o EXCEPT ![w - 1].len = len, ![w - 1].dist = dist], !.wr = w - 1, !.cur = from]

Backward(o, cur) ==
  FoldLeft(LAMBDA b, i : IF b.cur = 0 THEN b ELSE BackStep(b),
           [opt |-> o, wr |-> cur + 1, cur |-> cur, dist |-> 0, len |-> 0], [i \in 1..cur |-> i])
-----------------------------------------------------------------------------
\* One symbol is chosen and goes to the coder at once.
Chosen(p, dist, len, claim) ==
  /\ parser' = p
  /\ symbol' = [dist |-> dist, len |-> len, claimed |-> claim, paid |-> 0, at |-> p.nowPos]
  /\ loop' = [loop EXCEPT !.pc = "code"]

\* The first of the longest (repMaxIndex).
Longest(lens) == CHOOSE i \in 1..4 : (\A j \in 1..4 : lens[j] <= lens[i]) /\ (\A j \in 1..(i - 1) : lens[j] < lens[i])

Repeated(p, pos) == ByteOf(pos) = ByteOf(pos - p.reps[1])

(* The cells that one symbol leads to: a literal or a short repeated match, the         *)
(* repeated matches of lengths lens, the matches.                                   *)
ShortCells(p, lens) ==
  LET pos   == p.nowPos
      first == [opt EXCEPT ![0].state = p.state, ![0].reps = p.reps, ![1].len = 1, ![1].dist = MarkLit, ![1].extra = 0,
                  ![1].price = IsMatchBit(0, p.state, pos) + LiteralBits(p.state, pos, p.reps[1])]
  IN IF Repeated(p, pos) /\ lens[1] = 0
     THEN Try(first, 1, IsMatchBit(1, p.state, pos) + IsRepBit(1, p.state) + ShortRepBits(p.state, pos), 1, 0, 0)
     ELSE first

RepCells(cells, p, lens) ==
  LET pos   == p.nowPos
      price(i) == IsMatchBit(1, p.state, pos) + IsRepBit(1, p.state) + PureRepBits(i - 1, p.state, pos)
  IN FoldLeft(LAMBDA o, i : IF lens[i] = 0 THEN o ELSE TryRep(o, 0, pos, i - 1, lens[i], price(i)), cells, <<1, 2, 3, 4>>)

MatchCells(cells, p, lens) ==
  LET pos   == p.nowPos
      price == IsMatchBit(1, p.state, pos) + IsRepBit(0, p.state)
      least == IF lens[1] < 2 THEN 2 ELSE lens[1] + 1
      TryLen(o, len) == LET d == p.matches[FirstOf(p.matches, len)][2]
                        IN Try(o, len, price + LenBits(pos, len) + DistBits(d, len), len, d + 4, 0)
  IN FoldLeft(TryLen, cells, [k \in 1..(IF least <= p.longestMatchLen THEN p.longestMatchLen + 1 - least ELSE 0) |-> least + k - 1])

(* GetOptimum up to its loop: the cases that need none, or the cells that can be    *)
(* reached with one symbol.  The repeated matches have lengths lens, best is that of   *)
(* the longest.                                                                *)
StartWith(p, lens, best) ==
  LET rep   == lens[best]
      last  == IF rep <= p.longestMatchLen THEN p.longestMatchLen ELSE rep
      One(o) == opt' = o /\ Chosen(p, o[1].dist, 1, NoClaim)
  IN CASE p.numAvail < 2 -> Chosen(p, MarkLit, 1, NoClaim) /\ UNCHANGED opt
       [] p.numAvail >= 2 /\ rep >= job.fastBytes ->
            Chosen(MovePosBy(p, rep - 1), best - 1, rep, NoClaim) /\ UNCHANGED opt
       [] p.numAvail >= 2 /\ rep < job.fastBytes /\ p.longestMatchLen >= job.fastBytes ->
            Chosen(MovePosBy(p, p.longestMatchLen - 1), Last(p.matches)[2] + 4, p.longestMatchLen, NoClaim) /\ UNCHANGED opt
       [] p.numAvail >= 2 /\ last < 2 /\ ~Repeated(p, p.nowPos) -> Chosen(p, MarkLit, 1, NoClaim) /\ UNCHANGED opt
       [] p.numAvail >= 2 /\ last < 2 /\ Repeated(p, p.nowPos) -> One(ShortCells(p, lens))
       [] OTHER -> /\ parser' = p /\ opt' = MatchCells(RepCells(ShortCells(p, lens), p, lens), p, lens)
                   /\ loop' = [pc |-> "loop", cur |-> 0, last |-> last, reps |-> p.reps]
                   /\ UNCHANGED symbol

\* Lengths of repeated matches.
RepLens(p) == [i \in 1..4 |-> RepLen(p.nowPos, p.reps[i], Lesser(p.numAvail, MatchLenMax))]

\* With the matches of the next position, which may have been read already.
Ready(p) == IF p.additionalOffset = 0 THEN ReadMatches(p) ELSE p

StartOptimum ==
  /\ loop.pc = "choose" /\ ~job.fast /\ parser.optCur = parser.optEnd
  /\ LET With(p, lens) == StartWith(p, lens, Longest(lens))
         Start(p)      == With(p, RepLens(p))
     IN Start([Ready(parser) EXCEPT !.optCur = 0, !.optEnd = 0])
  /\ UNCHANGED job
-----------------------------------------------------------------------------
\* Mutant: the state does not know of cells of several symbols.
StateAt_NoExtra(o, cur) ==
  LET c == o[cur]
      s == o[cur - c.len].state
  IN IF c.len = 1 THEN After(IF c.dist = 0 THEN NextShort ELSE NextLit, s)
     ELSE After(IF c.dist < 4 THEN NextRep ELSE NextMatch, s)

\* State and distances at cell cur, from the cell its way comes from.
StateAt(o, cur) ==
  LET c == o[cur]
      s == o[cur - c.len].state
  IN CASE c.extra = 1 /\ c.dist >= 4 -> 7
       [] c.extra > 0 /\ ~(c.extra = 1 /\ c.dist >= 4) -> 8
       [] c.extra = 0 /\ c.len = 1 -> After(IF c.dist = 0 THEN NextShort ELSE NextLit, s)
       [] OTHER -> After(IF c.dist < 4 THEN NextRep ELSE NextMatch, s)

RepsAt(o, cur, reps) ==
  LET c    == o[cur]
      from == o[cur - c.len - c.extra].reps
  IN IF c.len = 1 THEN reps
     ELSE IF c.dist < 4 THEN ToFront(from, c.dist) ELSE <<c.dist - 4 + 1>> \o SubSeq(from, 1, 3)

(* A match of len bytes, a literal, and the same distance again: the cell that three  *)
(* symbols lead to, if two bytes or more are equal there.                           *)
TryTriple(w, c, len, delta, price, state2, state3, dist) ==
  LET limit == Lesser(len + 1 + job.fastBytes, c.full)
      equal(k) == ByteOf(c.pos + k) = ByteOf(c.pos + k - delta)
      len2  == Common(job.input, c.pos, delta, len + 3, limit) - len - 1
      total == price + IsMatchBit(0, state2, c.pos + len) + LiteralBits(state2, c.pos + len, delta)
               + Rep0Bits(state3, c.pos + len + 1) + RepLenBits(c.pos + len + 1, len2)
      cell  == c.cur + len + 1 + len2
  IN IF len + 3 > limit THEN w
     ELSE IF ~equal(len + 1) \/ ~equal(len + 2) THEN w
     ELSE [Further(w, cell) EXCEPT !.opt = Try(w.opt, cell, total, len2, dist, len + 1)]

\* LIT : REP_0
TryLitRep(w, c, litPrice) ==
  LET delta == c.reps[1]
      limit == Lesser(job.fastBytes + 1, c.full)
      len   == Common(job.input, c.pos, delta, 3, limit)
      state2 == After(NextLit, c.state)
      price == litPrice + Rep0Bits(state2, c.pos + 1) + RepLenBits(c.pos + 1, len - 1)
  IN IF \A k \in 1..2 : ByteOf(c.pos + k) = ByteOf(c.pos + k - delta)
     THEN [Further(w, c.cur + len) EXCEPT !.opt = Try(w.opt, c.cur + len, price, len - 1, 0, 1)] ELSE w

\* REP and REP : LIT : REP_0 for the repeated distance i.
TryReps(w, c, i, repPrice) ==
  LET delta == c.reps[i + 1]
      len   == RepLen(c.pos, delta, c.avail)
      price == repPrice + PureRepBits(i, c.state, c.pos)
      reached == [Further(w, c.cur + len) EXCEPT !.opt = TryRep(w.opt, c.cur, c.pos, i, len, price),
                                                 !.startLen = IF i = 0 THEN len + 1 ELSE @]
  IN IF len = 0 THEN w
     ELSE TryTriple(reached, c, len, delta, price + RepLenBits(c.pos, len), After(NextRep, c.state), 5, i)

\* MATCH of len bytes, and MATCH : LIT : REP_0 for the longest at its distance.
TryMatch(w, c, len, m, matchPrice) ==
  LET pair  == m[FirstOf(m, len)]
      price == matchPrice + LenBits(c.pos, len) + DistBits(pair[2], len)
      one   == [w EXCEPT !.opt = Try(@, c.cur + len, price, len, pair[2] + 4, 0)]
  IN IF len # pair[1] THEN one
     ELSE TryTriple(one, c, len, pair[2] + 1, price, After(NextMatch, c.state), 4, pair[2] + 4)

\* The matches up to newLen; those beyond are cut to it.
CutTo(m, newLen) ==
  LET n == FirstOf(m, newLen) IN [i \in 1..n |-> IF i = n THEN <<newLen, m[n][2]>> ELSE m[i]]

\* The repeated matches and the matches from c on; price is that of a match before its kind.
ExpandMatches(w, c, p, price) ==
  LET newLen == Lesser(p.longestMatchLen, c.avail)
      m      == IF p.longestMatchLen > c.avail THEN CutTo(p.matches, newLen) ELSE p.matches
  IN IF newLen < w.startLen THEN w
     ELSE FoldLeft(LAMBDA v, len : TryMatch(v, c, len, m, price + IsRepBit(0, c.state)),
                   Further(w, c.cur + newLen), [k \in 1..(newLen + 1 - w.startLen) |-> w.startLen + k - 1])

ExpandReps(w, c, price) ==
  FoldLeft(LAMBDA v, i : TryReps(v, c, i, price + IsRepBit(1, c.state)), w, <<0, 1, 2, 3>>)

\* A short repeated match, and what begins with a literal of price lit; o has the
\* literal, if isLit.
ExpandShort(o, last, c, lit, isLit, price) ==
  LET same  == Repeated(c, c.pos)
      next  == o[c.cur + 1]
      repPrice == price + IsRepBit(1, c.state)
      short == repPrice + ShortRepBits(c.state, c.pos)
      asks  == /\ c.state \in LitStates /\ same /\ repPrice < next.price
               /\ next.len < 2 \/ next.dist # 0
      stays == isLit /\ ~(asks /\ short < next.price)
      w     == [opt |-> IF asks THEN Try(o, c.cur + 1, short, 1, 0, 0) ELSE o, last |-> last, startLen |-> 2]
  IN IF ~stays /\ lit # 0 /\ ~same /\ c.full > 2 THEN TryLitRep(w, c, lit) ELSE w

\* What one round of the loop of GetOptimum does with the cells behind cur.
Expand(o, last, c, p) ==
  LET next  == o[c.cur + 1]
      price == o[c.cur].price + IsMatchBit(1, c.state, c.pos)
      lit0  == o[c.cur].price + IsMatchBit(0, c.state, c.pos)
      noLit == (next.price < Infinity /\ Repeated(c, c.pos)) \/ lit0 > next.price
      With(lit, isLit) ==
        ExpandShort(IF isLit THEN Try(o, c.cur + 1, lit, 1, MarkLit, 0) ELSE o, last, c, lit, isLit, price)
      Short(lit)  == With(lit, ~noLit /\ lit < next.price)
      Longer(w)   == IF c.full < 2 THEN w ELSE ExpandMatches(ExpandReps(w, c, price), c, p, price)
  IN Longer(Short(IF noLit THEN 0 ELSE lit0 + LiteralBits(c.state, c.pos, c.reps[1])))

\* One round that goes on.
NextCell ==
  /\ loop.pc = "loop" /\ loop.cur + 1 # loop.last /\ loop.cur + 1 < NumOpts - OptsEdge
  /\ LET cur == loop.cur + 1
         Cell(p, state, reps, full) ==
           [cur |-> cur, pos |-> p.nowPos + cur, state |-> state, reps |-> reps, full |-> full,
            avail |-> Lesser(full, job.fastBytes)]
         Goes(p, c, w) ==
           /\ p.longestMatchLen < job.fastBytes
           /\ parser' = p /\ opt' = w.opt
           /\ loop' = [pc |-> "loop", cur |-> cur, last |-> w.last, reps |-> c.reps]
         From(p, c) == Goes(p, c, Expand([opt EXCEPT ![cur].state = c.state, ![cur].reps = c.reps], loop.last, c, p))
         At(p)      == From(p, Cell(p, StateAt(opt, cur), RepsAt(opt, cur, loop.reps), Lesser(p.numAvail, NumOpts - 1 - cur)))
     IN At(ReadMatches(parser))
  /\ UNCHANGED <<job, symbol>>

(* The loop ends: at the last cell, near the end of opt (at the cheapest cell that is  *)
(* left), or in front of a match so long that it is taken anyway.  Then opt is empty   *)
(* again but for the way to that cell.                                           *)
EndOptimum ==
  /\ loop.pc = "loop"
  /\ LET cur  == loop.cur + 1
         near == cur # loop.last /\ cur >= NumOpts - OptsEdge
         best == CHOOSE j \in cur..loop.last :
                   \A k \in cur..loop.last : opt[j].price < opt[k].price \/ (opt[j].price = opt[k].price /\ k <= j)
         long == cur # loop.last /\ ~near
         p    == CASE near -> MovePosBy(parser, best - cur) [] long -> ReadMatches(parser) [] OTHER -> parser
         end  == IF near THEN best ELSE cur
         b    == Backward([i \in DOMAIN opt |-> IF i \in 1..loop.last THEN [opt[i] EXCEPT !.price = Infinity] ELSE opt[i]], end)
     IN /\ long => p.longestMatchLen >= job.fastBytes
        /\ opt' = b.opt
        /\ Chosen([p EXCEPT !.optCur = b.wr, !.optEnd = end + 1], b.dist, b.len, opt[end].price)
  /\ UNCHANGED job
-----------------------------------------------------------------------------
\* ChangePair: the nearer one is worth a byte less.
ChangePair(small, big) == big \div FarBits[1] > small

\* The longest match, or one that is a byte shorter and much nearer, and so on.
Shorter(m) ==
  FoldLeft(LAMBDA r, i : LET n == Len(r)
                         IN IF n > 1 /\ r[n][1] = r[n - 1][1] + 1 /\ ChangePair(r[n - 1][2], r[n][2]) THEN Front(r) ELSE r,
           m, m)

(* The match is given up if the next position has a better one.                   *)
NextIsBetter(p, mainLen, mainDist) ==
  LET len == p.longestMatchLen
      new == Last(p.matches)[2]
  IN len >= 2 /\ \/ len >= mainLen /\ new < mainDist
                 \/ len = mainLen + 1 /\ ~ChangePair(mainDist, new)
                 \/ len > mainLen + 1
                 \/ len + 1 >= mainLen /\ mainLen >= 3 /\ ChangePair(new, mainDist)

\* A repeated match there has all but the last byte of what this one would have.
NextRepeats(p, mainLen) ==
  \E i \in 1..4 : LET limit == IF mainLen - 1 < 2 THEN 2 ELSE mainLen - 1
                  IN Common(job.input, p.nowPos + 1, p.reps[i], 0, limit) >= limit

\* A match, of length main at distance dist, unless the next position q has a better one.
FastMatch(p, q, main, dist) ==
  IF NextIsBetter(q, main, dist) \/ NextRepeats(q, main) THEN Chosen(q, MarkLit, 1, NoClaim)
  ELSE Chosen(MovePosBy(q, main - 2), dist + 4, main, NoClaim)

\* The match main or the repeated match best.
FastWith(p, lens, best, main, dist) ==
  LET rep == lens[best]
      repIsBetter == rep >= 2 /\ \/ rep + 1 >= main
                                 \/ rep + 2 >= main /\ dist >= FarBits[3]
                                 \/ rep + 3 >= main /\ dist >= FarBits[4]
  IN IF repIsBetter THEN Chosen(MovePosBy(p, rep - 1), best - 1, rep, NoClaim)
     ELSE IF main < 2 \/ p.numAvail <= 2 THEN Chosen(p, MarkLit, 1, NoClaim)
     ELSE FastMatch(p, ReadMatches(p), main, dist)

FastChoice(p, lens) ==
  LET long  == {i \in 1..4 : lens[i] >= job.fastBytes}
      one   == CHOOSE i \in long : \A j \in long : i <= j
      Main(len, dist) == FastWith(p, lens, Longest(lens), IF len = 2 /\ dist >= FarBits[2] THEN 1 ELSE len, dist)
      Shortened(m)    == Main(p.longestMatchLen - (Len(p.matches) - Len(m)), Last(m)[2])
  IN CASE p.numAvail < 2 -> Chosen(p, MarkLit, 1, NoClaim)
       [] p.numAvail >= 2 /\ long # {} -> Chosen(MovePosBy(p, lens[one] - 1), one - 1, lens[one], NoClaim)
       [] p.numAvail >= 2 /\ long = {} /\ p.longestMatchLen >= job.fastBytes ->
            Chosen(MovePosBy(p, p.longestMatchLen - 1), Last(p.matches)[2] + 4, p.longestMatchLen, NoClaim)
       [] OTHER -> IF p.longestMatchLen < 2 THEN Main(0, 0) ELSE Shortened(Shorter(p.matches))

GetOptimumFast ==
  /\ loop.pc = "choose" /\ job.fast
  /\ LET With(p) == FastChoice(p, RepLens(p)) IN With(Ready(parser))
  /\ UNCHANGED <<job, opt>>
-----------------------------------------------------------------------------
\* What a symbol costs where the coder is.
SymbolPrice(p, dist, len) ==
  LET s == p.state
      pos == p.nowPos
  IN CASE dist = MarkLit -> IsMatchBit(0, s, pos) + LiteralBits(s, pos, p.reps[1])
       [] dist = 0 /\ len = 1 -> IsMatchBit(1, s, pos) + IsRepBit(1, s) + ShortRepBits(s, pos)
       [] dist \in 0..3 /\ len > 1 -> IsMatchBit(1, s, pos) + IsRepBit(1, s) + PureRepBits(dist, s, pos) + RepLenBits(pos, len)
       [] OTHER -> IsMatchBit(1, s, pos) + IsRepBit(0, s) + LenBits(pos, len) + DistBits(dist - 4, len)

(* LzmaEnc_CodeOneBlock: the chosen symbol is coded; state and distances follow.     *)
CodeChosen ==
  /\ loop.pc = "code"
  /\ LET dist == symbol.dist
         len  == symbol.len
         s    == parser.state
     IN parser' = [parser EXCEPT !.nowPos = @ + len, !.additionalOffset = @ - len,
                     !.state = After(CASE dist = MarkLit -> NextLit [] dist = 0 /\ len = 1 -> NextShort
                                       [] dist \in 0..3 /\ len > 1 -> NextRep [] OTHER -> NextMatch, s),
                     !.reps = IF dist = MarkLit THEN @ ELSE IF dist < 4 THEN ToFront(@, dist)
                              ELSE <<dist - 4 + 1>> \o SubSeq(@, 1, 3)]
  /\ symbol' = [symbol EXCEPT !.paid = @ + SymbolPrice(parser, symbol.dist, symbol.len)]
  /\ loop' = [loop EXCEPT !.pc = IF parser'.additionalOffset = 0 /\ parser'.nowPos = Len(job.input) THEN "done" ELSE "choose"]
  /\ UNCHANGED <<job, opt>>

\* The next symbol of the way that was found.
TakeNext ==
  /\ loop.pc = "choose" /\ parser.optCur # parser.optEnd
  /\ parser' = [parser EXCEPT !.optCur = @ + 1]
  /\ symbol' = [symbol EXCEPT !.dist = opt[parser.optCur].dist, !.len = opt[parser.optCur].len, !.at = parser.nowPos]
  /\ loop' = [loop EXCEPT !.pc = "code"]
  /\ UNCHANGED <<job, opt>>

Parsed == loop.pc = "done" /\ UNCHANGED parserVars
-----------------------------------------------------------------------------
NoCell == [price |-> Infinity, len |-> 0, dist |-> 0, extra |-> 0, state |-> 0, reps |-> <<1, 1, 1, 1>>]

\* After the first byte, which is always a literal (LzmaEnc_CodeOneBlock).
ParserInit ==
  /\ job \in [input : ParseInputs, fast : BOOLEAN, seed : Seeds, fastBytes : FastBytes, least : {2, 3}]
  /\ job.fast => \A s \in Seeds : job.seed <= s    \* which knows no prices
  /\ parser = [nowPos |-> 1, state |-> 0, reps |-> <<1, 1, 1, 1>>, additionalOffset |-> 0, numAvail |-> 0,
               longestMatchLen |-> 0, matches |-> <<>>, optCur |-> 0, optEnd |-> 0]
  /\ opt = [i \in 0..(NumOpts - 1) |-> NoCell]
  /\ loop = [pc |-> IF Len(job.input) = 1 THEN "done" ELSE "choose", cur |-> 0, last |-> 0, reps |-> <<1, 1, 1, 1>>]
  /\ symbol = [dist |-> MarkLit, len |-> 0, claimed |-> NoClaim, paid |-> 0, at |-> 0]

ParserNext == StartOptimum \/ NextCell \/ EndOptimum \/ GetOptimumFast \/ CodeChosen \/ TakeNext \/ Parsed
-----------------------------------------------------------------------------
(* Every symbol stands for the bytes that are there: its distance is one the decoder   *)
(* has, within the dictionary, and what it copies is what comes next; the ways that    *)
(* join several symbols in one cell, the cells overwritten in place by Backward and     *)
(* the matches kept from the position before come out right.                          *)
SymbolsAreReal ==
  loop.pc = "code" =>
    LET delta == IF symbol.dist < 4 THEN parser.reps[symbol.dist + 1] ELSE symbol.dist - 4 + 1
    IN /\ parser.nowPos + symbol.len <= Len(job.input) /\ symbol.len <= MatchLenMax
       /\ symbol.dist = MarkLit => symbol.len = 1
       /\ symbol.dist # MarkLit =>
            /\ delta <= Reach(parser.nowPos)
            /\ symbol.len > 1 \/ symbol.dist = 0
            /\ \A k \in 0..(symbol.len - 1) : ByteOf(parser.nowPos + k) = ByteOf(parser.nowPos + k - delta)

(* The price that made a way the best is what its symbols then cost: the states,       *)
(* distances and positions it was computed with are those in which they are coded.      *)
PricesAreTrue ==
  loop.pc = "choose" /\ parser.optCur = parser.optEnd /\ symbol.claimed # NoClaim => symbol.paid = symbol.claimed

(* The finder is as far ahead as the coder believes: not at all when a way is used up,   *)
(* or at most by the next position, whose matches are known.                          *)
FinderInStep ==
  /\ loop.pc = "choose" /\ parser.optCur = parser.optEnd =>
       /\ parser.additionalOffset \in 0..1
       /\ \A i \in 2..(NumOpts - 1) : opt[i].price = Infinity
       /\ parser.additionalOffset = 1 =>
            parser.numAvail = Len(job.input) - parser.nowPos /\ \A i \in DOMAIN parser.matches :
              parser.matches[i][1] <= MatchLen(job.input, parser.nowPos, parser.matches[i][2] + 1, parser.numAvail)
  /\ parser.additionalOffset >= 0 /\ MfPos(parser) <= Len(job.input)

\* No cell up to the one in hand is empty, and none lies outside opt.
NoHoles == loop.pc = "loop" => /\ loop.last < NumOpts
                               /\ \A i \in 1..(loop.cur + 1) : opt[i].price < Infinity
                               /\ opt[loop.last].price < Infinity

ParserChooses == SymbolsAreReal /\ PricesAreTrue /\ FinderInStep /\ NoHoles
=============================================================================
