-------------------------------- MODULE Ppmd7 --------------------------------
(***************************************************************************)
(* The model of PPMd (Ppmd7.c): a block of memory that holds text from its *)
(* start, contexts from its end and the statistics of contexts between,    *)
(* with lists of what was freed; how symbols change it; and its restart    *)
(* when memory is used up.                                                 *)
(*                                                                         *)
(* A reference is an offset into the block, as in the code; what is at an  *)
(* offset is a record, kept by the context it belongs to.  A model is a    *)
(* record p with the fields of CPpmd7.                                     *)
(***************************************************************************)
EXTENDS Integers, Sequences, SequencesExt, FiniteSetsExt, TLC

CONSTANTS
  MemSizes,   \* CPpmd7.Size
  Orders      \* CPpmd7.MaxOrder

ASSUME PpmdAssumption == MemSizes \subseteq Nat /\ Orders \subseteq Nat

UnitSize   == 12
MaxFreq    == 124                              \* MAX_FREQ
NumIndexes == 38                               \* PPMD_NUM_INDEXES
BinScale   == 2 ^ 14                           \* PPMD_BIN_SCALE
ExpEscape  == <<25, 14, 9, 7, 5, 5, 4, 4, 4, 3, 3, 3, 2, 2, 2, 2>>
InitBinEsc == <<15581, 7999, 22975, 18675, 25761, 23228, 26162, 24657>>

IfOne(condition) == IF condition THEN 1 ELSE 0
AsByte(v)        == v % 256
AsUInt16(v)      == v % 65536
-----------------------------------------------------------------------------
(* The tables of Ppmd7_Construct.                                          *)
Indx2Units == [i \in 0 .. NumIndexes - 1 |->
  IF i < 12 THEN LET row == i \div 4 IN 2 * row * (row + 1) + ((i % 4) + 1) * (row + 1) ELSE 24 + 4 * (i - 11)]
Units2Indx == [nu \in 1 .. 128 |-> Min({i \in 0 .. NumIndexes - 1 : Indx2Units[i] >= nu})]

\* 0, 1, 2 and then values m, each for m - 2 numbers.
NS2Indx == [n \in 0 .. 255 |-> IF n < 3 THEN n ELSE Min({m \in 3 .. 40 : n - 3 < ((m - 2) * (m - 1)) \div 2})]
NS2BSIndx(n) == IF n < 2 THEN 2 * n ELSE IF n < 11 THEN 4 ELSE 6
-----------------------------------------------------------------------------
(* A state of a context, [sym, freq, succ], and a context: its states, where *)
(* they are (at; a single state is in the context itself), the sum of their   *)
(* frequencies with that of an escape, and the context that is its suffix.    *)
NoRef == 0
Num(c) == Len(c.states)
Syms(c) == {c.states[k].sym : k \in DOMAIN c.states}
Find(c, sym) == CHOOSE k \in DOMAIN c.states : c.states[k].sym = sym

FoundState(p) == p.ctx[p.found[1]].states[p.found[2]]    \* p->FoundState points to: <<context, index>>
SetSucc(p, s, v) == [p EXCEPT !.ctx[s[1]].states[s[2]].succ = v]
Swapped(states, k) == [states EXCEPT ![k] = states[k - 1], ![k - 1] = states[k]]     \* SWAP_STATES

HiBits(sym, flag) == IF sym >= 64 THEN flag ELSE 0        \* PPMD7_HiBitsFlag_3, PPMD7_HiBitsFlag_4
-----------------------------------------------------------------------------
(* The allocator: lists of free blocks by their size, and between lo and hi  *)
(* what was never used.  An operation that allocates leaves the block in got. *)
InsertNode(p, at, i) == [p EXCEPT !.free[i] = <<at>> \o @]
RemoveNode(p, i)     == [p EXCEPT !.got = Head(p.free[i]), !.free[i] = Tail(@)]

\* A block of nu units, in one or two lists: how SplitBlock and GlueFreeBlocks give it back.
GiveUnits(p, at, nu) ==
  LET i == Units2Indx[nu]
      k == Indx2Units[i - 1]
  IN IF Indx2Units[i] = nu THEN InsertNode(p, at, i)
     ELSE InsertNode(InsertNode(p, at + k * UnitSize, nu - k - 1), at, i - 1)

\* Mutant: the rest of a split block starts a unit early.
SplitBlock_Early(p, at, old, new) ==
  GiveUnits(p, at + (Indx2Units[new] - 1) * UnitSize, Indx2Units[old] - Indx2Units[new])

SplitBlock(p, at, old, new) ==
  GiveUnits(p, at + Indx2Units[new] * UnitSize, Indx2Units[old] - Indx2Units[new])

\* Ppmd7_GlueFreeBlocks: all lists in one, each block takes the free ones right
\* behind it, and they go back to the lists.  What is behind a block is known by
\* its first two bytes: only free blocks have zeros there.
RECURSIVE Grown(_, _, _)
Grown(nus, at, nu) ==
  LET behind == at + nu * UnitSize IN
  IF behind \in DOMAIN nus /\ nu + nus[behind] < 65536 THEN Grown([nus EXCEPT ![at] = nu + nus[behind], ![behind] = 0], at, nu + nus[behind])
  ELSE nus

RECURSIVE GiveAll(_, _, _)
GiveAll(p, at, nu) ==
  IF nu > 128 THEN GiveAll(InsertNode(p, at, NumIndexes - 1), at + 128 * UnitSize, nu - 128) ELSE GiveUnits(p, at, nu)

GlueFreeBlocks(p) ==
  LET lists == FoldLeft(LAMBDA all, i : all \o p.free[i - 1], <<>>, [i \in 1 .. NumIndexes |-> i])
      nodes == Reverse(lists)
      sizes == FoldLeft(LAMBDA f, i : f @@ [at \in Range(p.free[i - 1]) |-> Indx2Units[i - 1]], <<>>, [i \in 1 .. NumIndexes |-> i])
      glued == FoldLeft(LAMBDA nus, at : IF nus[at] = 0 THEN nus ELSE Grown(nus, at, nus[at]), sizes, nodes)
      empty == [p EXCEPT !.glueCount = 255, !.free = [i \in 0 .. NumIndexes - 1 |-> <<>>]]
  IN FoldLeft(LAMBDA q, at : IF glued[at] = 0 THEN q ELSE GiveAll(q, at, glued[at]), empty, nodes)

\* A block of a list of larger ones, or what is free on the text's side.
AllocLarger(q, indx) ==
  LET larger == {i \in indx + 1 .. NumIndexes - 1 : q.free[i] # <<>>}
      bytes  == Indx2Units[indx] * UnitSize
  IN IF larger # {}
     THEN LET i == Min(larger)
              r == RemoveNode(q, i) IN SplitBlock(r, r.got, i, indx)
     ELSE LET g == [q EXCEPT !.glueCount = @ - 1] IN
          IF q.unitsStart - q.text > bytes THEN [g EXCEPT !.unitsStart = @ - bytes, !.got = q.unitsStart - bytes]
          ELSE [g EXCEPT !.got = NoRef]

\* Ppmd7_AllocUnitsRare
AllocGlued(q, indx)     == IF q.free[indx] # <<>> THEN RemoveNode(q, indx) ELSE AllocLarger(q, indx)
AllocUnitsRare(p, indx) == IF p.glueCount = 0 THEN AllocGlued(GlueFreeBlocks(p), indx) ELSE AllocLarger(p, indx)

\* Ppmd7_AllocUnits
AllocUnits(p, indx) ==
  LET bytes == Indx2Units[indx] * UnitSize IN
  IF p.free[indx] # <<>> THEN RemoveNode(p, indx)
  ELSE IF p.hiUnit - p.loUnit >= bytes THEN [p EXCEPT !.loUnit = @ + bytes, !.got = p.loUnit]
  ELSE AllocUnitsRare(p, indx)

AllocContext(p) ==
  IF p.hiUnit # p.loUnit THEN [p EXCEPT !.hiUnit = @ - UnitSize, !.got = p.hiUnit - UnitSize]
  ELSE IF p.free[0] # <<>> THEN RemoveNode(p, 0)
  ELSE AllocUnitsRare(p, 0)
-----------------------------------------------------------------------------
AlignOffset(size) == (4 - size) % 4

RootStates == [k \in 1 .. 256 |-> [sym |-> k - 1, freq |-> 1, succ |-> NoRef]]

\* Ppmd7_RestartModel: the root, a context with all bytes, and nothing else.  The
\* probabilities bin and see have the values here that differ from the first ones.
RestartModel(p) ==
  LET start == AlignOffset(p.size)
      end   == start + p.size
      units == end - ((p.size \div 8) \div UnitSize) * 7 * UnitSize
      root  == end - UnitSize
      runs  == -Min({p.maxOrder, 12}) - 1
  IN [size |-> p.size, maxOrder |-> p.maxOrder, got |-> NoRef,
      text |-> start, unitsStart |-> units, loUnit |-> units + 128 * UnitSize, hiUnit |-> root,
      free |-> [i \in 0 .. NumIndexes - 1 |-> <<>>], glueCount |-> 0, raw |-> <<>>,
      ctx |-> root :> [states |-> RootStates, at |-> units, summ |-> 257, suffix |-> NoRef],
      minContext |-> root, maxContext |-> root, found |-> <<root, 1>>,
      orderFall |-> p.maxOrder, initEsc |-> p.initEsc, hiBitsFlag |-> p.hiBitsFlag,
      runLength |-> runs, initRL |-> runs, prevSuccess |-> 0, bin |-> <<>>, see |-> <<>>]

\* Ppmd7_Alloc, Ppmd7_Init.  What is not set is taken to be 0.
InitModel(size, maxOrder) == RestartModel([size |-> size, maxOrder |-> maxOrder, initEsc |-> 0, hiBitsFlag |-> 0])

InitBin(i) == BinScale - InitBinEsc[(i[2] % 8) + 1] \div (i[1] + 2)
InitSee(i) == [summ |-> (5 * i[1] + 10) * 8, shift |-> 3, count |-> 4]
Bin(p, i)  == IF i \in DOMAIN p.bin THEN p.bin[i] ELSE InitBin(i)
See(p, i)  == IF i \in DOMAIN p.see THEN p.see[i] ELSE InitSee(i)
SetBin(p, i, v) == [p EXCEPT !.bin = (i :> v) @@ @]
SetSee(p, i, v) == [p EXCEPT !.see = (i :> v) @@ @]
-----------------------------------------------------------------------------
(* Ppmd7_CreateSuccessors                                                  *)

\* The walk over the suffixes as long as they have the same text for a successor:
\* the states to be given contexts, and the context where it ends.
RECURSIVE SameSuccessors(_, _, _, _)
SameSuccessors(p, c, up, states) ==
  IF p.ctx[c].suffix = NoRef THEN [states |-> states, end |-> c]
  ELSE LET s == p.ctx[c].suffix
           k == Find(p.ctx[s], FoundState(p).sym)
       IN IF p.ctx[s].states[k].succ # up THEN [states |-> states, end |-> p.ctx[s].states[k].succ]
          ELSE SameSuccessors(p, s, up, Append(states, <<s, k>>))

\* The frequency of the symbol of the new contexts, from its share in context c.
NewFreq(c, sym) ==
  IF Num(c) = 1 THEN c.states[1].freq
  ELSE LET cf == c.states[Find(c, sym)].freq - 1
           s0 == c.summ - Num(c) - cf
       IN AsByte(1 + (IF 2 * cf <= s0 THEN IfOne(5 * cf > s0) ELSE (2 * cf + s0 - 1) \div (2 * s0) + 1))

\* A context of one state for state s, whose suffix is the context before it (got).
Linked(q, s, state, suffix) ==
  IF suffix = NoRef \/ q.got = NoRef THEN [q EXCEPT !.got = NoRef]
  ELSE SetSucc([q EXCEPT !.ctx = (q.got :> [states |-> <<state>>, at |-> NoRef, summ |-> 0, suffix |-> suffix]) @@ @],
               s, q.got)

AddContext(p, s, state) == Linked(AllocContext(p), s, state, p.got)

CreateSuccessors(p) ==
  LET up    == FoundState(p).succ
      walk  == SameSuccessors(p, p.minContext, up, IF p.orderFall # 0 THEN <<p.found>> ELSE <<>>)
      sym   == p.raw[up]
      state == [sym |-> sym, freq |-> NewFreq(p.ctx[walk.end], sym), succ |-> up + 1]
  IN IF walk.states = <<>> THEN [p EXCEPT !.got = walk.end]
     ELSE FoldLeft(LAMBDA q, s : IF q.got = NoRef THEN q ELSE AddContext(q, s, state), [p EXCEPT !.got = walk.end], Reverse(walk.states))
-----------------------------------------------------------------------------
(* Ppmd7_UpdateModel                                                       *)

\* The symbol counts in the suffix too.
UpdateSuffix(p) ==
  LET c == p.ctx[p.minContext].suffix
      k == Find(p.ctx[c], FoundState(p).sym)
      up == k > 1 /\ p.ctx[c].states[k].freq >= p.ctx[c].states[k - 1].freq
      j  == IF up THEN k - 1 ELSE k
      q  == IF up THEN [p EXCEPT !.ctx[c].states = Swapped(@, k)] ELSE p
      freq == q.ctx[c].states[j].freq
  IN IF FoundState(p).freq >= MaxFreq \div 4 \/ c = NoRef THEN p
     ELSE IF Num(p.ctx[c]) = 1 THEN [p EXCEPT !.ctx[c].states[1].freq = IF @ < 32 THEN @ + 1 ELSE @]
     ELSE IF freq < MaxFreq - 9 THEN [q EXCEPT !.ctx[c].states[j].freq = freq + 2, !.ctx[c].summ = AsUInt16(@ + 2)]
     ELSE q

\* The vector of context c with room for one state more; got is 0 if there is none.
\* q has allocated the new vector, the old one is in list i.
Moved(q, c, i) ==
  IF Num(q.ctx[c]) = 1 THEN [q EXCEPT !.ctx[c].at = q.got]
  ELSE IF q.got = NoRef THEN q
  ELSE [InsertNode(q, q.ctx[c].at, i) EXCEPT !.ctx[c].at = q.got]

Widened(p, c) ==
  LET n == Num(p.ctx[c])
      i == Units2Indx[n \div 2]
  IN IF n # 1 /\ (n % 2 = 1 \/ i = Units2Indx[n \div 2 + 1]) THEN [p EXCEPT !.got = p.ctx[c].at]
     ELSE Moved(AllocUnits(p, IF n = 1 THEN 0 ELSE i + 1), c, i)

\* The frequency of a new state, from its share of what there is.
StateFreq(cf, sf) ==
  IF cf < 6 * sf THEN 1 + IfOne(cf > sf) + IfOne(cf >= 4 * sf)
  ELSE 4 + IfOne(cf >= 9 * sf) + IfOne(cf >= 12 * sf) + IfOne(cf >= 15 * sf)

WithState(q, c, first, sum, state) ==
  [q EXCEPT !.ctx[c].states = Append([@ EXCEPT ![1].freq = first], state),
            !.ctx[c].summ = AsUInt16(sum + Max({3, state.freq}))]

\* Context c has room to learn the symbol of FoundState, which context mc had.
LearnState(q, c, mc, succ) ==
  LET ns   == Num(q.ctx[mc])
      n    == Num(q.ctx[c])
      fs   == FoundState(q)
      s0   == q.ctx[mc].summ - ns - (fs.freq - 1)
      one  == q.ctx[c].states[1].freq
      first == IF n # 1 THEN one ELSE IF one < MaxFreq \div 4 - 1 THEN 2 * one ELSE MaxFreq - 4
      old  == q.ctx[c].summ
      New(sum) == WithState(q, c, first, sum, [sym |-> fs.sym, freq |-> StateFreq(2 * (sum + 6) * fs.freq, s0 + sum), succ |-> succ])
  IN IF q.got = NoRef THEN q
     ELSE New(IF n = 1 THEN first + q.initEsc + IfOne(ns > 3)
              ELSE old + IfOne(2 * n < ns) + 2 * IfOne(4 * n <= ns /\ old <= 8 * n))

AddState(p, c, mc, succ) == LearnState(Widened(p, c), c, mc, succ)

\* The contexts from c to the one before mc.
RECURSIVE Chain(_, _, _)
Chain(p, c, mc) == IF c = mc THEN <<>> ELSE <<c>> \o Chain(p, p.ctx[c].suffix, mc)

\* The model was at p, and is at q; the new states are followed by max.
Learned(q, p, max) ==
  FoldLeft(LAMBDA u, c : IF u.got = NoRef THEN u ELSE AddState(u, c, p.minContext, max),
           q, Chain(q, p.maxContext, p.minContext))

\* Where the next symbol is looked for, r.got, and what the new states are followed by; q has written the symbol.
ToLower(r, q, p) ==
  LET succ == FoundState(q).succ
      last == succ # NoRef /\ q.orderFall = 1
  IN IF r.got = NoRef THEN r
     ELSE Learned([r EXCEPT !.orderFall = @ - IfOne(succ # NoRef),
                            !.text = @ - IfOne(last /\ p.maxContext # p.minContext),
                            !.maxContext = r.got, !.minContext = r.got],
                  p, IF last THEN r.got ELSE q.text)

\* Memory is used up.
OrRestart(q, p) == IF q.got = NoRef THEN RestartModel(p) ELSE q

LowerOrder(p) ==
  LET q    == [p EXCEPT !.raw = (p.text :> FoundState(p).sym) @@ @, !.text = @ + 1]
      succ == FoundState(q).succ
      r    == IF q.text >= q.unitsStart THEN [q EXCEPT !.got = NoRef]
              ELSE IF succ # NoRef /\ succ <= q.text THEN CreateSuccessors(q)
              ELSE IF succ # NoRef THEN [q EXCEPT !.got = succ]
              ELSE [SetSucc(q, q.found, q.text) EXCEPT !.got = q.minContext]
  IN OrRestart(ToLower(r, q, p), p)

MaxOrderContext(q, p) ==
  OrRestart(IF q.got = NoRef THEN q
            ELSE SetSucc([q EXCEPT !.minContext = q.got, !.maxContext = q.got], q.found, q.got), p)

Updated(p)     == IF p.orderFall = 0 THEN MaxOrderContext(CreateSuccessors(p), p) ELSE LowerOrder(p)
UpdateModel(p) == Updated(UpdateSuffix(p))

\* Ppmd7_NextContext, if there was no escape.
NextContext(p, escaped) ==
  LET c == FoundState(p).succ IN
  IF ~escaped /\ p.orderFall = 0 /\ c > p.text THEN [p EXCEPT !.minContext = c, !.maxContext = c] ELSE UpdateModel(p)
-----------------------------------------------------------------------------
(* Ppmd7_Rescale                                                           *)

\* Descending by frequency; a state comes after those as frequent.
PutInOrder(states, s) ==
  LET k == Cardinality({j \in DOMAIN states : states[j].freq >= s.freq}) IN
  SubSeq(states, 1, k) \o <<s>> \o SubSeq(states, k + 1, Len(states))

RECURSIVE HalvedFreq(_, _)
HalvedFreq(esc, freq) ==
  LET e == esc \div 2
      f == (freq + 1) \div 2
  IN IF e > 1 THEN HalvedFreq(e, f) ELSE f

\* The vector of the context gives up what it does not need for n1 units.
Narrowed(p, c, n0, n1) ==
  LET at == p.ctx[c].at
      i0 == Units2Indx[n0]
      i1 == Units2Indx[n1]
      q  == RemoveNode(p, i1)
  IN IF i0 = i1 THEN p
     ELSE IF p.free[i1] # <<>> THEN InsertNode([q EXCEPT !.ctx[c].at = q.got], at, i0)
     ELSE SplitBlock(p, at, i0, i1)

Rescale(p) ==
  LET c      == p.minContext
      old    == p.ctx[c].states
      n      == Len(old)
      k      == p.found[2]
      adder  == IfOne(p.orderFall # 0)
      first  == [old[k] EXCEPT !.freq = AsByte((@ + 4 + adder) \div 2)]
      others == SubSeq(old, 1, k - 1) \o SubSeq(old, k + 1, n)
      Half(s) == [s EXCEPT !.freq = (@ + adder) \div 2]
      all    == FoldLeft(LAMBDA sts, s : PutInOrder(sts, Half(s)), <<first>>, others)
      SumOf(sts) == FoldLeft(LAMBDA sum, s : sum + s.freq, 0, sts)
      kept   == SelectSeq(all, LAMBDA s : s.freq # 0)
      left   == Len(kept)
      esc    == p.ctx[c].summ - SumOf(old) + (n - left)
      n0     == (n + 1) \div 2
      one    == [kept[1] EXCEPT !.freq = HalvedFreq(esc, @)]
      q      == Narrowed(p, c, n0, (left + 1) \div 2)
  IN IF left = 1
     THEN InsertNode([p EXCEPT !.ctx[c].states = <<one>>, !.ctx[c].at = NoRef, !.found = <<c, 1>>], p.ctx[c].at, Units2Indx[n0])
     ELSE [q EXCEPT !.ctx[c].states = kept, !.found = <<c, 1>>,
                    !.ctx[c].summ = AsUInt16(SumOf(all) + esc - esc \div 2)]
-----------------------------------------------------------------------------
(* What a symbol that was found does before NextContext: FoundState is set. *)

Counted(p) ==
  [p EXCEPT !.ctx[p.found[1]].states[p.found[2]].freq = AsByte(@ + 4), !.ctx[p.found[1]].summ = AsUInt16(@ + 4)]

Rescaled(p) == IF FoundState(p).freq > MaxFreq THEN Rescale(p) ELSE p

\* Ppmd7_Update1_0: the first state of the context.
Update1_0(p) ==
  LET success == IfOne(2 * FoundState(p).freq > p.ctx[p.minContext].summ)
  IN Rescaled([Counted(p) EXCEPT !.prevSuccess = success, !.runLength = @ + success])

\* Ppmd7_Update1: another.
Update1(p) ==
  LET q == Counted(p)
      k == q.found[2]
      r == [q EXCEPT !.ctx[q.found[1]].states = Swapped(@, k), !.found[2] = k - 1]
  IN IF FoundState(q).freq > q.ctx[q.found[1]].states[k - 1].freq THEN Rescaled(r) ELSE q

\* Ppmd7_Update2: after an escape.
Update2(p) == Rescaled([Counted(p) EXCEPT !.runLength = p.initRL])

\* The only state of the context, when it is found.
UpdateBin(p) ==
  [p EXCEPT !.ctx[p.found[1]].states[1].freq = IF @ < 128 THEN @ + 1 ELSE @, !.prevSuccess = 1, !.runLength = @ + 1]

\* Ppmd7_MakeEscFreq: the estimate for an escape (got), with its place in see.
DummySee == <<25, 0>>
SeeIndex(p, masked) ==
  LET c == p.ctx[p.minContext]
      n == Num(c)
      free == n - masked
  IN IF n = 256 THEN DummySee
     ELSE <<NS2Indx[free - 1], IfOne(free < Num(p.ctx[c.suffix]) - n) + 2 * IfOne(c.summ < 11 * n) + 4 * IfOne(masked > free) + p.hiBitsFlag>>

MakeEscFreq(p, masked) ==
  LET i == SeeIndex(p, masked)
      s == See(p, i)
      r == s.summ \div 2 ^ s.shift
  IN IF i = DummySee THEN [p EXCEPT !.got = 1]
     ELSE [SetSee(p, i, [s EXCEPT !.summ = @ - r]) EXCEPT !.got = r + IfOne(r = 0)]

\* Ppmd_See_UPDATE
SeeUpdate(p, i) ==
  LET s == See(p, i) IN
  IF i = DummySee \/ s.shift >= 7 THEN p
  ELSE IF s.count # 1 THEN SetSee(p, i, [s EXCEPT !.count = AsByte(@ - 1)])
  ELSE SetSee(p, i, [summ |-> AsUInt16(2 * s.summ), shift |-> s.shift + 1, count |-> AsByte(3 * 2 ^ s.shift)])
=============================================================================
