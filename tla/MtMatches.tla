------------------------------ MODULE MtMatches ------------------------------
(***************************************************************************)
(* What the three threads of CMatchFinderMt (LzFindMt.c, LzFindOpt.c)       *)
(* compute: the hash thread the distance to the last position with the same *)
(* hash, the bt thread the matches of its binary tree from these, and the    *)
(* encoder's thread adds the shorter ones.  Each has a position of its own    *)
(* and normalises its references when that is about to wrap.  How the blocks *)
(* travel, and the window, is in LzFindMt; here they are sequences.          *)
(***************************************************************************)
EXTENDS MatchOps

CONSTANTS
  MtKinds,         \* numHashBytes
  MtInputs,        \* sequences of bytes
  MtCutValues,     \* cutValue
  MtMaxLen,        \* matchMaxLen
  HashBlockItems,  \* kMtHashBlockSize
  BtBlockItems,    \* kMtBtBlockSize
  MtKeepAfter,     \* keepSizeAfter
  MaxAhead         \* blocks a thread may be ahead

ASSUME MtMatchesAssumption ==
  /\ MtMaxLen * 4 < BtBlockItems /\ HashBlockItems > 2
  /\ MtKeepAfter >= MtMaxLen + HashBlockItems
  /\ BtBlockItems + HistorySize + 1 < PosRange /\ HashBlockItems + HistorySize + 1 < PosRange

VARIABLES
  mt,          \* what was chosen: n, input, cut
  hashThread,        \* the hash thread: buffer, end of what was read, pos, hv
  hashBlocks,  \* its blocks: [heads, avail]
  btThread,          \* the bt thread and the block it fills
  btBlocks,    \* its blocks: [lists, avail]
  lzThread           \* the encoder's thread, with the rest of its block and its last result

mtVars == <<mt, hashThread, hashBlocks, btThread, btBlocks, lzThread>>
MaxPos == PosRange - 1            \* kMtMaxValForNormalize
-----------------------------------------------------------------------------
\* GetHeads2 .. GetHeads5b: num distances, and the table afterwards.
GetHeads(h, num) ==
  FoldLeft(LAMBDA r, i : LET v == HV(mt.input, h.buffer + i - 1, mt.n, FALSE)
                         IN [heads |-> Append(r.heads, (h.pos + i - 1) - r.hv[v]), hv |-> [r.hv EXCEPT ![v] = h.pos + i - 1]],
           [heads |-> <<>>, hv |-> h.hv], [i \in 1..num |-> i])

NormalizeHash(h, num) ==
  LET sub == (h.pos - HistorySize) - 1
  IN IF h.pos > MaxPos - num THEN [h EXCEPT !.pos = @ - sub, !.hv = [v \in DOMAIN @ |-> Normal(@[v], sub)]] ELSE h

\* One block of HashThreadFunc.
FillHashBlock ==
  /\ Len(hashBlocks) < MaxAhead
  /\ \E end \in {Lesser(hashThread.buffer + MtKeepAfter + 1, Len(mt.input)), Len(mt.input)} :
       LET read  == [hashThread EXCEPT !.end = IF MtKeepAfter >= hashThread.end - hashThread.buffer /\ end > @ THEN end ELSE @]
           avail == read.end - read.buffer
           num   == IF avail < mt.n THEN avail ELSE Lesser((avail - mt.n) + 1, HashBlockItems - 2)
           ready == IF avail < mt.n THEN read ELSE NormalizeHash(read, num)
           got   == GetHeads(ready, IF avail < mt.n THEN 0 ELSE num)
       IN /\ hashBlocks' = Append(hashBlocks, [heads |-> got.heads, avail |-> avail])
          /\ hashThread' = [ready EXCEPT !.hv = got.hv, !.pos = Wrap(@ + num), !.buffer = @ + num]
  /\ UNCHANGED <<mt, btThread, btBlocks, lzThread>>
-----------------------------------------------------------------------------
BtLimit == BtBlockItems - MtMaxLen * 2

(* GetMatchesSpecN_2 for one position: nothing before it has its hash; or the     *)
(* match of full length at the position before goes on (USE_LONG_MATCH_OPT), and   *)
(* its sons are those of the position `run` before; or a search.                  *)
BtFound(w, lenLimit, res) ==
  LET delta == Head(w.heads)
  IN [w EXCEPT !.heads = Tail(@), !.buffer = @ + 1, !.pos = @ + 1, !.cyc = @ + 1, !.son = res.son,
               !.lists = Append(@, res.list), !.curPos = @ + 1 + 2 * Len(res.list),
               !.processed = @ + 1, !.hashNumAvail = @ - 1,
               !.run = IF LastLen(res.list) = lenLimit THEN res.list[Len(res.list)][2] + 1 ELSE 0,
               !.failed = @ \/ delta = 0 \/ (w.pos < CyclicSize /\ delta > w.pos)]

BtPosition(w, lenLimit) ==
  LET delta == Head(w.heads)
      goesOn == /\ w.run = delta
                /\ Byte(mt.input, w.buffer + lenLimit - 1) = Byte(mt.input, w.buffer + lenLimit - 1 - delta)
  IN BtFound(w, lenLimit,
             IF goesOn
             THEN [list |-> << <<lenLimit, delta - 1>> >>, son |-> [w.son EXCEPT ![w.cyc] = w.son[Slot(w.cyc, delta)]]]
             ELSE IF delta >= Lesser(w.pos, CyclicSize)
             THEN [list |-> <<>>, son |-> [w.son EXCEPT ![w.cyc] = EmptySons[0]]]
             ELSE TreeSearch(mt.input, w.buffer, w.pos, w.cyc, lenLimit, w.son, w.pos - delta, mt.cut, mt.n - 1))

\* The positions of a hash block that one call of GetMatchesSpecN_2 is for.
BtSize(b, lenLimit) ==
  Lesser(Lesser(Len(b.heads), (b.hashNumAvail - lenLimit) + 1), CyclicSize - b.cyc)

\* Mutant: the farthest position is forgotten.
NormalizeBt_One(b, size) ==
  LET sub == (b.pos - CyclicSize) + 1
  IN IF b.pos > MaxPos - size
     THEN [b EXCEPT !.pos = @ - sub, !.son = [i \in DOMAIN @ |-> [s \in 0..1 |-> Normal(@[i][s], sub)]]]
     ELSE b

NormalizeBt(b, size) ==
  LET sub == b.pos - CyclicSize
  IN IF b.pos > MaxPos - size
     THEN [b EXCEPT !.pos = @ - sub, !.son = [i \in DOMAIN @ |-> [s \in 0..1 |-> Normal(@[i][s], sub)]]]
     ELSE b

\* One round of the loop of BtGetMatches with heads left.
BtSearch ==
  /\ btThread.curPos < BtLimit /\ btThread.heads # <<>>
  /\ LET lenLimit == Lesser(MtMaxLen, btThread.hashNumAvail)
         size == BtSize(btThread, lenLimit)
         end  == FoldLeft(LAMBDA w, i : IF w.curPos < BtLimit THEN BtPosition(w, lenLimit) ELSE w,
                          [NormalizeBt(btThread, size) EXCEPT !.run = 0], [i \in 1..size |-> i])
     IN btThread' = [end EXCEPT !.cyc = IF @ = CyclicSize THEN 0 ELSE @]
  /\ UNCHANGED <<mt, hashThread, hashBlocks, btBlocks, lzThread>>

NextBtBlock(b) ==
  [b EXCEPT !.lists = <<>>, !.curPos = 2, !.processed = 0, !.avail = b.hashNumAvail]

\* A round that needs the next hash block; at the end of the stream it ends the block.
BtTakesBlock ==
  /\ btThread.curPos < BtLimit /\ btThread.heads = <<>> /\ hashBlocks # <<>>
  /\ hashBlocks' = Tail(hashBlocks)
  /\ LET block == Head(hashBlocks)
         sum   == btThread.processed + block.avail
     IN IF block.avail >= mt.n
        THEN /\ btThread' = [btThread EXCEPT !.heads = block.heads, !.hashNumAvail = block.avail, !.avail = sum]
             /\ UNCHANGED btBlocks
        ELSE /\ Len(btBlocks) < MaxAhead
             /\ btBlocks' = Append(btBlocks, [lists |-> btThread.lists \o [i \in 1..block.avail |-> <<>>], avail |-> sum])
             /\ btThread' = NextBtBlock([btThread EXCEPT !.hashNumAvail = 0])
  /\ UNCHANGED <<mt, hashThread, lzThread>>

\* The block is full.
BtEndsBlock ==
  /\ btThread.curPos >= BtLimit /\ Len(btBlocks) < MaxAhead
  /\ btBlocks' = Append(btBlocks, [lists |-> btThread.lists, avail |-> btThread.avail])
  /\ btThread' = NextBtBlock(btThread)
  /\ UNCHANGED <<mt, hashThread, hashBlocks, lzThread>>
-----------------------------------------------------------------------------
\* MatchFinderMt_GetNextBlock_Bt, called when the block is used up.
LzTakesBlock ==
  /\ lzThread.lists = <<>> /\ btBlocks # <<>>
  /\ LET sub   == (lzThread.pos - HistorySize) - 1
         wraps == lzThread.pos >= MaxPos - BtBlockItems
         low(t) == IF wraps THEN [v \in DOMAIN t |-> Normal(t[v], sub)] ELSE t
     IN lzThread' = [lzThread EXCEPT !.lists = Head(btBlocks).lists, !.avail = Head(btBlocks).avail,
                         !.pos = IF wraps THEN @ - sub ELSE @, !.h2 = low(@), !.h3 = low(@)]
  /\ btBlocks' = Tail(btBlocks)
  /\ UNCHANGED <<mt, hashThread, hashBlocks, btThread>>

LzEnter(l, three) ==
  [l EXCEPT !.h2[H2(mt.input, l.buffer)] = l.pos,
            !.h3 = IF three THEN [@ EXCEPT ![H3(mt.input, l.buffer)] = l.pos] ELSE @]

\* MatchFinderMt_GetMatches (and MatchFinderMt2_GetMatches for n = 2): the hash
\* matches that are nearer than those of the tree go in front of them.
LzGetMatches ==
  /\ lzThread.lists # <<>> /\ lzThread.avail > 0
  /\ LET list  == Head(lzThread.lists)
         avail == lzThread.avail - 1
         mixes == mt.n > 2 /\ (list # <<>> \/ avail >= 3)
         reach == IF list # <<>> THEN list[1][2] + 1 ELSE Lesser(lzThread.pos, CyclicSize)
         nearer == IF mixes THEN Quick(mt.input, lzThread.buffer, reach, mt.n, lzThread.pos - lzThread.h2[H2(mt.input, lzThread.buffer)],
                                       lzThread.pos - lzThread.h3[H3(mt.input, lzThread.buffer)], mt.n - 1) ELSE <<>>
         entered == IF mixes THEN LzEnter(lzThread, mt.n > 3) ELSE lzThread
     IN lzThread' = [entered EXCEPT !.lists = Tail(@), !.avail = avail, !.pos = @ + 1, !.buffer = @ + 1,
                 !.result = [at |-> lzThread.buffer, list |-> nearer \o list]]
  /\ UNCHANGED <<mt, hashThread, hashBlocks, btThread, btBlocks>>

\* MatchFinderMt0_Skip, 2 and 3: one round of the loop.
LzSkip ==
  /\ lzThread.lists # <<>> /\ lzThread.avail > 0
  /\ LET enters == mt.n > 2 /\ lzThread.avail >= Lesser(mt.n - 1, 3)
     IN lzThread' = [(IF enters THEN LzEnter(lzThread, mt.n > 3) ELSE lzThread) EXCEPT !.lists = Tail(@), !.avail = @ - 1,
                 !.pos = @ + 1, !.buffer = @ + 1, !.result = [at |-> 0, list |-> <<>>]]
  /\ UNCHANGED <<mt, hashThread, hashBlocks, btThread, btBlocks>>
-----------------------------------------------------------------------------
\* MatchFinderMt_Init
MtMatchesInit ==
  /\ mt \in [n : MtKinds, input : MtInputs, cut : MtCutValues]
  /\ hashThread = [buffer |-> 0, end |-> 0, pos |-> 1, hv |-> EmptyHash]
  /\ btThread = [buffer |-> 0, pos |-> 1, cyc |-> 1, son |-> EmptySons, heads |-> <<>>, hashNumAvail |-> 0,
           lists |-> <<>>, curPos |-> 2, processed |-> 0, avail |-> 0, run |-> 0, failed |-> FALSE]
  /\ lzThread = [buffer |-> 0, pos |-> 1, h2 |-> EmptyH2, h3 |-> EmptyHash, lists |-> <<>>, avail |-> 0,
           result |-> [at |-> 0, list |-> <<>>]]
  /\ hashBlocks = <<>> /\ btBlocks = <<>>

MtOver == lzThread.buffer = Len(mt.input) /\ UNCHANGED mtVars

MtMatchesNext ==
  \/ FillHashBlock \/ BtTakesBlock \/ BtSearch \/ BtEndsBlock
  \/ LzTakesBlock \/ LzGetMatches \/ LzSkip \/ MtOver
-----------------------------------------------------------------------------
MtMatchesTypeOK ==
  /\ hashThread.buffer \in 0..Len(mt.input) /\ btThread.buffer <= hashThread.buffer /\ lzThread.buffer \in 0..Len(mt.input)
  /\ btThread.pos \in 1..MaxPos /\ lzThread.pos \in 1..MaxPos /\ btThread.cyc \in 0..HistorySize
  /\ btThread.curPos <= BtBlockItems

MtLenLimit == Lesser(MtMaxLen, Len(mt.input) - lzThread.result.at)

(* The three threads together give matches: equal bytes within the dictionary    *)
(* and the input, longer and farther from one to the next.                      *)
MtMatchesAreReal ==
  LET list == lzThread.result.list
  IN \A i \in DOMAIN list :
       LET len == list[i][1]  d == list[i][2] + 1
       IN /\ d <= Reach(lzThread.result.at) /\ len \in 2..MtLenLimit
          /\ MatchLen(mt.input, lzThread.result.at, d, MtLenLimit) >= len
          /\ len >= mt.n => MatchLen(mt.input, lzThread.result.at, d, MtLenLimit) = len
          /\ i > 1 => list[i - 1][1] < len /\ list[i - 1][2] < list[i][2]

(* With a cutValue that is never used up they miss nothing of numHashBytes or more:  *)
(* exactly the matches that are longer than all nearer ones, which is also what the   *)
(* finder with one thread gives, wherever the blocks end.  (A result is for the       *)
(* position before lzThread's; lzThread.result.at is 0 after a skip, where nothing is near.)       *)
MtNothingIsMissed ==
  mt.cut > HistorySize /\ MtLenLimit >= mt.n /\ lzThread.result.at = lzThread.buffer - 1 =>
    {lzThread.result.list[i] : i \in {j \in DOMAIN lzThread.result.list : lzThread.result.list[j][1] >= mt.n}}
      = Records(mt.input, lzThread.result.at, MtLenLimit, mt.n)

(* The positions of the three threads, normalised at different moments, never give   *)
(* a distance that the bt thread takes for damaged memory (failure_BT), and the last   *)
(* byte is reached by all.                                                         *)
NothingFails ==
  /\ ~btThread.failed
  /\ lzThread.avail = 0 \/ lzThread.buffer + lzThread.avail <= hashThread.end
  /\ lzThread.lists # <<>> => lzThread.avail >= Len(lzThread.lists)

\* All of it: the three threads together give what the finder with one thread does.
ThreadsFind == MtMatchesTypeOK /\ MtMatchesAreReal /\ MtNothingIsMissed /\ NothingFails
=============================================================================
