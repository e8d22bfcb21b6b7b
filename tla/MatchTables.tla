----------------------------- MODULE MatchTables -----------------------------
(***************************************************************************)
(* CMatchFinder (LzFind.c) as one thread uses it: a window that moves over  *)
(* the input, the tables, and for each position a search for matches        *)
(* (GetMatches) or only its entry into the tables (Skip).                   *)
(***************************************************************************)
EXTENDS MatchOps

CONSTANTS
  FinderKinds,     \* [n |-> numHashBytes, bt |-> btMode, zip |-> a Zip variant]
  Inputs,          \* sequences of bytes
  CutValues,       \* cutValue
  ReadPieces,      \* the most that the stream gives at once
  MatchMaxLen,     \* matchMaxLen
  WindowSize,      \* blockSize
  KeepBefore,      \* keepSizeBefore
  KeepAfter,       \* keepSizeAfter
  MoveAlign        \* kBlockMoveAlign

ASSUME MatchTablesAssumption ==
  /\ KeepBefore > HistorySize /\ KeepAfter >= MatchMaxLen
  /\ WindowSize >= KeepBefore + KeepAfter + MoveAlign /\ WindowSize < PosRange
  /\ \A k \in FinderKinds : k.n <= KeepAfter /\ k.n <= MatchMaxLen

VARIABLES
  finder,    \* what was chosen: kind, input, cutValue, pieces of the stream
  mf,        \* the fields of CMatchFinder; buffer, base and end are offsets in the input
  matches    \* the last result, <<length, distance - 1>>, and where it was asked for

mfVars == <<finder, mf, matches>>
src    == finder.input
-----------------------------------------------------------------------------
Avail(m) == Wrap(m.streamPos - m.pos)

\* One ISeqInStream_Read of MatchFinder_ReadBlock; `more` is its loop.
ReadOnce(r) ==
  LET size == Lesser(Lesser((r.m.base + WindowSize) - r.m.end, Len(src) - r.m.end), finder.piece)
      full == r.m.base + WindowSize = r.m.end
  IN IF ~r.more THEN r
     ELSE IF full THEN [r EXCEPT !.more = FALSE]
     ELSE IF size = 0 THEN [r EXCEPT !.more = FALSE, !.m.streamEndWasReached = TRUE]
     ELSE [m |-> [r.m EXCEPT !.end = @ + size, !.streamPos = Wrap(@ + size)],
           more |-> Avail(r.m) + size <= KeepAfter]

ReadBlock(m) ==
  FoldLeft(LAMBDA r, i : ReadOnce(r), [m |-> m, more |-> ~m.streamEndWasReached], [i \in 1..(WindowSize + 1) |-> i]).m

NeedMove(m) == ~m.streamEndWasReached /\ (m.base + WindowSize) - m.buffer <= KeepAfter

MoveBlock(m) ==
  LET offset == (m.buffer - m.base) - KeepBefore
  IN [m EXCEPT !.base = @ + (offset - (offset % MoveAlign))]

\* MatchFinder_SetLimits: how many positions may pass before the next CheckLimits.
SetLimits(m) ==
  LET k     == Avail(m)
      wrap  == IF m.pos = 0 THEN PosRange - 1 ELSE PosRange - m.pos
      ring  == CyclicSize - m.cyclicBufferPos
      bytes == IF k > KeepAfter THEN k - KeepAfter
               ELSE IF k >= MatchMaxLen THEN (k - MatchMaxLen) + 1
               ELSE Lesser(k, 1)
  IN [m EXCEPT !.lenLimit = Lesser(k, MatchMaxLen),
               !.posLimit = Wrap(m.pos + Lesser(Lesser(wrap, ring), bytes))]

\* The references of all tables, reduced.
NormalizeTables(m, sub) ==
  [m EXCEPT !.pos = Wrap(@ - sub), !.streamPos = Wrap(@ - sub),
            !.h2 = [h \in DOMAIN @ |-> Normal(@[h], sub)],
            !.h3 = [h \in DOMAIN @ |-> Normal(@[h], sub)],
            !.hv = [h \in DOMAIN @ |-> Normal(@[h], sub)],
            !.son = [i \in DOMAIN @ |-> IF finder.kind.bt THEN [b \in 0..1 |-> Normal(@[i][b], sub)]
                                        ELSE Normal(@[i], sub)]]

\* Mutant: the farthest position is forgotten.
CheckLimits_One(m) ==
  LET moved  == IF NeedMove(m) THEN MoveBlock(m) ELSE m
      filled == IF Avail(m) = KeepAfter THEN ReadBlock(moved) ELSE m
      normal == IF filled.pos = 0 /\ Avail(filled) >= finder.kind.n
                THEN NormalizeTables(filled, Wrap(filled.pos - HistorySize)) ELSE filled
  IN SetLimits([normal EXCEPT !.cyclicBufferPos = IF @ = CyclicSize THEN 0 ELSE @])

CheckLimits(m) ==
  LET moved  == IF NeedMove(m) THEN MoveBlock(m) ELSE m
      filled == IF Avail(m) = KeepAfter THEN ReadBlock(moved) ELSE m
      normal == IF filled.pos = 0 /\ Avail(filled) >= finder.kind.n
                THEN NormalizeTables(filled, Wrap((filled.pos - HistorySize) - 1)) ELSE filled
  IN SetLimits([normal EXCEPT !.cyclicBufferPos = IF @ = CyclicSize THEN 0 ELSE @])

\* MOVE_POS
MovePos(m) ==
  LET next == [m EXCEPT !.cyclicBufferPos = @ + 1, !.buffer = @ + 1, !.pos = Wrap(@ + 1)]
  IN IF next.pos = next.posLimit THEN CheckLimits(next) ELSE next
-----------------------------------------------------------------------------
\* The tables hold the current position from now on (the assignments to hash[]).
Enter(m) ==
  LET n == finder.kind.n
      fixed == ~finder.kind.zip
  IN [m EXCEPT !.h2 = IF fixed /\ n >= 3 THEN [@ EXCEPT ![H2(src, m.buffer)] = m.pos] ELSE @,
               !.h3 = IF fixed /\ n >= 4 THEN [@ EXCEPT ![H3(src, m.buffer)] = m.pos] ELSE @,
               !.hv[HV(src, m.buffer, n, finder.kind.zip)] = m.pos]

\* The tree or the chain, entered at the last position with the same hash; the
\* chain needs no search when no (longer) match is wanted.
Search(m, max, wanted) ==
  LET head == m.hv[HV(src, m.buffer, finder.kind.n, finder.kind.zip)]
  IN IF finder.kind.bt
     THEN TreeSearch(src, m.buffer, m.pos, m.cyclicBufferPos, m.lenLimit, m.son, head, finder.cut, max)
     ELSE ChainSearch(src, m.buffer, m.pos, m.cyclicBufferPos, m.lenLimit, m.son, head,
                      IF wanted THEN finder.cut ELSE 0, max)

\* Bt2_ .. Hc5_MatchFinder_GetMatches and the Zip variants: what the fixed tables give
\* goes in front of what the search gives, if that is longer.
QuickOf(m) ==
  LET n == finder.kind.n
  IN IF n = 2 \/ finder.kind.zip THEN <<>>
     ELSE Quick(src, m.buffer, Lesser(m.pos, CyclicSize), n, Wrap(m.pos - m.h2[H2(src, m.buffer)]),
                Wrap(m.pos - m.h3[H3(src, m.buffer)]), m.lenLimit)

GetMatchesOf(m) ==
  LET n == finder.kind.n
      Entered(quick, all, found) ==
        [m |-> MovePos([Enter(m) EXCEPT !.son = found.son]), list |-> IF all THEN quick ELSE quick \o found.list]
      With(quick, max) ==
        Entered(quick, max = m.lenLimit, Search(m, IF max > n - 1 THEN max ELSE n - 1, max # m.lenLimit))
      From(quick) == With(quick, LastLen(quick))
  IN IF m.lenLimit < n THEN [m |-> MovePos(m), list |-> <<>>] ELSE From(QuickOf(m))

\* Bt2_ .. Hc5_MatchFinder_Skip: one round of the loop.
SkipOf(m) ==
  IF m.lenLimit < finder.kind.n THEN MovePos(m)
  ELSE MovePos([Enter(m) EXCEPT !.son = Search(m, 0, FALSE).son])
-----------------------------------------------------------------------------
\* MatchFinder_Init
Fresh == [buffer |-> 0, base |-> 0, end |-> 0, streamEndWasReached |-> FALSE, pos |-> 1, streamPos |-> 1,
          cyclicBufferPos |-> 1, lenLimit |-> 0, posLimit |-> 0,
          h2 |-> EmptyH2, h3 |-> EmptyHash, hv |-> EmptyHash,
          son |-> IF finder.kind.bt THEN EmptySons ELSE EmptyChain]

NoMatches == [at |-> 0, lenLimit |-> 0, list |-> <<>>]

MfInit ==
  /\ finder \in [kind : FinderKinds, input : Inputs, cut : CutValues, piece : ReadPieces]
  /\ mf = SetLimits(ReadBlock(Fresh))
  /\ matches = NoMatches

\* MatchFinder_GetNumAvailableBytes is asked first; the encoder stops at 0.
Taken(r) == mf' = r.m /\ matches' = [at |-> mf.buffer, lenLimit |-> mf.lenLimit, list |-> r.list]

GetMatches == Avail(mf) > 0 /\ Taken(GetMatchesOf(mf)) /\ UNCHANGED finder

Skip(num) ==
  /\ num <= Avail(mf)
  /\ mf' = FoldLeft(LAMBDA m, i : SkipOf(m), mf, [i \in 1..num |-> i])
  /\ matches' = NoMatches
  /\ UNCHANGED finder

InputOver == Avail(mf) = 0 /\ UNCHANGED mfVars

MfNext == GetMatches \/ (\E num \in 1..2 : Skip(num)) \/ InputOver
-----------------------------------------------------------------------------
MfTypeOK ==
  /\ mf.pos \in 0..(PosRange - 1) /\ mf.lenLimit \in 0..MatchMaxLen
  /\ mf.cyclicBufferPos \in 0..HistorySize
  /\ mf.buffer \in 0..Len(src) /\ mf.end \in mf.buffer..Len(src)

(* Each match is one: within the dictionary and the input, equal bytes, longer  *)
(* and farther than the one before it.                                        *)
MatchesAreReal ==
  \A i \in DOMAIN matches.list :
    LET len == matches.list[i][1]  d == matches.list[i][2] + 1
    IN /\ d <= Reach(matches.at)
       /\ len \in 2..matches.lenLimit
       /\ len = MatchLen(src, matches.at, d, matches.lenLimit)
       /\ i > 1 => matches.list[i - 1][1] < len /\ matches.list[i - 1][2] < matches.list[i][2]

(* With a cutValue that is never used up nothing is missed: of the matches of at  *)
(* least numHashBytes bytes exactly those are reported that are longer than all   *)
(* nearer ones, through all moves of the window and all normalisations.          *)
NothingIsMissed ==
  finder.cut > HistorySize /\ matches.lenLimit >= finder.kind.n =>
    {matches.list[i] : i \in {j \in DOMAIN matches.list : matches.list[j][1] >= finder.kind.n}}
      = Records(src, matches.at, matches.lenLimit, finder.kind.n)

(* To skip a position leaves the tables as to search it: what is found later      *)
(* does not depend on what was asked before.                                    *)
SkipLeavesTheSame == Avail(mf) > 0 => SkipOf(mf) = GetMatchesOf(mf).m

(* The bytes that are looked at are in the window, in front of the current one as   *)
(* behind it, and lenLimit says truly how many there are.                         *)
LooksInsideWindow ==
  /\ mf.base <= mf.buffer - Reach(mf.buffer)
  /\ mf.buffer + mf.lenLimit <= mf.end /\ mf.end <= mf.base + WindowSize
  /\ Avail(mf) = mf.end - mf.buffer
  /\ mf.lenLimit = MatchMaxLen \/ mf.end = Len(src)

\* All of it: what CMatchFinder is for, whatever is asked of it in which order.
FinderFinds == MfTypeOK /\ MatchesAreReal /\ NothingIsMissed /\ SkipLeavesTheSame /\ LooksInsideWindow
=============================================================================
