------------------------------ MODULE MCEncoders ------------------------------
(* Model checking of the encoders: a behaviour is about the properties that a   *)
(* caller sets, about the chunks of the LZMA2 encoder, about the range coder    *)
(* and its decoder, about the symbols of LZMA (what the two sides take them for,    *)
(* and how the encoder chooses them), or about the matches that the finder with   *)
(* one thread (tables) or with three (mtmatches) gives.                          *)
EXTENDS EncProps, Lzma2Enc, RangeCoder, LzmaCompat, MatchTables, MtMatches, Optimum

VARIABLE part
callVars  == <<propsVars, encVars, rcVars>>
matchVars == <<mfVars, mtVars>>
mcVars    == <<part, callVars, compatVars, matchVars, parserVars>>
-----------------------------------------------------------------------------
(* The properties; -1 is "not set".  <<lc, lp, pb>>: not set, the largest, and *)
(* more than LZMA2 allows.  Sizes are in units of 2^8 bytes.                   *)
LzGiven(levels, dicts, threads, literals) ==
  {[level |-> l, dict |-> d, reduce |-> r, threads |-> t, lc |-> c[1], lp |-> c[2], pb |-> c[3], algo |-> -1] :
     l \in levels, d \in dicts, r \in {0, 5000, 12289, Unset}, t \in threads, c \in literals}

Blocked(lzs, sizes, blockThreads, totals) ==
  {[lz |-> lz, block |-> b, blockThreads |-> bt, reduced |-> -1, total |-> tt] :
     lz \in lzs, b \in sizes, bt \in blockThreads, tt \in totals}

Sizes  == {0, 4096, 5000, Unset}
NotSet == {<<-1, -1, -1>>}

MCLzma2Given ==
  Blocked(LzGiven({-1, 9}, {0, 1, 13000, 15728641}, {-1, 1, 2}, NotSet), Sizes, {-1, 3, 9}, {-1, 1, 5})
  \cup Blocked(LzGiven({-1}, {0, 8193}, {-1}, {<<0, 4, 4>>, <<3, 2, 0>>}), {0}, {-1}, {-1})

MCXzGiven ==
  {[l2 |-> l2, block |-> b, blockThreads |-> bt, reduced |-> -1, total |-> tt, reduce |-> l2.lz.reduce] :
     l2 \in Blocked(LzGiven({-1}, {0, 13000}, {-1, 2}, NotSet), {0, 5000, Unset}, {-1, 3}, {-1}),
     b \in Sizes, bt \in {-1, 9}, tt \in {-1, 1, 5}}
-----------------------------------------------------------------------------
(* Symbols: any small byte, match and repeated match, at first and after 24 bytes, *)
(* so that a distance may be in each group of slots.                            *)
MCHistories == {<<>>, <<0,1,2,3,3,1,0,2,1,1,0,3,2,0,0,1,3,3,2,1,0,1,2,2>>}
MCLitProps  == {<<0, 0, 0>>, <<1, 1, 2>>}

(* Matches: all short inputs of two bytes, and long ones that pass the end of the  *)
(* dictionary, of the window and of the positions several times.                *)
Kind(n, bt, zip) == [n |-> n, bt |-> bt, zip |-> zip]
MCKinds == {Kind(n, TRUE, FALSE) : n \in 2..5} \cup {Kind(n, FALSE, FALSE) : n \in 4..5}
           \cup {Kind(3, bt, TRUE) : bt \in BOOLEAN}
LongInputs == {
  <<0,1,0,0,1,0,1,0,0,1,1,0,1,0,0,1,0,1,0,0,1,0,0,1,0,0,1,0,0,1,1,1,1,0,1,0,0>>,
  <<0,0,0,0,0,1,0,0,0,0,0,1,0,0,0,0,0,0,0,0,0,0,0,0,1,0,0,0,0,0,0,0,0,1,0,0,0>>,
  [i \in 1..37 |-> (i \div 2) % 2]}
MCInputs   == UNION {[1..n -> 0..1] : n \in {0, 3, 7}} \cup LongInputs
MCMtInputs == [1..7 -> 0..1] \cup {<<>>, <<1>>, <<0, 1, 0>>} \cup LongInputs

\* For the parser: a way may end in three symbols of one cell, or in the middle of
\* it, and a match may be longer than what is left of opt.
MCParseInputs == UNION {[1..n -> 0..1] : n \in {1, 2, 7}} \cup LongInputs \cup {
  <<1,0,2,2,0,2,0,1,0,1,0,1,1,0,1,1,1,1,1,0,0,0,0,0,0,0>>,
  <<0,1,0,1,0,0,1,0,0,1,0,0,2,1,2,1,2,1,2,2,2,1,0,2,2,2>>,
  <<1,1,1,1,0,1,1,1,0,0,1,1,0,0,0,0,0,1,0,0,0,0,0,0,0,0>>,
  <<0,1,1,1,0,1,0,0,0,1,1,1,1,1,1,1,1,1,1,1,1,1,1,1,1,1>>,
  <<0,1,2,0,1,1,0,2,1,0,2,1,1,2,1,1,1,1,0,1,0,1,0,1,2,1>>}
MCFarBits     == <<2, 3, 4, 5>>
-----------------------------------------------------------------------------
\* Those that are not used.
NoCall   == given = [kind |-> "none"] /\ enc = NoProps /\ lzmaEnc = NoProps
NoChunks == EncInit /\ in.size = 0 /\ in.blockSize = Solid /\ in.outLim = 0 /\ ~in.stream /\ ~in.buf /\ in.finished
NoBits   == RcInit /\ stream.room = CHOOSE n \in Rooms : TRUE

NoSymbols == sender = Start(<<0, 0, 0>>, <<>>) /\ CompatInit
NoTables == finder = [kind |-> Kind(2, TRUE, FALSE), input |-> <<>>, cut |-> 1, piece |-> 3] /\ MfInit
NoThreads == mt = [n |-> 2, input |-> <<>>, cut |-> 1] /\ MtMatchesInit
NoParser  == job = [input |-> <<0>>, fast |-> FALSE, seed |-> 2, fastBytes |-> 3, least |-> 2] /\ ParserInit

Init == \/ part = "properties" /\ PropsInit /\ NoChunks /\ NoBits /\ NoSymbols /\ NoTables /\ NoThreads /\ NoParser
        \/ part = "chunks" /\ EncInit /\ NoCall /\ NoBits /\ NoSymbols /\ NoTables /\ NoThreads /\ NoParser
        \/ part = "bits" /\ RcInit /\ NoCall /\ NoChunks /\ NoSymbols /\ NoTables /\ NoThreads /\ NoParser
        \/ part = "symbols" /\ CompatInit /\ NoCall /\ NoChunks /\ NoBits /\ NoTables /\ NoThreads /\ NoParser
        \/ part = "tables" /\ MfInit /\ NoCall /\ NoChunks /\ NoBits /\ NoSymbols /\ NoThreads /\ NoParser
        \/ part = "mtmatches" /\ MtMatchesInit /\ NoCall /\ NoChunks /\ NoBits /\ NoSymbols /\ NoTables /\ NoParser
        \/ part = "parser" /\ ParserInit /\ NoCall /\ NoChunks /\ NoBits /\ NoSymbols /\ NoTables /\ NoThreads

Next ==
  \/ part = "properties" /\ PropsNext /\ UNCHANGED <<part, encVars, rcVars, compatVars, mfVars, mtVars, parserVars>>
  \/ part = "chunks" /\ EncNext /\ UNCHANGED <<part, propsVars, rcVars, compatVars, mfVars, mtVars, parserVars>>
  \/ part = "bits" /\ RcNext /\ UNCHANGED <<part, propsVars, encVars, compatVars, mfVars, mtVars, parserVars>>
  \/ part = "symbols" /\ CompatNext /\ UNCHANGED <<part, propsVars, encVars, rcVars, mfVars, mtVars, parserVars>>
  \/ part = "tables" /\ MfNext /\ UNCHANGED <<part, propsVars, encVars, rcVars, compatVars, mtVars, parserVars>>
  \/ part = "mtmatches" /\ MtMatchesNext /\ UNCHANGED <<part, propsVars, encVars, rcVars, compatVars, mfVars, parserVars>>
  \/ part = "parser" /\ ParserNext /\ UNCHANGED <<part, propsVars, encVars, rcVars, compatVars, mfVars, mtVars>>

Chunks == part = "chunks" /\ (StartBlock \/ Subblock \/ EndBlock)
          /\ UNCHANGED <<part, propsVars, rcVars, compatVars, matchVars, parserVars>>
Spec   == Init /\ [][Next]_mcVars /\ WF_mcVars(Chunks)

\* The matches of a finder are those of the input, with one thread (LzFind.c) and
\* with three (LzFindMt.c).
MatchesFound == FinderFinds /\ ThreadsFind

\* The encoder comes to an end (Lzma2Enc_EncodeMt1).
ChunksEnd == part = "chunks" => EncoderEnds
=============================================================================
