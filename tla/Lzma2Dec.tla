------------------------------ MODULE Lzma2Dec ------------------------------
(***************************************************************************)
(* The LZMA2 decoder of Lzma2Dec.c: the state machine that reads chunk     *)
(* headers byte by byte, copies uncompressed chunks and gives the bytes of *)
(* LZMA chunks to the LZMA decoder, for input and output in pieces.  The   *)
(* LZMA decoder is what LzmaDec shows of it.                               *)
(***************************************************************************)
EXTENDS Lzma2Format, DecoderCalls

CONSTANTS
  BufSize   \* dicBufSize

ASSUME Lzma2Assumption == BufSize \in Nat /\ BufSize >= DicSize

VARIABLES
  p,       \* CLzma2Dec; `chunk' counts the headers that were begun
  d2,       \* its CLzmaDec; `inChunk', `outChunk' count the bytes of the chunk
  pc2,      \* where the running call is
  call2,    \* arguments and locals of DecodeToBuf and DecodeToDic
  fed2, out2, last2

lzma2Vars == <<chunks, p, d2, pc2, call2, fed2, out2, last2>>

FreshDec    == [dic |-> [k \in 0 .. BufSize - 1 |-> 0], dicPos |-> 0, processedPos |-> 0,
                checkDicSize |-> 0, sinceReset |-> 0, inChunk |-> 0, outChunk |-> 0,
                stateReady |-> FALSE, stateWanted |-> TRUE]

Lzma2Start ==
  /\ p = FreshParser /\ d2 = FreshDec /\ pc2 = "idle" /\ call2 = NoCall
  /\ fed2 = 0 /\ out2 = <<>>
  /\ last2 = [res |-> "ok", status |-> "none", given |-> 0, taken |-> 0, left |-> 0, finish |-> "any"]
Lzma2Init == chunks \in ChunkSeqs /\ Lzma2Start

Lzma2Offered(m) == [k \in 1 .. m |-> fed2 + k]
-----------------------------------------------------------------------------
(* The calls: Lzma2Dec_DecodeToBuf, and Lzma2Decode with dest as the       *)
(* dictionary (here of the size of the dictionary).                        *)

Lzma2DecodeToBuf(m, n, finish) ==
  /\ pc2 = "idle" /\ last2.res = "ok" /\ m <= NumChunkBytes - fed2
  /\ pc2' = "buf"
  /\ call2' = [NoCall EXCEPT !.op = "buf", !.in = Lzma2Offered(m), !.given = m, !.outSize = n,
                            !.finish = finish]
  /\ UNCHANGED <<chunks, p, d2, fed2, out2, last2>>

Lzma2Decode(m, finish) ==
  /\ pc2 = "idle" /\ fed2 = 0 /\ last2.status = "none" /\ m <= NumChunkBytes
  /\ pc2' = "loop"
  /\ call2' = [NoCall EXCEPT !.op = "one", !.in = Lzma2Offered(m), !.given = m, !.outSize = BufSize,
                            !.dicLimit = BufSize, !.curFinish = finish, !.finish = finish]
  /\ UNCHANGED <<chunks, p, d2, fed2, out2, last2>>

\* Mutant: the output is copied from where the first round began.
Lzma2BufRound_StaleFrom ==
  /\ pc2 = "buf"
  /\ LET pos  == IF d2.dicPos = BufSize THEN 0 ELSE d2.dicPos
         fits == BufSize - pos >= call2.outSize
     IN /\ d2' = [d2 EXCEPT !.dicPos = pos]
        /\ call2' = [call2 EXCEPT !.dicLimit = IF fits THEN pos + call2.outSize ELSE BufSize,
                                !.curFinish = IF fits THEN call2.finish ELSE "any"]
  /\ pc2' = "loop"
  /\ UNCHANGED <<chunks, p, fed2, out2, last2>>

Lzma2BufRound ==
  /\ pc2 = "buf"
  /\ LET pos  == IF d2.dicPos = BufSize THEN 0 ELSE d2.dicPos
         fits == BufSize - pos >= call2.outSize
     IN /\ d2' = [d2 EXCEPT !.dicPos = pos]
        /\ call2' = [call2 EXCEPT !.dicLimit = IF fits THEN pos + call2.outSize ELSE BufSize,
                                !.curFinish = IF fits THEN call2.finish ELSE "any", !.from = pos]
  /\ pc2' = "loop"
  /\ UNCHANGED <<chunks, p, fed2, out2, last2>>

\* DecodeToDic returns to the loop of DecodeToBuf.
Lzma2DicReturned ==
  /\ pc2 = "ret"
  /\ LET n    == d2.dicPos - call2.from
         left == call2.outSize - n
         more == call2.op = "buf" /\ call2.res = "ok" /\ n > 0 /\ left > 0
         res  == IF call2.op = "one" /\ call2.res = "ok" /\ call2.status = "needs_input"
                 THEN "input_eof" ELSE call2.res
     IN /\ out2' = out2 \o [k \in 1 .. n |-> d2.dic[call2.from + k - 1]]
        /\ call2' = IF more THEN [call2 EXCEPT !.outSize = left] ELSE NoCall
        /\ pc2' = IF more THEN "buf" ELSE IF call2.op = "one" \/ res # "ok" THEN "over" ELSE "idle"
        /\ IF more THEN UNCHANGED <<fed2, last2>>
           ELSE /\ fed2' = fed2 + call2.given - Len(call2.in)
                /\ last2' = [res |-> res, status |-> call2.status, given |-> call2.given,
                            taken |-> call2.given - Len(call2.in), left |-> left, finish |-> call2.finish]
  /\ UNCHANGED <<chunks, p, d2>>
-----------------------------------------------------------------------------
(* Lzma2Dec_DecodeToDic, one round of its loop at a time.                  *)

Lzma2Return(status) ==
  /\ pc2' = "ret" /\ call2' = [call2 EXCEPT !.res = "ok", !.status = status]
  /\ UNCHANGED <<chunks, p, d2, fed2, out2, last2>>

\* The loop ends: the data is bad.
ErrorData(q, dec, in) ==
  /\ pc2' = "ret" /\ p' = [q EXCEPT !.state = "error"] /\ d2' = dec
  /\ call2' = [call2 EXCEPT !.in = in, !.res = "data", !.status = "none"]
  /\ UNCHANGED <<chunks, fed2, out2, last2>>

GoOn(q, dec, in) ==
  /\ p' = q /\ d2' = dec /\ call2' = [call2 EXCEPT !.in = in]
  /\ UNCHANGED <<chunks, pc2, fed2, out2, last2>>

AtLimit  == d2.dicPos = call2.dicLimit
Lzma2Rest(n)  == SubSeq(call2.in, n + 1, Len(call2.in))
InData   == p.state \in {"data", "dataCont"}
Working  == pc2 = "loop" /\ p.state \notin {"finished", "error"} /\ ~(AtLimit /\ call2.curFinish = "any")

WasError == pc2 = "loop" /\ p.state = "error" /\ ErrorData(p, d2, call2.in)

Finished == pc2 = "loop" /\ p.state = "finished" /\ Lzma2Return("finished_with_mark")

Lzma2LimitReached ==
  /\ pc2 = "loop" /\ p.state \notin {"finished", "error"} /\ AtLimit /\ call2.curFinish = "any"
  /\ Lzma2Return("not_finished")

NoInput ==
  /\ Working /\ call2.in = <<>> /\ (InHeader(p) \/ Copies(p))
  /\ Lzma2Return("needs_input")

ReadHeader ==
  /\ Working /\ InHeader(p) /\ call2.in # <<>>
  /\ LET q == UpdateState(p, At(Head(call2.in)))
     IN IF AtLimit /\ q.state # "finished" THEN ErrorData(q, d2, Tail(call2.in))
        ELSE GoOn(q, IF p.state = "prop" THEN [d2 EXCEPT !.stateReady = FALSE] ELSE d2, Tail(call2.in))


\* LzmaDec_InitDicAndState
InitDicAndState(dec, initDic, initState) ==
  [dec EXCEPT !.processedPos = IF initDic THEN 0 ELSE @,
              !.checkDicSize = IF initDic THEN 0 ELSE @,
              !.sinceReset   = IF initDic THEN 0 ELSE @,
              !.stateWanted  = initDic \/ initState,
              !.inChunk = 0, !.outChunk = 0]

\* n more bytes of output are in the dictionary.
Advance(dec, n) ==
  [dec EXCEPT !.dicPos = @ + n, !.processedPos = @ + n, !.sinceReset = @ + n,
              !.checkDicSize = IF @ = 0 /\ DicSize - dec.processedPos <= n THEN DicSize ELSE @]

Written(dic, pos, bytes) ==
  [k \in DOMAIN dic |-> IF k \in pos .. pos + Len(bytes) - 1 THEN bytes[k - pos + 1] ELSE dic[k]]

\* LzmaDec_UpdateWithUncompressed
CopyChunk ==
  /\ Working /\ InData /\ Copies(p) /\ call2.in # <<>>
  /\ LET dec  == IF p.state = "data" THEN InitDicAndState(d2, p.control = 1, FALSE) ELSE d2
         room == Smaller(call2.dicLimit - d2.dicPos, p.unpackSize)
         n    == Smaller(Len(call2.in), room)
         left == p.unpackSize - n
     IN IF n = 0 THEN ErrorData(p, dec, call2.in)
        ELSE GoOn([p EXCEPT !.unpackSize = left, !.state = IF left = 0 THEN "control" ELSE "dataCont"],
                  Advance([dec EXCEPT !.dic = Written(@, dec.dicPos, SubSeq(call2.in, 1, n))], n),
                  Lzma2Rest(n))
-----------------------------------------------------------------------------
(* What LzmaDec_DecodeToDic does with inCur bytes of an LZMA chunk and     *)
(* room for outCur bytes.                                                  *)

Chunk   == chunks[p.chunk]
Need(o) == IF o = 0 THEN RcInit ELSE Chunk.need[o]

\* Results: [used, made, res, status].  At the limit, with "end", what follows
\* the last symbol must be the end of the data; if it is not, the decoder reads
\* on until it sees that, or asks for more.
LzmaResults(dec, inCur, outCur, finish) ==
  LET have    == dec.inChunk + inCur
      target  == dec.outChunk + outCur
      o       == Max({dec.outChunk} \cup {x \in dec.outChunk .. target : Need(x) <= have})
      made    == o - dec.outChunk
      used    == IF Need(o) > dec.inChunk THEN Need(o) - dec.inChunk ELSE 0
      Result(n, res, status) == [used |-> n, made |-> made, res |-> res, status |-> status]
  IN IF Chunk.first # 0 /\ have > 0      THEN {[used |-> Smaller(inCur, RcInit), made |-> 0, res |-> "data", status |-> "none"]}
     ELSE IF o < target \/ have < Need(o)  THEN {Result(inCur, "ok", "needs_input")}
     ELSE IF o = Len(Chunk.need)      THEN {Result(used, "ok", "maybe_finished")}
     ELSE IF finish = "any"           THEN {Result(used, "ok", "not_finished")}
     ELSE {Result(n, "data", "not_finished") : n \in used .. inCur} \cup {Result(inCur, "ok", "needs_input")}

\* The chunk must end where its output does.
ChunkFinish(room) == IF room >= p.unpackSize THEN "end" ELSE "any"

LzmaChunk ==
  /\ Working /\ InData /\ ~Copies(p)
  /\ LET fresh  == IF p.state = "data" THEN InitDicAndState(d2, p.control >= 224, p.control >= 160) ELSE d2
         dec    == [fresh EXCEPT !.stateReady = @ \/ fresh.stateWanted]
         room   == call2.dicLimit - d2.dicPos
         outCur == Smaller(room, p.unpackSize)
         finish == ChunkFinish(room)
         inCur  == Smaller(Len(call2.in), p.packSize)
     IN \E r \in LzmaResults(dec, inCur, outCur, finish) :
          LET q     == [p EXCEPT !.state = "dataCont", !.packSize = @ - r.used, !.unpackSize = @ - r.made]
              bytes == [k \in 1 .. r.made |-> 1000 * p.chunk + dec.outChunk + k]
              dec1  == [Advance([dec EXCEPT !.dic = Written(@, dec.dicPos, bytes)], r.made)
                          EXCEPT !.inChunk = @ + r.used, !.outChunk = @ + r.made]
              stuck == r.used = 0 /\ r.made = 0
          IN IF r.res # "ok" THEN ErrorData(q, dec1, Lzma2Rest(r.used))
             ELSE IF r.status = "needs_input"
             THEN IF q.packSize = 0 THEN ErrorData(q, dec1, Lzma2Rest(r.used))
                  ELSE /\ pc2' = "ret" /\ p' = q /\ d2' = dec1
                       /\ call2' = [call2 EXCEPT !.in = Lzma2Rest(r.used), !.res = "ok", !.status = "needs_input"]
                       /\ UNCHANGED <<chunks, fed2, out2, last2>>
             ELSE IF stuck
             THEN IF r.status # "maybe_finished" \/ q.unpackSize # 0 \/ q.packSize # 0
                  THEN ErrorData(q, dec1, call2.in)
                  ELSE GoOn([q EXCEPT !.state = "control"], dec1, call2.in)
             ELSE GoOn(q, dec1, Lzma2Rest(r.used))
-----------------------------------------------------------------------------
Lzma2Step ==
  \/ Lzma2BufRound \/ Lzma2DicReturned \/ WasError \/ Finished \/ Lzma2LimitReached \/ NoInput \/ ReadHeader
  \/ CopyChunk \/ LzmaChunk

\* The caller gives up after an error; Lzma2Decode frees its decoder.
Lzma2Done == pc2 = "over" /\ UNCHANGED lzma2Vars

Lzma2Next ==
  \/ \E m \in InSizes, n \in OutSizes, finish \in {"any", "end"} :
        Lzma2DecodeToBuf(m, n, finish) \/ Lzma2Decode(m, finish)
  \/ Lzma2Step \/ Lzma2Done
Lzma2Spec == Lzma2Init /\ [][Lzma2Next]_lzma2Vars

\* A caller that goes on offering input, while there is some, and room.
Lzma2DrivenNext ==
  \/ /\ last2.status # "finished_with_mark"
     /\ \E m \in InSizes, n \in OutSizes \ {0} : (m = 0 => fed2 = NumChunkBytes) /\ Lzma2DecodeToBuf(m, n, "any")
  \/ Lzma2Step
Lzma2DrivenSpec == Lzma2Init /\ [][Lzma2DrivenNext]_lzma2Vars /\ WF_lzma2Vars(Lzma2DrivenNext)
-----------------------------------------------------------------------------
(* Properties                                                              *)

Lzma2AtRest == pc2 \in {"idle", "over"}

\* Type correctness of the decoder (CLzma2Dec, Lzma2Dec.h).
Lzma2TypeOK ==
  /\ chunks \in ChunkSeqs /\ pc2 \in {"idle", "buf", "loop", "ret", "over"}
  /\ p.state \in {"control", "unpack0", "unpack1", "pack0", "pack1", "prop", "data", "dataCont",
                  "finished", "error"}
  /\ p.control \in 0 .. 255 /\ p.needInitLevel \in {0, 192, 224}
  /\ p.unpackSize \in 0 .. 2 ^ 21 /\ p.packSize \in 0 .. 2 ^ 16
  /\ d2.dicPos \in 0 .. BufSize /\ fed2 \in 0 .. NumChunkBytes

\* However input and room are cut and wherever the dictionary wraps, the bytes
\* handed out are those of the chunks.
OutputIsExpected == IsPrefix(out2, Expected(chunks))

\* All chunks that precede the one at work came out in full, and the bytes
\* consumed are those of their headers and data and of the begun one
\* (*srcLen of DecodeToDic).
Lzma2InputAccounted ==
  Lzma2AtRest /\ p.state \in {"data", "dataCont"} =>
    LET c == Chunk
    IN /\ fed2 = DataStart(chunks, p.chunk) + DataBytes(c) - (IF IsLzma(c) THEN p.packSize ELSE p.unpackSize)
       /\ p.unpackSize + Len(out2) = Len(FlattenSeq([k \in 1 .. p.chunk |-> Output(chunks, k)]))

\* The or-assignments of a chunk header find zero bits.
HeaderStartsClean == p.state = "control" => p.unpackSize = 0

\* No LZMA chunk is decoded before properties were given, nor with
\* probabilities that were set up for other properties (needInitLevel).
StateIsInitialised ==
  p.state = "dataCont" /\ ~Copies(p) => p.propSet /\ d2.stateReady

\* checkDicSize and processedPos count from the last reset of the dictionary,
\* through copied and decoded chunks alike (comment above LzmaDec_DecodeReal2).
Lzma2CheckDicSizeInStep ==
  IF d2.sinceReset < DicSize THEN d2.checkDicSize = 0 /\ d2.processedPos = d2.sinceReset
  ELSE d2.checkDicSize = DicSize /\ d2.processedPos = d2.sinceReset

\* A stream is refused only for a chunk that may not come where it is or whose
\* sizes are wrong, or when the caller said that it ends where it does not.
Lzma2RefusedWhereBad ==
  last2.res = "data" => \/ ~Sound(chunks)
                        \/ last2.finish = "end" /\ last2.left = 0 /\ Len(out2) <= Len(Expected(chunks))

\* It is not accepted when it is bad, and then everything was handed out.
AcceptedWhereSound ==
  last2.status = "finished_with_mark" => Sound(chunks) /\ out2 = Expected(chunks) /\ fed2 = NumChunkBytes

\* What a status tells the caller.
Lzma2StatusIsTrue ==
  Lzma2AtRest => /\ last2.status = "needs_input" => last2.taken = last2.given
                 /\ last2.status = "not_finished" => last2.left = 0

\* A caller that goes on gets the end of a sound stream, the error of another.
Lzma2EverythingDecoded ==
  <>(IF Sound(chunks) THEN last2.status = "finished_with_mark" ELSE last2.res = "data")

\* Exactly the sequences of chunks that the format allows are accepted, and none
\* is decoded with properties or a state that it does not have (needInitLevel).
Lzma2AcceptsSound == Lzma2RefusedWhereBad /\ AcceptedWhereSound /\ StateIsInitialised

\* Lzma2Dec_DecodeToDic and _DecodeToBuf hand out what sound chunks stand for,
\* refuse others and account for every byte, however input and room are cut.
Lzma2Decodes ==
  /\ Lzma2TypeOK /\ OutputIsExpected /\ Lzma2InputAccounted
  /\ HeaderStartsClean /\ Lzma2CheckDicSizeInStep /\ Lzma2StatusIsTrue /\ Lzma2AcceptsSound
-----------------------------------------------------------------------------
(***************************************************************************)
(* Lzma2Dec_Parse: it walks over a stream without decoding it, so that     *)
(* blocks can be handed to threads.  The caller keeps the sum of the sizes *)
(* in decoder.dicPos.                                                      *)
(***************************************************************************)
VARIABLES
  q,            \* CLzma2Dec
  dicPos,       \* decoder.dicPos
  parsePc,      \* "idle", "parse", "over"
  parseCall,    \* [in, outSize, check]: what is left of a call's arguments
  walked,       \* bytes consumed
  parseStatus   \* what the last call returned

parseVars == <<chunks, q, dicPos, parsePc, parseCall, walked, parseStatus>>

ParseOffered(m) == [k \in 1 .. m |-> walked + k]

ParseStart ==
  /\ q = FreshParser /\ dicPos = 0 /\ parsePc = "idle" /\ walked = 0
  /\ parseCall = [in |-> <<>>, outSize |-> 0, check |-> FALSE] /\ parseStatus = "none"
ParseInit == chunks \in ChunkSeqs /\ ParseStart

\* Lzma2Dec_Parse is called with m bytes; the decoder may produce n more.
Parse(m, n, check) ==
  /\ parsePc = "idle" /\ parseStatus \notin {"none_error", "finished_with_mark"} /\ m <= NumChunkBytes - walked
  /\ parsePc' = "parse" /\ parseCall' = [in |-> ParseOffered(m), outSize |-> n, check |-> check]
  /\ UNCHANGED <<chunks, q, dicPos, walked, parseStatus>>

ParseReturn(r, st) ==
  /\ parsePc' = IF r.state = "error" THEN "over" ELSE "idle"
  /\ q' = r /\ parseStatus' = st

ParseGoOn(r) == q' = r /\ UNCHANGED <<parsePc, parseStatus>>

Took(n) ==
  /\ parseCall' = [parseCall EXCEPT !.in = SubSeq(@, n + 1, Len(@))] /\ walked' = walked + n
  /\ UNCHANGED <<chunks, dicPos>>

Nothing == UNCHANGED <<chunks, dicPos, parseCall, walked>>

ParseFinished ==
  /\ parsePc = "parse" /\ q.state = "finished" /\ Nothing /\ ParseReturn(q, "finished_with_mark")

Going == parsePc = "parse" /\ q.state # "finished" /\ (parseCall.outSize > 0 \/ parseCall.check)

OutputFull ==
  /\ parsePc = "parse" /\ q.state # "finished" /\ parseCall.outSize = 0 /\ ~parseCall.check
  /\ Nothing /\ ParseReturn(q, "not_finished")

HeaderNeedsInput ==
  /\ Going /\ InHeader(q) /\ parseCall.in = <<>> /\ Nothing /\ ParseReturn(q, "needs_input")

\* The control byte of a new block is read, or all of a chunk's header.
ParseHeader ==
  /\ Going /\ InHeader(q) /\ parseCall.in # <<>>
  /\ LET r == UpdateState(q, At(Head(parseCall.in)))
     IN IF r.state = "unpack0" /\ (r.control = 1 \/ r.control >= 224) THEN ParseReturn(r, "new_block")
        ELSE IF parseCall.outSize = 0 /\ r.state # "finished" THEN ParseReturn(r, "not_finished")
        ELSE IF r.state = "data" THEN ParseReturn(r, "new_chunk")
        ELSE IF r.state = "error" THEN ParseReturn(r, "none_error")
        ELSE ParseGoOn(r)
  /\ Took(1)

DataNeedsRoom ==
  /\ Going /\ q.state \in {"data", "dataCont"} /\ parseCall.outSize = 0
  /\ Nothing /\ ParseReturn(q, "not_finished")

ParseCopy ==
  /\ Going /\ q.state \in {"data", "dataCont"} /\ parseCall.outSize > 0 /\ Copies(q)
  /\ IF parseCall.in = <<>> THEN Nothing /\ ParseReturn(q, "needs_input")
     ELSE LET n    == Smaller(Smaller(Len(parseCall.in), q.unpackSize), parseCall.outSize)
              left == q.unpackSize - n
          IN /\ ParseGoOn([q EXCEPT !.unpackSize = left, !.state = IF left = 0 THEN "control" ELSE "dataCont"])
             /\ dicPos' = dicPos + n /\ walked' = walked + n
             /\ parseCall' = [parseCall EXCEPT !.in = SubSeq(@, n + 1, Len(@)), !.outSize = @ - n]
             /\ UNCHANGED chunks

\* Mutant: the output of a chunk counts as soon as its data begins.
ParseLzma_Early ==
  /\ Going /\ q.state \in {"data", "dataCont"} /\ parseCall.outSize > 0 /\ ~Copies(q)
  /\ IF parseCall.in = <<>> /\ q.packSize # 0 THEN Nothing /\ ParseReturn([q EXCEPT !.isExtraMode = TRUE], "needs_input")
     ELSE LET n    == Smaller(Len(parseCall.in), q.packSize)
              rem  == Smaller(parseCall.outSize, q.unpackSize)
              left == q.unpackSize - rem
          IN /\ ParseGoOn([q EXCEPT !.isExtraMode = TRUE, !.packSize = @ - n, !.unpackSize = left,
                               !.state = IF left = 0 THEN "control" ELSE "dataCont"])
             /\ dicPos' = dicPos + rem /\ walked' = walked + n
             /\ parseCall' = [parseCall EXCEPT !.in = SubSeq(@, n + 1, Len(@)), !.outSize = @ - rem]
             /\ UNCHANGED chunks

\* The output of an LZMA chunk counts when all its data was read.  Its first
\* byte must be 0.
ParseLzma ==
  /\ Going /\ q.state \in {"data", "dataCont"} /\ parseCall.outSize > 0 /\ ~Copies(q)
  /\ IF parseCall.in = <<>> /\ q.packSize # 0 THEN Nothing /\ ParseReturn([q EXCEPT !.isExtraMode = TRUE], "needs_input")
     ELSE IF parseCall.in # <<>> /\ q.state = "data" /\ At(Head(parseCall.in)) # 0
     THEN /\ ParseReturn([q EXCEPT !.isExtraMode = TRUE, !.packSize = @ - 1, !.state = "error"], "none_error")
          /\ Took(1)
     ELSE LET n    == Smaller(Len(parseCall.in), q.packSize)
              all  == n = q.packSize
              rem  == IF all THEN Smaller(parseCall.outSize, q.unpackSize) ELSE 0
              left == q.unpackSize - rem
          IN /\ ParseGoOn([q EXCEPT !.isExtraMode = TRUE, !.packSize = @ - n, !.unpackSize = left,
                               !.state = IF all /\ left = 0 THEN "control"
                                         ELSE IF parseCall.in # <<>> THEN "dataCont" ELSE @])
             /\ dicPos' = dicPos + rem /\ walked' = walked + n
             /\ parseCall' = [parseCall EXCEPT !.in = SubSeq(@, n + 1, Len(@)), !.outSize = @ - rem]
             /\ UNCHANGED chunks

ParseOver == (parsePc = "over" \/ parseStatus = "finished_with_mark") /\ UNCHANGED parseVars

ParseNext ==
  \/ \E m \in InSizes, n \in OutSizes, check \in BOOLEAN : Parse(m, n, check)
  \/ ParseFinished \/ OutputFull \/ HeaderNeedsInput \/ ParseHeader \/ DataNeedsRoom \/ ParseCopy \/ ParseLzma
  \/ ParseOver
ParseSpec == ParseInit /\ [][ParseNext]_parseVars
-----------------------------------------------------------------------------
(* Properties of the parser                                                *)

\* What the decoder can produce from the first n bytes of the stream.
Decodable(n) ==
  LET Made(k) ==
        LET have == n - DataStart(chunks, k)
        IN IF IsLzma(chunks[k]) THEN Cardinality({o \in 1 .. chunks[k].unpack : chunks[k].need[o] <= have})
           ELSE Smaller(IF have > 0 THEN have ELSE 0, DataBytes(chunks[k]))
  IN FoldLeft(LAMBDA acc, k : acc + Made(k), 0, [k \in 1 .. FirstBad(chunks) - 1 |-> k])

Extra == IF q.isExtraMode THEN q.unpackSize ELSE 0

\* The room that the parser reports is enough for what the decoder makes of
\* the bytes that it consumed over (Lzma2Dec_GetUnpackExtra, Lzma2Dec.h).
RoomIsEnough == Decodable(walked) <= dicPos + Extra

\* The parser counts no output whose bytes it has not seen.
CountsWhatItSaw == Sound(chunks) => dicPos <= Decodable(walked)

\* It reports a new block exactly behind the control byte of a chunk that
\* resets the dictionary, and at the end all bytes and all output counted.
BlocksAreFound ==
  parsePc = "idle" =>
    /\ parseStatus = "new_block" =>
         /\ chunks[q.chunk].control \in {1} \cup 224 .. 255
         /\ walked = DataStart(chunks, q.chunk) - Len(Header(chunks[q.chunk])) + 1
         /\ dicPos = Len(FlattenSeq([k \in 1 .. q.chunk - 1 |-> Output(chunks, k)]))
    /\ parseStatus = "finished_with_mark" =>
         walked = NumChunkBytes /\ dicPos = Len(FlattenSeq([k \in 1 .. Len(chunks) |-> Output(chunks, k)]))

\* It refuses a stream for a header that is bad, at that chunk, or for the
\* first byte of LZMA data, and for nothing else.
ParseRefusesBad ==
  q.state = "error" => \/ q.chunk = FirstBad(chunks)
                       \/ q.chunk < FirstBad(chunks) /\ chunks[q.chunk].first # 0

\* The sizes of a chunk, once its header is read, are those that were encoded,
\* up to 2^21 bytes of output and 2^16 bytes of data.
SizesAreRead ==
  /\ q.state = "data" => /\ q.unpackSize = chunks[q.chunk].unpack
                         /\ IsLzma(chunks[q.chunk]) => q.packSize = chunks[q.chunk].pack
  /\ parsePc = "parse" /\ walked = 0 =>
       \A u \in {1, 256, 257, 65536, 65537, 2097152}, k \in {1, 256, 257, 65536} :
         LET r == FoldLeft(UpdateState, FreshParser,
                           Header([control |-> 224, unpack |-> u, pack |-> k, prop |-> 0]))
         IN r.state = "data" /\ r.unpackSize = u /\ r.packSize = k

\* Lzma2Dec_Parse finds the blocks and the sizes that the decoder finds then.
ParseAgrees == RoomIsEnough /\ CountsWhatItSaw /\ BlocksAreFound /\ ParseRefusesBad /\ SizesAreRead
=============================================================================
