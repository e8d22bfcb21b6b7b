----------------------------- MODULE Lzma2Blocks -----------------------------
(***************************************************************************)
(* What Lzma2DecMt.c does with a block of an LZMA2 stream: finding its end  *)
(* without decoding it, and decoding it in pieces.  A byte is named by its  *)
(* place in the stream (see Lzma2Format); memory that was never written     *)
(* holds the place 0.                                                       *)
(***************************************************************************)
EXTENDS Integers, Sequences, SequencesExt, FiniteSetsExt

CONSTANTS
  BlockJobs,    \* a sequence of what callers ask: the chunks of the stream and how many of
                \* its bytes there are (have); prop; threads, inBuf (inBufSize_MT), blockMax
                \* (outBlockMax), inST (inBufSize_ST), step (outStep_ST), dic (dicBufSize);
                \* outSize (-1: not defined), finish (finishMode), progress (is there a
                \* callback?), api ("decode" or "read"), want (bytes asked for by a Read),
                \* calls, and faults, which bounds the calls that fail
  SmallBlock    \* 1 << 14 in Lzma2DecMt_MtCallback_Parse

VARIABLE job    \* the number of the job of this behaviour

Stream == INSTANCE Lzma2Format WITH Chunks <- {}, MaxChunks <- 0, chunks <- <<>>

J          == BlockJobs[job]
Fewer(a, b) == IF a < b THEN a ELSE b
\* (Concatenated with <<>>, so that TLC computes them once.)
JobBytes   == [j \in 1 .. Len(BlockJobs) |-> Stream!Bytes(BlockJobs[j].chunks) \o <<>>] \o <<>>
ByteAt(at) == IF at \in 1 .. J.have THEN JobBytes[job][at] ELSE 255

\* The LZMA chunk whose data a byte is of, and which one of it.
PlaceIn(s, at) ==
  LET of == {k \in 1 .. Len(s) : /\ Stream!IsLzma(s[k])
                                 /\ at - Stream!DataStart(s, k) \in 1 .. Stream!DataBytes(s[k])}
  IN IF of = {} THEN [chunk |-> 0, nth |-> 0]
     ELSE LET k == CHOOSE i \in of : TRUE IN [chunk |-> k, nth |-> at - Stream!DataStart(s, k)]
DataPlaces ==
  [j \in 1 .. Len(BlockJobs) |-> [at \in 1 .. Len(JobBytes[j]) |-> PlaceIn(BlockJobs[j].chunks, at)] \o <<>>] \o <<>>
DataPlace(at) == IF at \in 1 .. J.have THEN DataPlaces[job][at] ELSE [chunk |-> 0, nth |-> 0]

\* A CLzma2Dec: the state of its chunk headers, what its LZMA decoder was fed of
\* the chunk at work, and decoder.dicPos.
FreshDecoder == [q |-> Stream!FreshParser, chunk |-> 0, inChunk |-> 0, outChunk |-> 0, dicPos |-> 0]
-----------------------------------------------------------------------------
(* Lzma2Dec_Parse                                                          *)

NewBlockByte(q) == q.state = "unpack0" /\ (q.control = 1 \/ q.control >= 224)

\* w: q, the room left, bytes used, status.
RECURSIVE Walk(_, _, _), WalkHeader(_, _, _)

\* A byte of a header was read.
WalkHeader(w, src, check) ==
  IF NewBlockByte(w.q) THEN [w EXCEPT !.status = "new_block"]
  ELSE IF w.room = 0 /\ w.q.state # "finished" THEN [w EXCEPT !.status = "not_finished"]
  ELSE IF w.q.state = "data" THEN [w EXCEPT !.status = "new_chunk"]
  ELSE Walk(w, src, check)

Walk(w, src, check) ==
  LET q       == w.q
      rest    == Len(src) - w.used
      Stop(s) == [w EXCEPT !.status = s]
  IN IF q.state = "error" THEN Stop("none")
     ELSE IF q.state = "finished" THEN Stop("finished_with_mark")
     ELSE IF w.room = 0 /\ ~check THEN Stop("not_finished")
     ELSE IF Stream!InHeader(q)
     THEN IF rest = 0 THEN Stop("needs_input")
          ELSE WalkHeader([w EXCEPT !.q = Stream!UpdateState(@, ByteAt(src[w.used + 1])), !.used = @ + 1], src, check)
     ELSE IF w.room = 0 THEN Stop("not_finished")
     ELSE IF Stream!Copies(q)
     THEN LET n    == Fewer(Fewer(rest, q.unpackSize), w.room)
              left == q.unpackSize - n
          IN IF rest = 0 THEN Stop("needs_input")
             ELSE Walk([w EXCEPT !.used = @ + n, !.room = @ - n,
                                 !.q.unpackSize = left, !.q.state = IF left = 0 THEN "control" ELSE "dataCont"],
                       src, check)
     ELSE LET n    == Fewer(rest, q.packSize)
              all  == n = q.packSize
              made == IF all THEN Fewer(w.room, q.unpackSize) ELSE 0
              left == q.unpackSize - made
              x    == [w EXCEPT !.q.isExtraMode = TRUE]
          IN IF rest = 0 /\ q.packSize # 0 THEN [x EXCEPT !.status = "needs_input"]
             ELSE IF rest > 0 /\ q.state = "data" /\ ByteAt(src[w.used + 1]) # 0
             THEN [x EXCEPT !.used = @ + 1, !.q.packSize = @ - 1, !.q.state = "error", !.status = "none"]
             ELSE Walk([x EXCEPT !.used = @ + n, !.room = @ - made,
                                 !.q.packSize = @ - n, !.q.unpackSize = left,
                                 !.q.state = IF all /\ left = 0 THEN "control"
                                             ELSE IF rest > 0 THEN "dataCont" ELSE @],
                       src, check)
-----------------------------------------------------------------------------
(* Lzma2Dec_DecodeToDic: room bytes may be written.  The result has what    *)
(* was written, what was used and how it ended.                             *)

DecodeStart(d, room) == [d |-> d, room |-> room, used |-> 0, out |-> <<>>, res |-> "ok", status |-> "none"]

\* How much of a chunk's output exists after so many bytes of its data.
Made(c, have) == Cardinality({o \in 1 .. Len(c.need) : c.need[o] <= have})

\* LzmaDec_DecodeToDic with inCur bytes and room for outCur: data that is not
\* the next of its chunk, or does not begin with 0, is refused.
LzmaStepAt(at, d, bytes, outCur) ==
  LET isNext == /\ at.chunk # 0 /\ at.nth = d.inChunk + 1 /\ d.chunk \in {0, at.chunk}
                /\ \A i \in DOMAIN bytes : DataPlace(bytes[i]) = [at EXCEPT !.nth = @ + i - 1]
      c      == J.chunks[at.chunk]
      have   == d.inChunk + Len(bytes)
      o      == Fewer(d.outChunk + outCur, Made(c, have))
      needs  == IF o = 0 THEN 5 ELSE c.need[o]
      made   == o - d.outChunk
      used   == IF needs > d.inChunk THEN needs - d.inChunk ELSE 0
  IN IF bytes = <<>> /\ d.chunk = 0 THEN [used |-> 0, made |-> 0, chunk |-> 0, res |-> "ok", status |-> "needs_input"]
     ELSE IF ~isNext \/ (c.first # 0 /\ have > 0)
     THEN [used |-> Len(bytes), made |-> 0, chunk |-> 0, res |-> "data", status |-> "none"]
     ELSE IF o < d.outChunk + outCur \/ have < needs
     THEN [used |-> Len(bytes), made |-> made, chunk |-> at.chunk, res |-> "ok", status |-> "needs_input"]
     ELSE [used |-> used, made |-> made, chunk |-> at.chunk, res |-> "ok",
           status |-> IF o = Len(c.need) THEN "maybe_finished" ELSE "not_finished"]

LzmaStep(d, bytes, outCur) ==
  LzmaStepAt(IF bytes = <<>> THEN [chunk |-> d.chunk, nth |-> d.inChunk + 1] ELSE DataPlace(bytes[1]), d, bytes, outCur)

DataError(r) == [r EXCEPT !.d.q.state = "error", !.res = "data", !.status = "none"]

\* The LZMA decoder has made the step s.
Stepped(r, s) ==
  [r EXCEPT !.used = @ + s.used, !.room = @ - s.made,
            !.out = @ \o [k \in 1 .. s.made |-> 1000 * s.chunk + r.d.outChunk + k],
            !.d = [@ EXCEPT !.chunk = s.chunk, !.inChunk = @ + s.used, !.outChunk = @ + s.made,
                            !.dicPos = @ + s.made, !.q.packSize = @ - s.used,
                            !.q.unpackSize = @ - s.made, !.q.state = "dataCont"]]

RECURSIVE DecodeToDic(_, _, _), AfterHeaderByte(_, _, _), AfterLzmaStep(_, _, _, _)

AfterHeaderByte(r, src, finish) ==
  IF r.room = 0 /\ r.d.q.state # "finished" THEN DataError(r) ELSE DecodeToDic(r, src, finish)

AfterLzmaStep(r, s, src, finish) ==
  IF s.res # "ok" THEN DataError(r)
  ELSE IF s.status = "needs_input"
  THEN IF r.d.q.packSize = 0 THEN DataError(r) ELSE [r EXCEPT !.status = "needs_input"]
  ELSE IF s.used # 0 \/ s.made # 0 THEN DecodeToDic(r, src, finish)
  ELSE IF s.status # "maybe_finished" \/ r.d.q.unpackSize # 0 \/ r.d.q.packSize # 0 THEN DataError(r)
  ELSE DecodeToDic([r EXCEPT !.d.q.state = "control"], src, finish)

DecodeToDic(r, src, finish) ==
  LET q        == r.d.q
      rest     == Len(src) - r.used
      Stop(s)  == [r EXCEPT !.status = s]
      outCur   == Fewer(r.room, q.unpackSize)
      begun    == IF q.state = "data" THEN [r.d EXCEPT !.chunk = 0, !.inChunk = 0, !.outChunk = 0] ELSE r.d
  IN IF q.state = "error" THEN DataError(r)
     ELSE IF q.state = "finished" THEN Stop("finished_with_mark")
     ELSE IF r.room = 0 /\ finish = "any" THEN Stop("not_finished")
     ELSE IF Stream!InHeader(q)
     THEN IF rest = 0 THEN Stop("needs_input")
          ELSE AfterHeaderByte([r EXCEPT !.d.q = Stream!UpdateState(@, ByteAt(src[r.used + 1])), !.used = @ + 1],
                               src, finish)
     ELSE IF Stream!Copies(q)
     THEN LET n    == Fewer(rest, outCur)
              left == q.unpackSize - n
          IN IF rest = 0 THEN Stop("needs_input")
             ELSE IF n = 0 THEN DataError([r EXCEPT !.d = begun])
             ELSE DecodeToDic([r EXCEPT !.used = @ + n, !.room = @ - n,
                                 !.out = @ \o SubSeq(src, r.used + 1, r.used + n),
                                 !.d = [begun EXCEPT !.dicPos = @ + n, !.q.unpackSize = left,
                                          !.q.state = IF left = 0 THEN "control" ELSE "dataCont"]],
                              src, finish)
     ELSE LET s == LzmaStep(begun, SubSeq(src, r.used + 1, r.used + Fewer(rest, q.packSize)), outCur)
              Next(step) == AfterLzmaStep(Stepped([r EXCEPT !.d = begun], step), step, src, finish)
          IN Next(s)
-----------------------------------------------------------------------------
(* The callbacks of Lzma2DecMt.c: a coder is a CLzma2DecMtThread.          *)

FreshCoder ==
  [dec |-> FreshDecoder, needInit |-> FALSE, outBufSize |-> -1, state |-> "continue", parseStatus |-> "none",
   inPreSize |-> 0, outPreSize |-> 0, inCodeSize |-> 0, outCodeSize |-> 0, codeRes |-> "ok", out |-> <<>>]

\* startCall
BlockStart(c) ==
  [c EXCEPT !.dec = FreshDecoder, !.inPreSize = 0, !.outPreSize = 0, !.parseStatus = "none", !.state = "continue",
            !.inCodeSize = 0, !.outCodeSize = 0, !.codeRes = "ok", !.out = <<>>]

\* The loop over Lzma2Dec_Parse; point is the last new block that was passed.
RECURSIVE ParseChunks(_, _, _, _), AfterWalk(_, _, _, _)

Walked(b, w, limit) == [b EXCEPT !.q = w.q, !.dicPos = limit - w.room, !.used = w.used, !.status = w.status]

AfterWalk(b, src, limit, check) ==
  LET GoOn(x) == ParseChunks(x, src, limit, check)
  IN CASE b.status = "new_chunk" ->
            IF b.q.unpackSize > J.blockMax - b.dicPos THEN [b EXCEPT !.overflow = TRUE] ELSE GoOn(b)
       [] b.status = "new_block" ->
            IF b.dicPos = 0 THEN GoOn(b)
            ELSE IF b.dicPos >= SmallBlock THEN b
            ELSE GoOn([b EXCEPT !.dicPoint = b.dicPos, !.srcPoint = b.used])
       [] b.status = "not_finished" /\ check -> [b EXCEPT !.overflow = TRUE]
       [] OTHER -> [b EXCEPT !.extra = IF b.q.isExtraMode THEN b.q.unpackSize ELSE 0]

ParseChunks(b, src, limit, check) ==
  AfterWalk(Walked(b, Walk([q |-> b.q, room |-> limit - b.dicPos, used |-> b.used, status |-> "none"], src, check),
                   limit),
            src, limit, check)

\* Back to the last new block, if the walk ended within a block after it.
Reverted(b) ==
  IF b.dicPoint # 0 /\ b.status \notin {"new_block", "finished_with_mark", "none"}
  THEN [b EXCEPT !.status = "new_block", !.extra = 0, !.dicPos = b.dicPoint, !.used = b.srcPoint, !.overflow = FALSE]
  ELSE b

Remaining(parsed) == J.outSize - parsed
ParseLimit(parsed) ==
  IF J.outSize >= 0 /\ J.blockMax >= Remaining(parsed) THEN Remaining(parsed) ELSE J.blockMax
ParseChecks(parsed) ==
  ~(J.outSize >= 0 /\ J.blockMax >= Remaining(parsed) /\ ~J.finish)

\* Lzma2DecMt_MtCallback_Parse: the coder, the bytes used, outProcessed_Parse.
ParsedTo(b, c, limit, parsed) ==
  LET isNew == b.status = "new_block"
      ends  == ~b.overflow /\ b.status # "needs_input"
      used  == IF ends /\ isNew THEN b.used - 1 ELSE b.used
      size  == b.dicPos + (IF ends /\ b.status # "finished_with_mark" THEN Fewer(limit - b.dicPos, b.extra) ELSE 0)
  IN [used |-> used,
      parsed |-> IF ends THEN parsed + size ELSE parsed,
      coder |-> [c EXCEPT !.dec.q = b.q, !.dec.dicPos = b.dicPos, !.parseStatus = b.status,
                          !.inPreSize = @ + used,
                          !.outPreSize = IF b.overflow THEN @ ELSE size,
                          !.state = IF b.overflow THEN "overflow" ELSE IF ~ends THEN "continue"
                                    ELSE IF isNew THEN "new" ELSE "end"]]

ParseCallback(c0, start, src, parsed) ==
  LET c     == IF start THEN BlockStart(c0) ELSE c0
      limit == ParseLimit(parsed)
  IN ParsedTo(Reverted(ParseChunks([q |-> c.dec.q, dicPos |-> c.dec.dicPos, used |-> 0, status |-> "none",
                                    dicPoint |-> 0, srcPoint |-> 0, overflow |-> FALSE, extra |-> 0],
                                   src, limit, ParseChecks(parsed))),
              c, limit, parsed)

\* Lzma2DecMt_MtCallback_PreCode
NeedsOutBuf(c) == c.outBufSize = -1 \/ c.outBufSize < c.outPreSize
PreCoded(c)    == [c EXCEPT !.needInit = TRUE, !.outBufSize = IF NeedsOutBuf(c) THEN c.outPreSize ELSE @]
PreCodeFailed(c) == [c EXCEPT !.outBufSize = IF NeedsOutBuf(c) THEN -1 ELSE @]

BlockWasFinished(c) == c.parseStatus \in {"finished_with_mark", "new_block"}

\* Lzma2DecMt_MtCallback_Code
CodedBy(r, c1, src) ==
  LET c    == [c1 EXCEPT !.dec = r.d, !.out = @ \o r.out, !.codeRes = r.res, !.inCodeSize = @ + r.used,
                         !.outCodeSize = r.d.dicPos]
      over == r.used = Len(src) /\ c.inPreSize = c.inCodeSize
  IN [coder |-> c,
      res   |-> IF r.res # "ok" THEN r.res
                ELSE IF BlockWasFinished(c) /\ (r.used # Len(src) \/ (over /\ c.outPreSize # c.outCodeSize))
                THEN "fail" ELSE "ok",
      stop  |-> \/ r.used # Len(src)
                \/ BlockWasFinished(c) /\ over
                \/ ~BlockWasFinished(c) /\ c.outPreSize = c.outCodeSize]

CodeCallback(c0, src) ==
  LET c == IF c0.needInit THEN [c0 EXCEPT !.needInit = FALSE, !.dec = FreshDecoder, !.out = <<>>] ELSE c0
  IN CodedBy(DecodeToDic(DecodeStart(c.dec, c.outPreSize - c.dec.dicPos), src,
                         IF BlockWasFinished(c) THEN "end" ELSE "any"), c, src)

\* The check of Lzma2DecMt_MtCallback_Write before it writes.
BlockIsShort(c) ==
  c.codeRes = "ok" /\ BlockWasFinished(c) /\ (c.outPreSize # c.outCodeSize \/ c.inPreSize # c.inCodeSize)

\* The first outCodeSize bytes of outBuf.
BlockOutput(c) == [i \in 1 .. c.outCodeSize |-> IF i <= Len(c.out) THEN c.out[i] ELSE 0]
=============================================================================
