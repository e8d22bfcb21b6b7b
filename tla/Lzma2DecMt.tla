----------------------------- MODULE Lzma2DecMt -----------------------------
(***************************************************************************)
(* The caller of MtDec: Lzma2DecMt_Decode lets threads decode the blocks of *)
(* a stream and, when memory or threads run out or a block is too large,    *)
(* goes on alone with what they have read and not written.  Or it is asked  *)
(* for the output in pieces (Lzma2DecMt_Read).                              *)
(***************************************************************************)
EXTENDS MtDec

VARIABLE dz    \* the CLzma2DecMt, and the locals of the running call

decMtVars == <<mtDecVars, dz>>

\* kept (tMode): there is input in the threads.  data: the bytes from inPos to
\* inLim; lim: inLim; pend: what lies in the dictionary from wrPos; left: what a
\* Read may still give.
FreshDz ==
  [pc |-> "idle", result |-> "none", calls |-> 0, kept |-> FALSE, data |-> <<>>, lim |-> 0, left |-> 0,
   d |-> FreshDecoder, wrPos |-> 0, pend |-> <<>>, got |-> 0, inBuf |-> FALSE,
   inProcessed |-> 0, outProcessed |-> 0, readWasFinished |-> FALSE, readRes |-> "ok"]

\* Lzma2DecMt_Create
DecMtInit == job \in 1 .. Len(BlockJobs) /\ MtDecInit /\ dz = FreshDz

Returns(z, res) == [z EXCEPT !.pc = "idle", !.result = res]
-----------------------------------------------------------------------------
(* Lzma2DecMt_Decode and MtDec_Code.                                       *)

NewCall(pc) == [FreshDz EXCEPT !.pc = pc, !.calls = dz.calls + 1, !.inBuf = dz.inBuf]

\* The caller's own thread is number 0; if its events cannot be created the
\* stream is decoded by one thread.
DecodeBegin ==
  /\ dz.pc = "idle" /\ dz.result \notin {"gone"} /\ dz.calls < J.calls
  /\ input' = 0 /\ decoded' = <<>>
  /\ \/ /\ J.prop > 40 /\ dz' = Returns(NewCall("idle"), "unsupported") /\ UNCHANGED <<dm, dt, slips>>
     \/ /\ J.prop <= 40 /\ (J.threads = 1 \/ J.api = "read")
        /\ dz' = NewCall("prepare") /\ UNCHANGED <<dm, dt, slips>>
     \/ /\ J.prop <= 40 /\ J.threads > 1 /\ J.api = "decode"
        /\ LET m == [FreshMtDec EXCEPT !.limit = J.threads, !.started = 1, !.crossBlock = dm.crossBlock]
           IN \/ /\ dm' = m /\ UNCHANGED slips /\ dz' = [NewCall("threads") EXCEPT !.inBuf = FALSE]
                 /\ dt' = [dt EXCEPT ![0].pc = "turn", ![0].canRead = TRUE, ![0].canWrite = TRUE]
              \/ /\ Slip("thread") /\ dm' = [m EXCEPT !.threadingError = TRUE] /\ UNCHANGED dt
                 /\ dz' = [NewCall("prepare") EXCEPT !.inBuf = FALSE, !.kept = TRUE]
  /\ UNCHANGED <<job, dc>>

\* Mutant: an overflow is forgotten.
NeedsContinue_Threads == dm.isAllocError \/ dm.threadingError
NeedsContinue == dm.isAllocError \/ dm.threadingError \/ dm.overflow

\* MtDec_ThreadFunc has returned to MtDec_Code.
ThreadsEnd ==
  /\ dz.pc = "threads" /\ dt[0].pc = "left"
  /\ dt' = [dt EXCEPT ![0].pc = "absent"]
  /\ LET z == [dz EXCEPT !.inProcessed = dm.inProcessed, !.outProcessed = Len(decoded)]
     IN dz' = IF dm.progressRes # "ok" THEN Returns(z, dm.progressRes)
              ELSE IF ~NeedsContinue THEN Returns(z, dm.readRes)
              ELSE [z EXCEPT !.pc = "prepare", !.kept = TRUE, !.readRes = dm.readRes,
                             !.readWasFinished = dm.readWasFinished]
  /\ UNCHANGED <<job, dm, dc, input, decoded, slips>>

\* MtDec_PrepareRead: the threads whose input was all written free it.
HasKept(i) ==
  i <= dm.started /\ dm.filled > (IF i >= dm.filledStart THEN i - dm.filledStart
                                  ELSE (i + dm.started) - dm.filledStart)

\* Lzma2Dec_Prepare_ST; either allocation may fail.
Prepare ==
  /\ dz.pc = "prepare"
  /\ IF dz.kept
     THEN /\ dm' = [dm EXCEPT !.crossBlock = @ /\ dm.cross # <<>>]
          /\ dc' = [t \in DecThreads |-> [dc[t] EXCEPT !.outBufSize = -1, !.out = <<>>]]
          /\ dt' = [t \in DecThreads |-> IF HasKept(t) THEN dt[t] ELSE [dt[t] EXCEPT !.inBuf = <<>>]]
     ELSE UNCHANGED <<dm, dc, dt>>
  /\ LET z == [dz EXCEPT !.kept = @ /\ (dm.filled # 0 \/ dm.cross # <<>>)]
     IN \/ /\ dz' = [z EXCEPT !.pc = J.api, !.inBuf = TRUE] /\ UNCHANGED slips
        \/ Slip("alloc") /\ dz' = Returns(z, "mem")
  /\ UNCHANGED <<job, input, decoded>>
-----------------------------------------------------------------------------
(* Lzma2Dec_Decode_ST                                                      *)

\* MtDec_Read, after its first part: data # <<>>, or the kept input is over.
FreeFirst(ts, t) == [ts EXCEPT ![t].inBuf = Tail(@)]
KeptThread ==
  IF dm.filled = 0 THEN [m |-> dm, ts |-> dt]
  ELSE LET t  == dm.filledStart
           ts == IF dz.lim # 0 THEN FreeFirst(dt, t) ELSE dt
       IN IF dz.lim = 0 \/ dt[t].size # 0 THEN [m |-> dm, ts |-> ts]
          ELSE [ts |-> [ts EXCEPT ![t].inBuf = <<>>],
                m  |-> [dm EXCEPT !.filled = @ - 1,
                          !.filledStart = IF dm.filled = 1 THEN @ ELSE IF @ + 1 = dm.started THEN 0 ELSE @ + 1]]

TakeKept ==
  LET k   == KeptThread
      t   == k.m.filledStart
      th  == k.ts[t]
      lim == IF th.start # 0 THEN th.start ELSE Fewer(J.inBuf, th.size)
      n   == Len(k.m.cross)
  IN
  /\ dz.pc = "decode" /\ dz.data = <<>> /\ dz.kept
  /\ IF k.m.filled # 0
     THEN /\ dt' = [k.ts EXCEPT ![t].start = 0, ![t].size = @ - lim] /\ dm' = k.m
          /\ dz' = [dz EXCEPT !.data = SubSeq(th.inBuf[1], 1, lim), !.lim = lim]
     ELSE /\ dt' = k.ts /\ dm' = [k.m EXCEPT !.cross = <<>>, !.crossBlock = @ /\ n # 0]
          /\ dz' = [dz EXCEPT !.data = k.m.cross, !.lim = n, !.kept = n # 0]
  /\ UNCHANGED <<job, dc, input, decoded, slips>>

\* The stream is read, once for each round.
StreamRead ==
  LET n == Fewer(J.inST, J.have - input)
  IN
  /\ dz.pc = "decode" /\ dz.data = <<>> /\ ~dz.kept /\ ~dz.readWasFinished
  /\ \/ /\ dz' = [dz EXCEPT !.data = [i \in 1 .. n |-> input + i], !.readWasFinished = n = 0]
        /\ input' = input + n /\ UNCHANGED slips
     \/ /\ Slip("read") /\ dz' = [dz EXCEPT !.readRes = "read", !.readWasFinished = TRUE] /\ UNCHANGED input
  /\ UNCHANGED <<job, dm, dt, dc, decoded>>

Undelivered(done) == J.outSize - done
\* How much may be decoded now, and whether the stream must end there.
StSize ==
  LET next == IF J.dic - dz.wrPos > J.step THEN dz.wrPos + J.step ELSE J.dic
      size == next - dz.d.dicPos
  IN IF J.outSize >= 0 /\ size >= Undelivered(dz.outProcessed) THEN Undelivered(dz.outProcessed) ELSE size
StFinish ==
  IF /\ J.outSize >= 0 /\ J.finish
     /\ (IF J.dic - dz.wrPos > J.step THEN dz.wrPos + J.step ELSE J.dic) - dz.d.dicPos
          >= Undelivered(dz.outProcessed)
  THEN "end" ELSE "any"

\* What Decode_ST and Lzma2DecMt_Decode make of the end of decoding.
StResult(z, r) ==
  IF r.res # "ok" THEN r.res
  ELSE IF r.status = "finished_with_mark"
  THEN IF J.finish /\ J.outSize >= 0 /\ J.outSize # z.outProcessed THEN "data" ELSE "ok"
  ELSE IF ~J.finish /\ J.outSize >= 0 /\ J.outSize <= z.outProcessed THEN "ok"
  ELSE IF r.status = "needs_input" THEN "eof" ELSE "data"
Reported(z, res) == IF res \in {"eof", "ok"} /\ z.readRes # "ok" THEN z.readRes ELSE res

StDecoded(size, r) ==
  LET z    == [dz EXCEPT !.d = r.d, !.data = SubSeq(@, r.used + 1, Len(@)), !.inProcessed = @ + r.used,
                         !.outProcessed = @ + Len(r.out), !.pend = @ \o r.out]
      stop == \/ r.res # "ok" \/ (r.used = 0 /\ r.out = <<>>) \/ r.status = "finished_with_mark"
              \/ ~J.finish /\ J.outSize >= 0 /\ J.outSize <= z.outProcessed
      pos  == IF r.d.dicPos = J.dic THEN 0 ELSE r.d.dicPos
      flushed == [z EXCEPT !.pend = <<>>, !.wrPos = pos, !.d.dicPos = pos]
  IN \/ ~stop /\ Len(r.out) < size /\ dz' = z /\ UNCHANGED <<decoded, slips>>
     \/ /\ stop \/ Len(r.out) >= size
        /\ \/ /\ decoded' = decoded \o z.pend /\ UNCHANGED slips
              /\ dz' = IF stop THEN Returns(flushed, Reported(z, StResult(z, r))) ELSE flushed
           \/ /\ z.pend # <<>> /\ Slip("write")
              /\ decoded' = decoded \o SubSeq(z.pend, 1, Len(z.pend) - 1)
              /\ dz' = Returns(flushed, "write")

StRound ==
  /\ dz.pc = "decode" /\ (dz.data # <<>> \/ (~dz.kept /\ dz.readWasFinished))
  /\ StDecoded(StSize, DecodeToDic(DecodeStart(dz.d, StSize), dz.data, StFinish))
  /\ UNCHANGED <<job, dm, dt, dc, input>>
-----------------------------------------------------------------------------
(* Lzma2DecMt_Init, which is Prepare, and Lzma2DecMt_Read.                 *)

\* The caller reads until it gets nothing more.
ReadBegin ==
  /\ dz.pc = "read"
  /\ LET rest == Undelivered(dz.outProcessed)
     IN dz' = [dz EXCEPT !.pc = "reading", !.got = 0,
                         !.left = IF J.outSize >= 0 /\ J.want >= rest THEN rest ELSE J.want,
                         !.lim = IF J.outSize >= 0 /\ J.want >= rest /\ J.finish THEN 1 ELSE 0]
  /\ UNCHANGED <<mtDecVars>>

\* Lzma2Dec_DecodeToBuf
RECURSIVE DecodeToBuf(_, _, _, _), AfterDic(_, _, _, _, _)

AfterDic(r, x, src, room, finish) ==
  LET y == [d |-> r.d, used |-> r.used, out |-> x.out \o r.out, res |-> r.res]
  IN IF r.res # "ok" \/ r.out = <<>> \/ Len(r.out) = room THEN y
     ELSE DecodeToBuf(y, src, room - Len(r.out), finish)

DecodeToBuf(x, src, room, finish) ==
  LET pos  == IF x.d.dicPos = J.dic THEN 0 ELSE x.d.dicPos
      fits == J.dic - pos >= room
  IN AfterDic(DecodeToDic([DecodeStart([x.d EXCEPT !.dicPos = pos], IF fits THEN room ELSE J.dic - pos)
                             EXCEPT !.used = x.used],
                          src, IF fits THEN finish ELSE "any"),
              x, src, room, finish)

ReadDecoded(r, data, readRes) ==
  LET over == r.res # "ok" \/ (r.used = 0 /\ r.out = <<>>)
      got  == dz.got + Len(r.out)
      res  == IF r.res # "ok" THEN r.res ELSE readRes
      z    == [dz EXCEPT !.d = r.d, !.data = SubSeq(data, r.used + 1, Len(data)),
                         !.inProcessed = @ + r.used, !.outProcessed = @ + Len(r.out),
                         !.left = @ - Len(r.out), !.got = got, !.readRes = readRes]
  IN /\ decoded' = decoded \o r.out
     /\ dz' = IF ~over THEN z
              ELSE IF res # "ok" \/ got = 0 THEN Returns(z, res) ELSE [z EXCEPT !.pc = "read"]

ReadRound ==
  LET n     == Fewer(J.inST, J.have - input)
      reads == dz.data = <<>> /\ dz.readRes = "ok"
      Round(data, readRes) ==
        ReadDecoded(DecodeToBuf([d |-> dz.d, used |-> 0, out |-> <<>>], data, dz.left,
                                IF dz.lim = 1 THEN "end" ELSE "any"), data, readRes)
  IN
  /\ dz.pc = "reading"
  /\ \/ ~reads /\ Round(dz.data, dz.readRes) /\ UNCHANGED <<input, slips>>
     \/ reads /\ Round([i \in 1 .. n |-> input + i], "ok") /\ input' = input + n /\ UNCHANGED slips
     \/ reads /\ Slip("read") /\ Round(<<>>, "read") /\ UNCHANGED input
  /\ UNCHANGED <<job, dm, dt, dc>>
-----------------------------------------------------------------------------
(* Lzma2DecMt_Destroy: MtDec_Destruct closes one thread after the other.   *)

Destroy ==
  /\ dz.pc = "idle" /\ dz.result # "none" /\ dz' = [dz EXCEPT !.pc = "closing"]
  /\ dm' = [dm EXCEPT !.exitThread = TRUE]
  /\ UNCHANGED <<job, dt, dc, input, decoded, slips>>

CloseThread(t) ==
  /\ dz.pc = "closing" /\ \A u \in 0 .. t - 1 : dt[u].pc = "absent"
  /\ dt[t].pc # "absent" /\ ~dt[t].canRead
  /\ dt' = [dt EXCEPT ![t] = IF @.pc = "left" THEN AbsentThread
                             ELSE [@ EXCEPT !.canRead = TRUE, !.canWrite = TRUE]]
  /\ UNCHANGED <<job, dm, dc, input, decoded, slips, dz>>

Closed ==
  /\ dz.pc = "closing" /\ \A t \in DecThreads : dt[t].pc = "absent"
  /\ dz' = [dz EXCEPT !.pc = "gone"] /\ UNCHANGED mtDecVars

Callers ==
  \/ ThreadsEnd \/ Prepare \/ TakeKept \/ StreamRead \/ StRound \/ ReadBegin \/ ReadRound
  \/ (\E t \in DecThreads : CloseThread(t)) \/ Closed

DecMtGone == dz.pc = "gone" /\ UNCHANGED decMtVars

DecMtNext ==
  \/ DecodeBegin \/ Destroy \/ Callers \/ DecMtGone
  \/ (\E t \in DecThreads : DecThreadStep(t)) /\ UNCHANGED dz

DecMtSpec == DecMtInit /\ [][DecMtNext]_decMtVars
-----------------------------------------------------------------------------
(* Properties                                                              *)

JobOutputs == [j \in 1 .. Len(BlockJobs) |-> Stream!Expected(BlockJobs[j].chunks) \o <<>>] \o <<>>
Wanted ==
  LET all == JobOutputs[job]
  IN IF J.outSize < 0 \/ J.outSize >= Len(all) THEN all ELSE SubSeq(all, 1, J.outSize)

\* The stream is there with all of its bytes, and they are sound.
Whole == J.have = Len(JobBytes[job]) /\ Stream!Sound(J.chunks)
Slipped(kind) == \E i \in DOMAIN slips : slips[i] = kind
Resting == dz.pc \in {"idle", "closing", "gone"}

\* Whatever fails and whoever decodes, what is written is the beginning of what
\* the stream stands for, blocks in their order, none twice and none left out.
DecodedIsPrefix == IsPrefix(decoded, Wanted)

\* After SZ_OK everything was written, also when memory or threads ran out or a
\* block was too large for the threads (but see the README for errors of Write
\* and of the data), and the caller knows how many bytes that took.
OkIsAll ==
  Resting /\ dz.result = "ok" /\ Whole /\ ~Slipped("write") =>
    /\ decoded = Wanted
    /\ J.outSize < 0 => dz.inProcessed = J.have

\* An error has its cause.
ErrorHasCause ==
  /\ dz.result = "mem" => Slipped("alloc")
  /\ dz.result \in {"read", "progress", "write"} => Slipped(dz.result)
  /\ dz.result \in {"data", "eof"} => ~Whole \/ J.outSize >= 0
  /\ dz.result \notin {"fail", "thread"}

\* One thread reads and one writes, or is about to.
TurnsAreSingle ==
  /\ Cardinality({t \in DecThreads : dt[t].pc \in {"fill", "read", "check", "parse", "pass", "skip"} \/ dt[t].canRead})
       <= IF dz.pc = "closing" THEN MaxDecThreads ELSE 1
  /\ Cardinality({t \in DecThreads : dt[t].pc = "written" \/ dt[t].canWrite})
       <= IF dz.pc = "closing" THEN MaxDecThreads ELSE 1

\* When MtDec_Code has returned no thread is at work.
ThreadsAreQuiet ==
  dz.pc # "threads" => \A t \in DecThreads : dt[t].pc \in {"absent", "turn", "left"}

\* A thread never decodes beyond its own input.
LinksAreThere == \A t \in DecThreads : dt[t].pc = "code" => dt[t].l.link <= Len(dt[t].inBuf)

\* Lzma2DecMt_Decode gives what the LZMA2 stream stands for, with threads, when
\* they give up, and alone.
BlocksAreDecoded ==
  DecodedIsPrefix /\ OkIsAll /\ ErrorHasCause /\ TurnsAreSingle /\ ThreadsAreQuiet /\ LinksAreThere
=============================================================================
