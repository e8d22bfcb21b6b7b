-------------------------------- MODULE MtDec --------------------------------
(***************************************************************************)
(* The multithreaded decoder of MtDec.c with the callbacks of Lzma2DecMt.c: *)
(* threads take turns to read and parse a block (canRead), decode their     *)
(* blocks side by side and take turns to write them (canWrite).  The caller *)
(* itself runs thread 0.  What lies between two blocks of the input is      *)
(* carried over in the cross block; blocks that were read and not written   *)
(* stay in their threads for the single-threaded decoder.  Calls of the     *)
(* system that wait or set an event do not fail.                            *)
(***************************************************************************)
EXTENDS Lzma2Blocks

CONSTANT MaxDecThreads      \* numThreadsMax at most

ASSUME MtDecAssumption ==
  \A j \in 1 .. Len(BlockJobs) : BlockJobs[j].threads \in 1 .. MaxDecThreads

VARIABLES
  dm,        \* the CMtDec
  dt,        \* its CMtDecThreads, and the locals of MtDec_ThreadFunc2
  dc,        \* the CLzma2DecMtThreads
  input,     \* how many bytes inStream has given
  decoded,   \* what outStream has taken
  slips      \* the calls that failed

mtDecVars == <<job, dm, dt, dc, input, decoded, slips>>

DecThreads == 0 .. MaxDecThreads - 1

\* The locals of one turn.
FreshTurn ==
  [index |-> 0, res |-> "ok", codeRes |-> "ok", int |-> FALSE, alloc |-> FALSE, over |-> FALSE,
   finish |-> FALSE, thrErr |-> FALSE, needCode |-> FALSE, needWrite |-> FALSE, start |-> 0, size |-> 0, got |-> 0,
   inPrev |-> 0, link |-> 1, cross |-> FALSE, next |-> 0, inCode |-> 0, go |-> FALSE, recode |-> TRUE]

AbsentThread ==
  [pc |-> "absent", canRead |-> FALSE, canWrite |-> FALSE, inBuf |-> <<>>, start |-> 0, size |-> 0, l |-> FreshTurn]

\* MtDec_Construct, and what MtDec_Code sets.  cross: the bytes from crossStart to
\* crossEnd; parsed: outProcessed_Parse.
FreshMtDec ==
  [exitThread |-> FALSE, blockIndex |-> 1, isAllocError |-> FALSE, overflow |-> FALSE, threadingError |-> FALSE,
   readRes |-> "ok", codeRes |-> "ok", wasInterrupted |-> FALSE, limit |-> 0, started |-> 0,
   crossBlock |-> FALSE, cross |-> <<>>, readWasFinished |-> FALSE, filledStart |-> 0, filled |-> 0,
   interrupted |-> FALSE, interruptIndex |-> 0, progressRes |-> "ok", parsed |-> 0, inProcessed |-> 0]

MtDecInit ==
  /\ dm = FreshMtDec /\ dt = [t \in DecThreads |-> AbsentThread] /\ dc = [t \in DecThreads |-> FreshCoder]
  /\ input = 0 /\ decoded = <<>> /\ slips = <<>>

Slip(kind) == Len(slips) < J.faults /\ slips' = Append(slips, kind)

\* The critical section of MtDec_Progress_GetError_Spec and MtProgress_ProgressAdd:
\* what it returns.  The callback may ask to stop; the first error stays.
ProgressOutcomes ==
  {dm.progressRes} \cup (IF J.progress /\ dm.progressRes = "ok" /\ Len(slips) < J.faults THEN {"progress"} ELSE {})
ProgressSlip(res) == slips' = IF res = dm.progressRes THEN slips ELSE Append(slips, "progress")

IsInterrupted(index) == dm.interrupted /\ index > dm.interruptIndex

\* MtDec_Interrupt
InterruptAt(m, index) ==
  IF ~m.interrupted \/ index < m.interruptIndex THEN [m EXCEPT !.interrupted = TRUE, !.interruptIndex = index] ELSE m

\* MtDecThread_CreateAndStart: the events are reset.
StartedThread(th) == [th EXCEPT !.pc = IF @ = "absent" THEN "turn" ELSE @, !.canRead = FALSE, !.canWrite = FALSE]
-----------------------------------------------------------------------------
(* Reading: from Event_Wait(&t->canRead) to the Event_Set for the next.    *)

TakeTurn(t) ==
  LET b   == dm.blockIndex
      int == IsInterrupted(b)
      th  == [dt[t] EXCEPT !.canRead = FALSE]
  IN
  /\ dt[t].pc = "turn" /\ dt[t].canRead
  /\ IF dm.exitThread
     THEN dt' = [dt EXCEPT ![t] = [th EXCEPT !.pc = "left"]] /\ UNCHANGED <<dm, slips>>
     ELSE \E res \in ProgressOutcomes :
            /\ ProgressSlip(res) /\ dm' = [dm EXCEPT !.blockIndex = b + 1, !.progressRes = res]
            /\ dt' = [dt EXCEPT ![t] =
                 [th EXCEPT !.pc = IF res = "ok" /\ ~int THEN "fill" ELSE "skip",
                            !.l = [FreshTurn EXCEPT !.index = b, !.res = res, !.int = int,
                                                    !.finish = dm.readWasFinished, !.cross = dm.cross # <<>>]]]
  /\ UNCHANGED <<job, dc, input, decoded>>

\* A link of the thread's input; memcpy to the beginning of one.
Link(th)       == th.inBuf[th.l.link]
Put(buf, data) == [i \in 1 .. J.inBuf |-> IF i <= Len(data) THEN data[i] ELSE buf[i]]

\* The link that the loop is at is there, or is allocated, or cannot be.
TakeLink(t) ==
  LET new == dt[t].l.link > Len(dt[t].inBuf)
      pc1 == IF dt[t].l.cross THEN "parse" ELSE "read"
  IN
  /\ dt[t].pc = "fill"
  /\ \/ /\ UNCHANGED slips
        /\ dt' = [dt EXCEPT ![t].pc = pc1, ![t].inBuf = IF new THEN Append(@, [i \in 1 .. J.inBuf |-> 0]) ELSE @]
     \/ /\ new /\ Slip("alloc")
        /\ dt' = [dt EXCEPT ![t].pc = "pass", ![t].l.finish = TRUE, ![t].l.alloc = TRUE]
  /\ UNCHANGED <<job, dm, dc, input, decoded>>

\* SeqInStream_ReadMax has given n bytes.  An error of the stream ends the
\* reading; what came before it is decoded.
GotBytes(t, n, readRes) ==
  LET l   == dt[t].l
      fin == readRes # "ok" \/ n # J.inBuf
  IN /\ dm' = [dm EXCEPT !.readWasFinished = @ \/ fin, !.readRes = IF readRes # "ok" THEN readRes ELSE @]
     /\ dt' = [dt EXCEPT ![t] =
          [@ EXCEPT !.pc = IF l.size + n > l.inPrev THEN "check" ELSE "parse",
                    !.inBuf[l.link] = Put(@, [i \in 1 .. n |-> input + i]),
                    !.l = [l EXCEPT !.size = @ + n, !.got = n, !.start = IF l.link = 1 THEN n ELSE @,
                                    !.finish = fin]]]
     /\ input' = input + n

ReadLink(t) ==
  LET n == Fewer(J.inBuf, J.have - input)
  IN
  /\ dt[t].pc = "read"
  /\ \/ GotBytes(t, n, "ok") /\ UNCHANGED slips
     \/ Slip("read") /\ \E k \in {0, 1} \cap 0 .. n : GotBytes(t, k, "read")
  /\ UNCHANGED <<job, dc, decoded>>

CheckRead(t) ==
  LET int == IsInterrupted(dt[t].l.index)
  IN
  /\ dt[t].pc = "check"
  /\ \E res \in ProgressOutcomes :
       /\ ProgressSlip(res) /\ dm' = [dm EXCEPT !.progressRes = res]
       /\ dt' = [dt EXCEPT ![t].pc = IF res # "ok" \/ int THEN "pass" ELSE "parse",
                           ![t].l = [@ EXCEPT !.res = res, !.int = int, !.inPrev = dt[t].l.size]]
  /\ UNCHANGED <<job, dc, input, decoded>>

\* After Parse: what becomes of the thread and of the cross block.  l.size counts
\* all of the data, which is in m.cross or in the link.  noCross: MtDec_GetCrossBuff
\* returns NULL.
AfterParse(th, m, l, data, state, used, noCross) ==
  LET full    == used = Len(data)
      rest    == SubSeq(data, used + 1, Len(data))
      only    == [l EXCEPT !.size = @ - Len(rest), !.start = IF l.link = 1 THEN used ELSE @]
      copied  == IF l.cross THEN [th EXCEPT !.inBuf[l.link] = Put(@, SubSeq(data, 1, used))] ELSE th
      m1      == IF l.cross THEN [m EXCEPT !.cross = rest] ELSE m
      Over(x, y) == [th |-> [copied EXCEPT !.pc = "pass", !.l = [x EXCEPT !.needCode = TRUE]], m |-> y]
  IN IF state = "overflow"
     THEN [th |-> [th EXCEPT !.pc = "pass", !.l = [l EXCEPT !.finish = TRUE, !.over = TRUE],
                             !.inBuf[l.link] = IF l.cross THEN Put(@, data) ELSE @],
           m  |-> [m EXCEPT !.cross = <<>>]]
     ELSE IF state = "continue" /\ ~l.finish
     THEN IF full
          THEN [th |-> [copied EXCEPT !.pc = "fill", !.l = [l EXCEPT !.link = @ + 1, !.cross = FALSE]], m |-> m1]
          ELSE [th |-> [copied EXCEPT !.pc = "pass", !.l = [l EXCEPT !.res = "fail"]], m |-> m1]
     ELSE IF full THEN Over([l EXCEPT !.finish = @ \/ state = "end"], [m1 EXCEPT !.cross = <<>>])
     ELSE IF state = "end" THEN Over([only EXCEPT !.finish = TRUE], m1)
     ELSE IF l.cross THEN Over([only EXCEPT !.finish = FALSE], m1)
     ELSE IF noCross THEN Over([l EXCEPT !.finish = TRUE, !.alloc = TRUE], m1)
     ELSE Over([only EXCEPT !.finish = FALSE], [m1 EXCEPT !.crossBlock = TRUE, !.cross = rest])

\* The data of the link or, at first, what the last block left, is parsed.
LinkParsed(t, data, par) ==
  LET l  == dt[t].l
      l1 == IF l.cross THEN [l EXCEPT !.needWrite = TRUE, !.start = Len(data), !.size = Len(data)]
            ELSE [l EXCEPT !.needWrite = TRUE]
      Becomes(r) == dt' = [dt EXCEPT ![t] = r.th] /\ dm' = r.m
      Ends(noCross) ==
        Becomes(AfterParse(dt[t], [dm EXCEPT !.parsed = par.parsed], l1, data, par.coder.state, par.used, noCross))
  IN
  /\ dc' = [dc EXCEPT ![t] = par.coder]
  /\ \/ Ends(FALSE) /\ UNCHANGED slips
     \/ /\ par.coder.state \in {"new", "continue"} /\ par.used # Len(data) /\ ~l.cross /\ ~dm.crossBlock
        /\ Ends(TRUE) /\ Slip("alloc")

ParseData(t) ==
  LET l    == dt[t].l
      data == IF l.cross THEN dm.cross ELSE SubSeq(Link(dt[t]), 1, l.got)
  IN /\ dt[t].pc = "parse"
     /\ LinkParsed(t, data, ParseCallback(dc[t], l.link = 1, data, dm.parsed))
     /\ UNCHANGED <<job, input, decoded>>

NextThread(t, started) == IF t + 1 >= started THEN 0 ELSE t + 1

\* The block is prepared for decoding; the next thread, which may have to be
\* started, gets the turn to read, unless this block ends the reading.
PassTurn(t) ==
  LET l     == dt[t].l
      asks  == dt[t].pc = "pass" /\ l.res = "ok"
      res   == IF asks THEN dm.progressRes ELSE l.res
      int   == IF asks THEN IsInterrupted(l.index) ELSE l.int
      pre   == res = "ok" /\ l.needCode /\ ~int
      empty == pre /\ dc[t].inPreSize = 0
      fin   == l.finish \/ res # "ok" \/ int \/ empty
      more  == dm.started < dm.limit
      \* l with the results so far, and where the thread goes on
      Goes(x) == [dt[t] EXCEPT !.pc = IF x.res = "ok" /\ x.needCode THEN "code" ELSE "write",
                               !.l = [x EXCEPT !.link = 1, !.inPrev = 0]]
      l1    == [l EXCEPT !.res = res, !.int = int, !.finish = fin, !.needCode = @ /\ ~empty,
                         !.codeRes = IF empty THEN "data" ELSE @]
      Given(n, d) == [d EXCEPT ![n].canRead = TRUE]
      On(n)  == [l1 EXCEPT !.next = n]
  IN
  /\ dt[t].pc \in {"pass", "skip"}
  /\ \/ /\ dc' = IF pre /\ ~empty THEN [dc EXCEPT ![t] = PreCoded(@)]
                 ELSE IF empty THEN [dc EXCEPT ![t].codeRes = "data"] ELSE dc
        /\ \/ fin /\ dt' = [dt EXCEPT ![t] = Goes(l1)] /\ UNCHANGED <<dm, slips>>
           \/ /\ ~fin /\ ~more /\ UNCHANGED <<dm, slips>>
              /\ LET n == NextThread(t, dm.started) IN dt' = Given(n, [dt EXCEPT ![t] = Goes(On(n))])
           \/ /\ ~fin /\ more /\ UNCHANGED slips /\ dm' = [dm EXCEPT !.started = @ + 1]
              /\ LET n == NextThread(t, dm.started + 1)
                 IN dt' = Given(n, [dt EXCEPT ![t] = Goes(On(n)), ![dm.started] = StartedThread(@)])
           \/ /\ ~fin /\ more /\ dm.started = 1 /\ Slip("thread") /\ UNCHANGED dm
              /\ dt' = [dt EXCEPT ![t] = Goes([l1 EXCEPT !.finish = TRUE, !.needCode = FALSE, !.thrErr = TRUE])]
           \/ /\ ~fin /\ more /\ dm.started > 1 /\ Slip("thread") /\ dm' = [dm EXCEPT !.limit = dm.started]
              /\ LET n == NextThread(t, dm.started) IN dt' = Given(n, [dt EXCEPT ![t] = Goes(On(n))])
     \/ /\ pre /\ ~empty /\ Slip("alloc") /\ UNCHANGED dm
        /\ dc' = [dc EXCEPT ![t] = PreCodeFailed(@)]
        /\ dt' = [dt EXCEPT ![t] = Goes([l1 EXCEPT !.finish = TRUE, !.needCode = FALSE, !.codeRes = "mem"])]
  /\ UNCHANGED <<job, input, decoded>>
-----------------------------------------------------------------------------
(* Decoding: one call of Code for each link.                               *)

LinkCoded(t, r) ==
  LET l    == dt[t].l
      l1   == [l EXCEPT !.inCode = r.coder.inCodeSize]
      int  == IsInterrupted(l.index)
  IN
  /\ dc' = [dc EXCEPT ![t] = r.coder]
  /\ IF r.res # "ok"
     THEN /\ dm' = InterruptAt(dm, l.index) /\ UNCHANGED slips
          /\ dt' = [dt EXCEPT ![t].pc = "write", ![t].l = [l1 EXCEPT !.codeRes = r.res]]
     ELSE IF r.stop \/ l1.inCode = l.size
     THEN dt' = [dt EXCEPT ![t].pc = "write", ![t].l = l1] /\ UNCHANGED <<dm, slips>>
     ELSE \E res \in ProgressOutcomes :
            /\ ProgressSlip(res) /\ dm' = [dm EXCEPT !.progressRes = res]
            /\ dt' = [dt EXCEPT ![t].pc = IF res # "ok" \/ int THEN "write" ELSE "code",
                                ![t].l = [l1 EXCEPT !.res = res, !.int = int, !.link = @ + 1]]

CodeLink(t) ==
  LET l    == dt[t].l
      size == IF l.link = 1 THEN l.start ELSE Fewer(J.inBuf, l.size - l.inCode)
  IN /\ dt[t].pc = "code"
     /\ LinkCoded(t, CodeCallback(dc[t], SubSeq(Link(dt[t]), 1, size)))
     /\ UNCHANGED <<job, input, decoded>>
-----------------------------------------------------------------------------
(* Writing: from Event_Wait(&t->canWrite) to the end of the turn.          *)

\* What the errors of this block are to the decoder, if it is the first with one.
Recorded(l) ==
  LET alloc == l.alloc \/ l.codeRes = "mem"
  IN IF dm.wasInterrupted THEN dm
     ELSE [dm EXCEPT !.wasInterrupted = l.codeRes # "ok" \/ l.thrErr \/ alloc \/ l.over,
                     !.codeRes = IF l.codeRes # "ok" THEN l.codeRes ELSE @,
                     !.threadingError = @ \/ l.thrErr, !.isAllocError = @ \/ alloc, !.overflow = @ \/ l.over]

Withheld(l) == l.alloc \/ l.thrErr \/ l.over \/ l.codeRes = "mem"

\* Lzma2DecMt_MtCallback_Write: all is written, or the stream takes less.
WriteTurn(t) ==
  LET l     == dt[t].l
      c     == dc[t]
      m1    == Recorded(l)
      int   == l.int \/ dm.wasInterrupted
      res   == IF l.needCode THEN dm.progressRes ELSE l.res
      write == l.needWrite /\ res = "ok" /\ ~int /\ ~Withheld(l)
      short == BlockIsShort(c)
      out   == BlockOutput(c)
      Ends(r, go, recode) ==
        dt' = [dt EXCEPT ![t] = [@ EXCEPT !.pc = "written", !.canWrite = FALSE,
                 !.l = [l EXCEPT !.int = int, !.res = r, !.go = go, !.recode = recode]]]
      Counted == dm' = [m1 EXCEPT !.inProcessed = @ + c.inCodeSize]
  IN
  /\ dt[t].pc = "write" /\ dt[t].canWrite /\ ~dm.exitThread
  /\ \/ /\ ~write /\ dm' = m1 /\ UNCHANGED <<decoded, slips>>
        /\ IF l.needWrite THEN Ends("ok", FALSE, TRUE) ELSE Ends(res, ~l.finish, TRUE)
     \/ write /\ short /\ Counted /\ Ends("fail", FALSE, TRUE) /\ UNCHANGED <<decoded, slips>>
     \/ /\ write /\ ~short /\ Counted /\ decoded' = decoded \o out /\ UNCHANGED slips
        /\ Ends("ok", c.state \notin {"overflow", "end"}, FALSE)
     \/ /\ write /\ ~short /\ Counted /\ out # <<>> /\ Slip("write")
        /\ decoded' = decoded \o SubSeq(out, 1, Len(out) - 1)
        /\ Ends("write", FALSE, FALSE)
  /\ UNCHANGED <<job, dc, input>>

\* MtProgress_ProgressAdd, when a block was decoded, may end everything.
ProgressStops(t) ==
  /\ dt[t].pc = "write" /\ dt[t].canWrite /\ dt[t].l.needCode
  /\ J.progress /\ dm.progressRes = "ok" /\ Slip("progress")
  /\ dm' = [dm EXCEPT !.progressRes = "progress"]
  /\ UNCHANGED <<job, dt, dc, input, decoded>>

\* Later blocks are interrupted after an error; a block that was not written is
\* kept.  The turn to write goes on, reading is taken up again with thread 0, or
\* the threads leave.
EndTurn(t) ==
  LET l      == dt[t].l
      failed == l.needWrite /\ l.res # "ok"
      stops  == l.needWrite /\ (l.res # "ok" \/ (~l.go /\ ~l.finish))
      m1     == [dm EXCEPT !.wasInterrupted = @ \/ failed]
      m2     == IF stops THEN InterruptAt(m1, l.index) ELSE m1
      kept   == /\ l.recode
                /\ \/ ~l.needCode \/ l.res # "ok" \/ m2.wasInterrupted \/ l.codeRes # "ok"
                   \/ l.int \/ m2.filled # 0
      counts == l.size # 0 \/ ~l.finish
      m3     == IF kept THEN [m2 EXCEPT !.filledStart = IF m2.filled = 0 THEN t ELSE @,
                                        !.filled = IF counts THEN @ + 1 ELSE @] ELSE m2
      leaves == l.finish /\ ~l.go
      mine   == [dt[t] EXCEPT !.pc = IF leaves /\ t = 0 THEN "left" ELSE "turn", !.l = FreshTurn,
                              !.start = IF kept /\ counts THEN l.start ELSE @,
                              !.size  = IF kept /\ counts THEN l.size ELSE @]
      d1     == [dt EXCEPT ![t] = mine]
  IN
  /\ dt[t].pc = "written"
  /\ dm' = [m3 EXCEPT !.exitThread = @ \/ (leaves /\ t # 0)]
  /\ dt' = IF ~l.finish THEN [d1 EXCEPT ![l.next].canWrite = TRUE]
           ELSE IF l.go THEN [d1 EXCEPT ![0].canWrite = TRUE, ![0].canRead = TRUE]
           ELSE IF t = 0 THEN d1 ELSE [d1 EXCEPT ![0].canRead = TRUE]
  /\ UNCHANGED <<job, dc, input, decoded, slips>>

DecThreadStep(t) ==
  \/ TakeTurn(t) \/ TakeLink(t) \/ ReadLink(t) \/ CheckRead(t) \/ ParseData(t) \/ PassTurn(t)
  \/ CodeLink(t) \/ ProgressStops(t) \/ WriteTurn(t) \/ EndTurn(t)
=============================================================================
