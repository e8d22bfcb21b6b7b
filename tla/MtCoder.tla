------------------------------ MODULE MtCoder ------------------------------
(***************************************************************************)
(* The multithreaded coder of MtCoder.c, without MTCODER_USE_WRITE_THREAD: *)
(* threads take turns to read a block (readEvent), code it into one of the *)
(* output buffers, and the thread whose block is next in line writes it    *)
(* and all finished blocks behind it.  Events, the semaphore and the       *)
(* critical sections are the atomic objects of SyncObject.                 *)
(***************************************************************************)
EXTENDS Integers, Sequences, FiniteSets

CONSTANTS
  Setups,        \* what callers set: threads (numThreadsMax), extra (0 .. 3: how small
                 \* blockSize is), block (blockSize), size (of the input), stream (is there
                 \* an inStream, or is the input in memory?), expected (does
                 \* expectedDataSize name the size?); two bounds: faults, the calls that
                 \* fail, and calls, of MtCoder_Code with one CMtCoder
  MaxThreads

ASSUME MtCoderAssumption ==
  /\ Setups \subseteq [threads : 1 .. MaxThreads, extra : 0 .. 3, block : Nat \ {0}, size : Nat,
                       stream : BOOLEAN, expected : BOOLEAN, faults : Nat, calls : Nat]
  /\ MaxThreads \in Nat \ {0}

VARIABLES
  setup, faults,
  main,      \* [pc, calls, result] of the caller
  p,         \* the CMtCoder
  thread,    \* the CMtCoderThreads, and what ThreadFunc2 keeps of its block
  outBuf,    \* what is in an output buffer: [from, to, finished]
  written    \* what the callback has written

coderVars == <<setup, faults, main, p, thread, outBuf, written>>

NumThreads   == setup.threads
NumBlocksMax == NumThreads + (NumThreads \div 8) + 1 + setup.extra
BlocksMax    == NumBlocksMax + 1      \* MTCODER_BLOCKS_MAX is never smaller
CoderThreads == 0 .. NumThreads - 1
Slots        == 0 .. NumBlocksMax - 1
None         == -1                    \* (unsigned)(int)-1

Absent == [pc |-> "absent", start |-> FALSE, stop |-> FALSE, bi |-> 0, buf |-> None,
           from |-> 0, to |-> 0, finished |-> FALSE, res |-> "ok", ready |-> FALSE, count |-> 0]

\* The fields that MtCoder_Code sets before the first thread starts.
Fresh ==
  [readEvent |-> FALSE, stopReading |-> FALSE, processed |-> 0, blockIndex |-> 0, readRes |-> "ok",
   sem |-> NumBlocksMax, progressRes |-> "ok", started |-> 1, finished |-> 0, finishedEvent |-> FALSE,
   free |-> [i \in 1 .. BlocksMax |-> i - 1], writeIndex |-> 0, writeRes |-> "ok",
   ready |-> [s \in Slots |-> FALSE],
   blocks |-> [s \in Slots |-> [res |-> "ok", buf |-> None, finished |-> FALSE]]]

\* MtCoder_Construct
CoderInit ==
  /\ setup \in Setups /\ faults = 0
  /\ main = [pc |-> "idle", calls |-> 0, result |-> "none"]
  /\ p = Fresh /\ thread = [t \in CoderThreads |-> Absent]
  /\ outBuf = [b \in 0 .. BlocksMax - 1 |-> [from |-> 0, to |-> 0, finished |-> FALSE]]
  /\ written = <<>>

Fault == faults < setup.faults /\ faults' = faults + 1

\* MtProgress_SetError keeps the first error.
Noted(res) == IF p.progressRes = "ok" THEN res ELSE p.progressRes

\* MtCoderThread_CreateAndStart
Started(th) == [th EXCEPT !.pc = IF @ = "absent" THEN "start" ELSE @, !.stop = FALSE, !.start = TRUE]
-----------------------------------------------------------------------------
(* The caller: MtCoder_Code and MtCoder_Destruct                           *)

CodeBegin ==
  /\ main.pc = "idle" /\ main.calls < setup.calls /\ main.result \in {"none", "ok"}
  /\ p' = Fresh /\ written' = <<>> /\ UNCHANGED <<setup, outBuf>>
  /\ \/ /\ thread' = [thread EXCEPT ![0] = Started(@)] /\ UNCHANGED faults
        /\ main' = [pc |-> "open", calls |-> main.calls + 1, result |-> "none"]
     \/ /\ Fault /\ thread[0].pc = "absent" /\ UNCHANGED thread
        /\ main' = [main EXCEPT !.calls = @ + 1, !.result = "thread"]

CodeOpen ==
  /\ main.pc = "open"
  /\ p' = [p EXCEPT !.readEvent = TRUE] /\ main' = [main EXCEPT !.pc = "wait"]
  /\ UNCHANGED <<setup, faults, thread, outBuf, written>>

CodeResult ==
  IF p.readRes # "ok" THEN p.readRes ELSE IF p.progressRes # "ok" THEN p.progressRes ELSE p.writeRes

\* finishedEvent has come; after an error MtCoder_Free closes the threads.
CodeEnd ==
  /\ main.pc = "wait" /\ p.finishedEvent /\ p' = [p EXCEPT !.finishedEvent = FALSE]
  /\ main' = [main EXCEPT !.result = CodeResult, !.pc = IF CodeResult = "ok" THEN "idle" ELSE "free"]
  /\ UNCHANGED <<setup, faults, thread, outBuf, written>>

Destruct ==
  /\ main.pc = "idle" /\ main' = [main EXCEPT !.pc = "free"]
  /\ UNCHANGED <<setup, faults, p, thread, outBuf, written>>

\* MtCoderThread_Destruct: each thread in turn is told to stop and waited for.
StopThread(t) ==
  /\ main.pc = "free" /\ thread[t].pc # "absent" /\ ~thread[t].stop
  /\ \A u \in 0 .. t - 1 : thread[u].pc = "absent"
  /\ thread' = [thread EXCEPT ![t] = [@ EXCEPT !.stop = TRUE, !.start = TRUE]]
  /\ UNCHANGED <<setup, faults, main, p, outBuf, written>>

Freed ==
  /\ main.pc = "free" /\ \A t \in CoderThreads : thread[t].pc = "absent"
  /\ main' = [main EXCEPT !.pc = "gone"]
  /\ UNCHANGED <<setup, faults, p, thread, outBuf, written>>
-----------------------------------------------------------------------------
(* A thread: ThreadFunc and ThreadFunc2                                    *)

\* Event_Wait(&t->startEvent)
Wake(t) ==
  /\ thread[t].pc = "start" /\ thread[t].start
  /\ thread' = [thread EXCEPT ![t] = IF @.stop THEN Absent ELSE [@ EXCEPT !.start = FALSE, !.pc = "turn"]]
  /\ UNCHANGED <<setup, faults, main, p, outBuf, written>>

\* Event_Wait(&mtc->readEvent): the thread may read, or leaves if reading is over.
Turn(t) ==
  /\ thread[t].pc = "turn" /\ p.readEvent
  /\ p' = [p EXCEPT !.readEvent = p.stopReading]
  /\ thread' = [thread EXCEPT ![t].pc = IF p.stopReading THEN "tail" ELSE "read"]
  /\ UNCHANGED <<setup, faults, main, outBuf, written>>

Got(t, to, finished, res) ==
  thread' = [thread EXCEPT ![t] = [@ EXCEPT !.pc = "slot", !.from = p.processed, !.to = to,
                                            !.finished = finished, !.res = res]]

ReadTo == IF p.processed + setup.block > setup.size THEN setup.size ELSE p.processed + setup.block

\* The next block is read, or cut from the input in memory.  An error that any
\* thread has recorded, or one of the stream or the allocation, ends the reading.
Read(t) ==
  /\ thread[t].pc = "read"
  /\ \/ /\ p.progressRes # "ok" /\ Got(t, p.processed, TRUE, p.progressRes) /\ UNCHANGED <<faults, p>>
     \/ /\ p.progressRes = "ok" /\ p' = [p EXCEPT !.processed = ReadTo]
        /\ Got(t, ReadTo, IF setup.stream THEN ReadTo - p.processed # setup.block ELSE ReadTo = setup.size, "ok")
        /\ UNCHANGED faults
     \/ /\ p.progressRes = "ok" /\ setup.stream /\ Fault
        /\ p' = [p EXCEPT !.readRes = "read", !.progressRes = "read"]
        /\ Got(t, p.processed, TRUE, "read")
  /\ UNCHANGED <<setup, main, outBuf, written>>

\* The thread waits for a slot, starts the next thread while there may be more
\* to read, and passes its turn on.
TakeSlot(t) ==
  /\ thread[t].pc = "slot" /\ p.sem > 0
  /\ LET res  == IF thread[t].res = "ok" THEN p.progressRes ELSE thread[t].res
         fin  == res # "ok" \/ thread[t].finished
         more == ~fin /\ p.started < NumThreads /\ ~(setup.expected /\ p.processed = setup.size)
         Pass(f) == [p EXCEPT !.sem = @ - 1, !.blockIndex = (@ + 1) % NumBlocksMax,
                              !.readEvent = TRUE, !.stopReading = f]
         Taken(f, r) == [thread[t] EXCEPT !.bi = p.blockIndex, !.finished = f, !.res = r, !.buf = None,
                                          !.pc = IF r = "ok" THEN "buffer" ELSE "publish"]
     IN  \/ /\ ~more /\ p' = Pass(fin) /\ UNCHANGED faults
            /\ thread' = [thread EXCEPT ![t] = Taken(fin, res)]
         \/ /\ more /\ p' = [Pass(FALSE) EXCEPT !.started = @ + 1] /\ UNCHANGED faults
            /\ thread' = [thread EXCEPT ![t] = Taken(FALSE, res), ![p.started] = Started(@)]
         \/ /\ more /\ Fault /\ p' = [Pass(TRUE) EXCEPT !.progressRes = Noted("thread")]
            /\ thread' = [thread EXCEPT ![t] = Taken(TRUE, "thread")]
  /\ UNCHANGED <<setup, main, outBuf, written>>

Buffer(t) ==
  /\ thread[t].pc = "buffer"
  /\ thread' = [thread EXCEPT ![t] = [@ EXCEPT !.pc = "code", !.buf = Head(p.free)]]
  /\ p' = [p EXCEPT !.free = Tail(@)]
  /\ UNCHANGED <<setup, faults, main, outBuf, written>>

\* mtCallback->Code
Code(t) ==
  /\ thread[t].pc = "code"
  /\ \/ /\ outBuf' = [outBuf EXCEPT ![thread[t].buf] =
             [from |-> thread[t].from, to |-> thread[t].to, finished |-> thread[t].finished]]
        /\ thread' = [thread EXCEPT ![t].pc = "publish"] /\ UNCHANGED <<faults, p>>
     \/ /\ Fault /\ p' = [p EXCEPT !.progressRes = Noted("code")] /\ UNCHANGED outBuf
        /\ thread' = [thread EXCEPT ![t] = [@ EXCEPT !.pc = "publish", !.res = "code"]]
  /\ UNCHANGED <<setup, main, written>>

Leaves(fin, res) == IF fin \/ res # "ok" THEN "tail" ELSE "turn"

Entered(t) == [res |-> thread[t].res, buf |-> thread[t].buf, finished |-> thread[t].finished]

\* The block is entered; the thread whose slot is next becomes the writer.
PublishBlock(t) ==
  LET mine == p.writeIndex = thread[t].bi IN
  /\ thread[t].pc = "publish"
  /\ p' = IF mine THEN [p EXCEPT !.blocks[thread[t].bi] = Entered(t), !.writeIndex = None]
          ELSE [p EXCEPT !.blocks[thread[t].bi] = Entered(t), !.ready[thread[t].bi] = TRUE]
  /\ thread' = [thread EXCEPT ![t] =
       [@ EXCEPT !.pc = IF mine THEN "write" ELSE Leaves(thread[t].finished, thread[t].res),
                 !.res = IF mine /\ p.writeRes # "ok" THEN p.writeRes ELSE thread[t].res]]
  /\ UNCHANGED <<setup, faults, main, outBuf, written>>

\* mtCallback->Write, of a block that was coded and comes after no error.
Write(t) ==
  LET due == thread[t].res = "ok" /\ thread[t].buf # None IN
  /\ thread[t].pc = "write"
  /\ \/ /\ due /\ written' = Append(written, outBuf[thread[t].buf])
        /\ thread' = [thread EXCEPT ![t].pc = "advance"] /\ UNCHANGED <<faults, p>>
     \/ /\ due /\ Fault /\ p' = [p EXCEPT !.writeRes = "write", !.progressRes = Noted("write")]
        /\ thread' = [thread EXCEPT ![t] = [@ EXCEPT !.pc = "advance", !.res = "write"]] /\ UNCHANGED written
     \/ ~due /\ thread' = [thread EXCEPT ![t].pc = "advance"] /\ UNCHANGED <<faults, p, written>>
  /\ UNCHANGED <<setup, main, outBuf>>


\* The buffer goes back; the next slot is taken over, or left to its thread.
Advance(t) ==
  LET wi == (thread[t].bi + 1) % NumBlocksMax
      kept == IF thread[t].buf = None THEN p.free ELSE <<thread[t].buf>> \o p.free
  IN
  /\ thread[t].pc = "advance"
  /\ p' = IF p.ready[wi] THEN [p EXCEPT !.free = kept, !.ready[wi] = FALSE]
          ELSE [p EXCEPT !.free = kept, !.writeIndex = wi]
  /\ thread' = [thread EXCEPT ![t] = [@ EXCEPT !.pc = "release", !.bi = wi, !.ready = p.ready[wi]]]
  /\ UNCHANGED <<setup, faults, main, outBuf, written>>

\* What the writer goes on with: the block it took over, if there is one.
GoesOn(th) ==
  LET b == p.blocks[th.bi] IN
  IF th.ready
  THEN [th EXCEPT !.pc = "write", !.buf = b.buf, !.finished = b.finished, !.res = IF @ = "ok" THEN b.res ELSE @]
  ELSE [th EXCEPT !.pc = Leaves(th.finished, th.res)]

ReleaseSlot(t) ==
  /\ thread[t].pc = "release" /\ p' = [p EXCEPT !.sem = @ + 1]
  /\ thread' = [thread EXCEPT ![t] = GoesOn(@)]
  /\ UNCHANGED <<setup, faults, main, outBuf, written>>

\* InterlockedIncrement(&mtc->numFinishedThreads)
Count(t) ==
  /\ thread[t].pc = "tail" /\ p' = [p EXCEPT !.finished = @ + 1]
  /\ thread' = [thread EXCEPT ![t] = [Absent EXCEPT !.pc = "compare", !.count = p.finished + 1,
                                                    !.start = thread[t].start, !.stop = thread[t].stop]]
  /\ UNCHANGED <<setup, faults, main, outBuf, written>>

\* Mutant: the first thread that leaves ends the call.
Compare_First(t) ==
  /\ thread[t].pc = "compare"
  /\ p' = [p EXCEPT !.finishedEvent = @ \/ thread[t].count = 1]
  /\ thread' = [thread EXCEPT ![t] = [@ EXCEPT !.pc = "start", !.count = 0]]
  /\ UNCHANGED <<setup, faults, main, outBuf, written>>

\* Mutant: all threads that may be started are waited for.
Compare_Limit(t) ==
  /\ thread[t].pc = "compare"
  /\ p' = [p EXCEPT !.finishedEvent = @ \/ thread[t].count = NumThreads]
  /\ thread' = [thread EXCEPT ![t] = [@ EXCEPT !.pc = "start", !.count = 0]]
  /\ UNCHANGED <<setup, faults, main, outBuf, written>>

\* ... compared with numStartedThreads, which is read after that.
Compare(t) ==
  /\ thread[t].pc = "compare"
  /\ p' = [p EXCEPT !.finishedEvent = @ \/ thread[t].count = p.started]
  /\ thread' = [thread EXCEPT ![t] = [@ EXCEPT !.pc = "start", !.count = 0]]
  /\ UNCHANGED <<setup, faults, main, outBuf, written>>

ThreadStep(t) ==
  \/ Wake(t) \/ Turn(t) \/ Read(t) \/ TakeSlot(t) \/ Buffer(t) \/ Code(t) \/ PublishBlock(t) \/ Write(t)
  \/ Advance(t) \/ ReleaseSlot(t) \/ Count(t) \/ Compare(t)

MainStep == CodeOpen \/ CodeEnd \/ Freed \/ \E t \in CoderThreads : StopThread(t)

\* The coder is destroyed.
Gone == main.pc = "gone" /\ UNCHANGED coderVars

\* What goes on after a call has begun.
CoderStep == Destruct \/ MainStep \/ (\E t \in CoderThreads : ThreadStep(t)) \/ Gone

CoderNext == CodeBegin \/ CoderStep
CoderSpec == CoderInit /\ [][CoderNext]_coderVars

\* No thread is still about to compare its count: MtCoder_Code returns when one
\* has, which need not be the only one, and does not wait for the others.
Rested == \A t \in CoderThreads : thread[t].pc # "compare"

\* A caller who lets the threads of one call come to rest before the next.
PatientNext == (Rested /\ CodeBegin) \/ CoderStep
PatientSpec == CoderInit /\ [][PatientNext]_coderVars

\* Every thread that can go on does; nobody need call.
FairCoder ==
  WF_coderVars(MainStep) /\ \A t \in 0 .. MaxThreads - 1 : WF_coderVars(t \in CoderThreads /\ ThreadStep(t))
-----------------------------------------------------------------------------
(* Properties                                                              *)

CoderLabels == {"absent", "start", "turn", "read", "slot", "buffer", "code", "publish",
           "write", "advance", "release", "tail", "compare"}
Codes  == {"ok", "read", "thread", "code", "write"}

\* Type correctness; the semaphore never exceeds the number of slots.
CoderTypeOK ==
  /\ setup \in Setups /\ faults \in 0 .. setup.faults
  /\ main.pc \in {"idle", "open", "wait", "free", "gone"} /\ main.result \in Codes \cup {"none"}
  /\ p.sem \in 0 .. NumBlocksMax /\ p.blockIndex \in Slots /\ p.writeIndex \in Slots \cup {None}
  /\ p.started \in 1 .. NumThreads /\ p.finished \in 0 .. NumThreads /\ p.processed \in 0 .. setup.size
  /\ {p.readRes, p.progressRes, p.writeRes} \subseteq Codes
  /\ \A t \in CoderThreads : thread[t].pc \in CoderLabels /\ thread[t].bi \in Slots

InWork(t) == thread[t].pc \notin {"absent", "start", "tail", "compare"}

\* Blocks are written in the order of the input and, until something failed,
\* without a gap.
WrittenInOrder ==
  \A i \in 1 .. Len(written) - 1 :
    /\ written[i].to <= written[i + 1].from
    /\ p.progressRes = "ok" => written[i].to = written[i + 1].from

\* A call that returns SZ_OK has written all of the input, and told exactly the
\* last block that it is the last.
OkIsComplete ==
  main.pc \in {"idle", "free", "gone"} /\ main.result = "ok" =>
    /\ written # <<>> /\ written[1].from = 0 /\ written[Len(written)].to = setup.size
    /\ \A i \in 1 .. Len(written) : written[i].finished <=> i = Len(written)

\* An output buffer is in one place: free, with the thread that fills or writes
\* it, or in a slot that waits to be written.
BufferHasOneOwner ==
  LET Holders(b) == {t \in CoderThreads : thread[t].pc \in {"code", "publish", "write", "advance"} /\ thread[t].buf = b}
      Waiting(b) == {s \in Slots : p.ready[s] /\ p.blocks[s].buf = b}
      Taken(b)   == {t \in CoderThreads : thread[t].pc = "release" /\ thread[t].ready /\ p.blocks[thread[t].bi].buf = b}
      Free(b)    == {i \in DOMAIN p.free : p.free[i] = b}
  IN  \A b \in 0 .. BlocksMax - 1 :
        Cardinality(Holders(b)) + Cardinality(Waiting(b)) + Cardinality(Taken(b)) + Cardinality(Free(b)) = 1

\* No more output buffers are ever used than there are slots, so that the
\* callbacks need not allocate the others.
BuffersBounded == \A t \in CoderThreads : thread[t].buf < NumBlocksMax

\* At most one thread writes, and the line has a next slot exactly when none does.
OneWriter ==
  LET writing == {t \in CoderThreads : \/ thread[t].pc \in {"write", "advance"}
                                       \/ thread[t].pc = "release" /\ thread[t].ready}
  IN  Cardinality(writing) = IF p.writeIndex = None THEN 1 ELSE 0

\* When MtCoder_Code has returned no thread reads, codes or writes any more.
ReturnedMeansQuiet ==
  main.pc \in {"idle", "gone"} => \A t \in CoderThreads : ~InWork(t)

\* A call returns, whatever fails; threads that are told to stop do.
CallReturns == /\ (main.pc = "open") ~> (main.pc \in {"idle", "free"})
               /\ (main.pc = "free") ~> (main.pc = "gone")

\* Slots, output buffers and the right to write are never held twice or lost.
BuffersAreOwned == BufferHasOneOwner /\ BuffersBounded /\ OneWriter

\* What MtCoder_Code writes, and what it returns when and while it does, with each
\* buffer in one hand.
BlocksAreWritten ==
  CoderTypeOK /\ WrittenInOrder /\ OkIsComplete /\ ReturnedMeansQuiet /\ BuffersAreOwned
=============================================================================
