--------------------------- MODULE CompressProofs ---------------------------
(***************************************************************************)
(* Proofs about compressfile and the growing buffers it writes to: what    *)
(* was encoded is not lost between the range encoder, the output stream    *)
(* and read(), and a buffer keeps the bytes that are written to it in      *)
(* order, for any input and any sizes of the reads, the blocks, the        *)
(* buffers and the window.                                                 *)
(***************************************************************************)
EXTENDS CompressFile, Streams, LzFindMtProofs, SequenceTheorems

EncType == [needInit : BOOLEAN, finished : BOOLEAN, result : {"ok", "read", "write"},
            processed : 0 .. CodeBlockSize, pending : 0 .. RcBufSize, rcFailed : BOOLEAN]
OutType == [size : Nat, lost : BOOLEAN]

\* What the caller is doing, the encoder and its threads.
CallInv ==
  /\ call = "new" => enc.needInit /\ delivered = 0 /\ enc.pending = 0 /\ request.returned = 1
  /\ enc.needInit => ~enc.finished
  /\ call = "encode" => ~enc.needInit /\ ~enc.finished
  /\ pc["lz"] \in NextLabels => call = "encode"
  /\ lz.eof /\ ~enc.needInit => enc.finished \/ call = "encode"
  /\ call \in {"test", "finish"} => enc.finished \/ ~WantsMore
  /\ enc.pending < RcBufSize
  /\ enc.rcFailed = outStream.lost

\* The encoder has finished without an error.
EndInv ==
  enc.finished /\ enc.result = "ok" =>
    /\ lz.eof /\ mf.ended /\ lz.pos = mf.len
    /\ enc.pending = 0 /\ ~outStream.lost

FileInv == CompressTypeOK /\ CallInv /\ OutputAccounted /\ EndInv /\ EmptyMeansOver
-----------------------------------------------------------------------------
(* compressfile makes no other use of the match finder than LzFindMt allows. *)

LEMMA StepIsFinderStep == [CompressNext]_allVars => [Next]_vars
<1> SUFFICES ASSUME [CompressNext]_allVars PROVE [Next]_vars
  OBVIOUS
<1> USE DEF Next, LzCalls, HashThread
<1>1. CASE EncStep
  BY <1>1 DEF EncStep, EncInit, EncBegins, EncAsks, EncTakesPosition, EncEndsBlock, EncFlushes
<1>2. CASE CallStep
  BY <1>2 DEF CallStep, Construct, Create, ReadLoop, CodeReturns, Finish, ReadReturn, DecrefFile,
              FinalizerReturns, Destroy, vars
<1>3. CASE HashThreadStep
  BY <1>3 DEF HashThreadStep, HashAsksFile, HashWaitsForFile, HashFills
<1>4. CASE Read \/ Dealloc \/ (LzStep /\ UNCHANGED pyVars) \/ (BtThread /\ UNCHANGED pyVars) \/ UNCHANGED allVars
  BY <1>4 DEF Read, Dealloc, allVars
<1> QED BY <1>1, <1>2, <1>3, <1>4 DEF CompressNext, LzThreadStep

(* The threads of compressfile behave as those of LzFindMt, so that all that   *)
(* was proved of the match finder holds in compressfile.                       *)
THEOREM UsesFinder == CompressSpec => Spec
<1>1. CompressInit => Init
  BY DEF CompressInit
<1> QED BY <1>1, StepIsFinderStep, PTL DEF CompressSpec, Spec

\* The producers do not touch what lz knows.
LEMMA LzIsLeftAlone ==
  ASSUME Inv, DataTypeOK, HashThread \/ BtThread
  PROVE  pc'["lz"] = pc["lz"] /\ lz'.pos = lz.pos /\ lz'.eof = lz.eof
<1>1. PcTypeOK
  BY DEF Inv, TypeOK
<1> USE DEF PcTypeOK, Goto, Threads, Syncs, dataVars
<1>2. CASE HashMovesWindow
  BY <1>1, <1>2 DEF HashMovesWindow, HashMove, DataTypeOK
<1>3. CASE HashFillsBlock
  BY <1>1, <1>3 DEF HashFillsBlock, Publish
<1>4. CASE HashThread /\ ~HashMovesWindow /\ ~HashFillsBlock
  BY <1>1, <1>4
  DEF HashThread, HashEnterBt, WaitFree, WaitStart, Consume, HashEnterHash, HashCheck, ReportStopped
<1>5. CASE BtBeginsBlock \/ BtAsks \/ BtReadsHeader
  BY <1>1, <1>5
  DEF BtBeginsBlock, BtCheck, BtAsks, BtGetNextBlock, GetNextBlock, StartProducer, FreeCurrentBlock,
      BtReadsHeader, NextLock, LockBuffer
<1>6. CASE BtGetMatches \/ BtEndsBlock
  BY <1>1, <1>6 DEF BtGetMatches, BtEndsBlock, BtUnlock, syncVars
<1>7. CASE \/ WaitStart("bt", "free") \/ WaitFree("bt", "free")
           \/ BtLock \/ NextRelease("bt", "hash") \/ NextWait("bt", "hash")
           \/ BtPublish \/ BtStop
           \/ StopRelease("bt", "hash") \/ StopWait("bt", "hash", "stopped")
           \/ ReportStopped("bt")
  <2>1. pc'["lz"] = pc["lz"]
    <3>1. CASE WaitStart("bt", "free") \/ WaitFree("bt", "free") \/ BtLock \/ ReportStopped("bt")
      BY <1>1, <3>1 DEF WaitStart, Consume, WaitFree, BtLock, LockBuffer, ReportStopped
    <3>2. CASE NextRelease("bt", "hash") \/ NextWait("bt", "hash")
               \/ StopRelease("bt", "hash") \/ StopWait("bt", "hash", "stopped")
      BY <1>1, <3>2 DEF NextRelease, NextWait, StopRelease, StopWait
    <3>3. CASE BtPublish \/ BtStop
      BY <1>1, <3>3 DEF BtPublish, Publish, BtStop, StopWriting, StopBegin, StopNothing
    <3> QED BY <1>7, <3>1, <3>2, <3>3
  <2>2. UNCHANGED lz \/ BtBeginsBlock \/ BtAsks \/ BtReadsHeader \/ BtGetMatches \/ BtEndsBlock
        \/ HashThread
    BY DEF BtThread
  <2>3. BtThread => UNCHANGED lz
    BY DEF BtThread, BtBeginsBlock, BtAsks, BtReadsHeader, BtGetMatches, BtEndsBlock
  <2>4. HashThread => lz'.pos = lz.pos /\ lz'.eof = lz.eof
    BY <1>2, <1>3, <1>4
  <2> QED BY <2>1, <2>3, <2>4
<1> QED BY <1>2, <1>3, <1>4, <1>5, <1>6, <1>7 DEF BtThread

\* In a stream its length stays, and its end when it was found.
LEMMA EndStays ==
  ASSUME FlowInv, [Next]_vars, ~InitStream
  PROVE  mf'.len = mf.len /\ (mf.ended => mf'.ended)
<1>1. CASE HashMovesWindow
  BY <1>1 DEF HashMovesWindow, DataTypeOK, FlowInv
<1>2. CASE HashFillsBlock
  <2>1. PICK w \in ReadIfRequired(mf) : mf' = AfterHashBlock(w)
    BY <1>2 DEF HashFillsBlock
  <2>2. IsReadOn(w)
    <3>1. ~NeedMove(mf)
      BY <1>2 DEF HashFillsBlock, Publish, FlowInv, WindowInv
    <3> QED BY <2>1, <3>1, WindowIsRead DEF FlowInv
  <2>3. mf'.len = w.len /\ mf'.ended = w.ended
    BY <2>1, <2>2 DEF AfterHashBlock, IsReadOn, WindowType
  <2> QED BY <2>2, <2>3 DEF IsReadOn
<1> QED BY <1>1, <1>2, WindowSteps
-----------------------------------------------------------------------------
(* The range encoder's buffer and the errors. *)

\* A flush hands everything over to the stream, or everything is lost.
LEMMA FlushHandsOver ==
  ASSUME NEW e \in EncType, NEW o \in OutType, e.rcFailed = o.lost, NEW r \in RcFlush(e, o)
  PROVE  /\ r[1] \in EncType /\ r[2] \in OutType
         /\ r[1].pending = 0 /\ r[1].needInit = e.needInit /\ r[1].finished = e.finished
         /\ r[1].result = e.result /\ r[1].processed = e.processed
         /\ r[1].rcFailed = r[2].lost
         /\ ~r[2].lost => ~o.lost /\ r[2].size = o.size + e.pending
<1>0. RcBufSize \in Nat
  BY CompressAssumption
<1>1. PICK f : f = [e EXCEPT !.pending = 0]
  OBVIOUS
<1>2. /\ f \in EncType /\ f.pending = 0 /\ f.needInit = e.needInit /\ f.finished = e.finished
      /\ f.result = e.result /\ f.processed = e.processed /\ f.rcFailed = e.rcFailed
  BY <1>0, <1>1 DEF EncType
<1>3. CASE e.rcFailed
  <2>1. r = <<f, o>>
    BY <1>1, <1>3 DEF RcFlush
  <2> QED BY <1>2, <1>3, <2>1
<1>4. CASE ~e.rcFailed /\ r = <<f, [o EXCEPT !.size = @ + e.pending]>>
  <2>1. o.size \in Nat /\ e.pending \in Nat
    BY <1>0 DEF EncType, OutType
  <2>2. r[1] = f /\ r[2] \in OutType /\ r[2].size = o.size + e.pending /\ r[2].lost = o.lost
    BY <1>4, <2>1 DEF OutType
  <2> QED BY <1>2, <1>4, <2>2
<1>5. CASE r = <<[f EXCEPT !.rcFailed = TRUE], [size |-> 0, lost |-> TRUE]>>
  <2>1. r[2] \in OutType /\ r[2].lost = TRUE
    BY <1>5 DEF OutType
  <2>2. PICK g : g = [f EXCEPT !.rcFailed = TRUE]
    OBVIOUS
  <2>3. /\ g \in EncType /\ g.pending = 0 /\ g.needInit = e.needInit /\ g.finished = e.finished
        /\ g.result = e.result /\ g.processed = e.processed /\ g.rcFailed = TRUE
    BY <1>2, <2>2 DEF EncType
  <2> QED BY <1>5, <2>1, <2>2, <2>3
<1> QED BY <1>1, <1>3, <1>4, <1>5 DEF RcFlush

\* An error that is found ends the encoding and is kept.
LEMMA ErrorsAreKept ==
  ASSUME NEW e \in EncType, mf.failed \in BOOLEAN
  PROVE  /\ CheckErrors(e) \in EncType
         /\ CheckErrors(e).needInit = e.needInit /\ CheckErrors(e).processed = e.processed
         /\ CheckErrors(e).pending = e.pending /\ CheckErrors(e).rcFailed = e.rcFailed
         /\ e.finished => CheckErrors(e).finished
         /\ CheckErrors(e).result = "ok" =>
              ~mf.failed /\ ~e.rcFailed /\ CheckErrors(e).finished = e.finished
         /\ CheckErrors(e).result # "ok" => CheckErrors(e).finished
<1>1. PICK found \in {"ok", "read", "write"} :
        /\ found = IF e.result # "ok" THEN e.result
                    ELSE IF mf.failed THEN "read" ELSE IF e.rcFailed THEN "write" ELSE "ok"
  BY DEF EncType
<1>2. CheckErrors(e) = [e EXCEPT !.result = found, !.finished = @ \/ found # "ok"]
  BY <1>1 DEF CheckErrors
<1>3. PICK f : f = [e EXCEPT !.result = found, !.finished = @ \/ found # "ok"]
  OBVIOUS
<1>4. e.finished \in BOOLEAN
  BY DEF EncType
<1>5. /\ f \in EncType /\ f.needInit = e.needInit /\ f.processed = e.processed
      /\ f.pending = e.pending /\ f.rcFailed = e.rcFailed /\ f.result = found
      /\ f.finished = (e.finished \/ found # "ok")
  BY <1>3, <1>4 DEF EncType
<1>6. found = "ok" => ~mf.failed /\ ~e.rcFailed
  BY <1>1
<1> QED BY <1>2, <1>3, <1>4, <1>5, <1>6
-----------------------------------------------------------------------------
(* The invariant. *)

\* The fields of the state.
LEMMA FileFields ==
  ASSUME CompressTypeOK
  PROVE  /\ enc \in EncType /\ outStream \in OutType
         /\ enc.needInit \in BOOLEAN /\ enc.finished \in BOOLEAN /\ enc.rcFailed \in BOOLEAN
         /\ enc.result \in {"ok", "read", "write"}
         /\ enc.processed \in Nat /\ enc.pending \in Nat
         /\ outStream.size \in Nat /\ outStream.lost \in BOOLEAN
         /\ request.size \in Nat /\ request.returned \in Nat /\ delivered \in Nat
         /\ RcBufSize \in Nat /\ CodeBlockSize \in Nat /\ RcBufSize > 0 /\ CodeBlockSize > 0
<1>1. /\ enc \in EncType /\ outStream \in OutType /\ request \in [size : Sizes, returned : Nat]
      /\ delivered \in Nat
  BY DEF CompressTypeOK, EncType, OutType
<1>2. RcBufSize \in Nat /\ CodeBlockSize \in Nat /\ RcBufSize > 0 /\ CodeBlockSize > 0
      /\ Sizes \subseteq Nat
  BY CompressAssumption
<1>3. enc.processed \in 0 .. CodeBlockSize /\ enc.pending \in 0 .. RcBufSize
  BY <1>1 DEF EncType
<1>4. /\ enc.needInit \in BOOLEAN /\ enc.finished \in BOOLEAN /\ enc.rcFailed \in BOOLEAN
      /\ enc.result \in {"ok", "read", "write"}
  BY <1>1 DEF EncType
<1>5. outStream.size \in Nat /\ outStream.lost \in BOOLEAN /\ request.size \in Nat /\ request.returned \in Nat
  BY <1>1, <1>2 DEF OutType
<1> QED BY <1>1, <1>2, <1>3, <1>4, <1>5

\* At the beginning.
LEMMA FileInit == CompressInit => FileInv
<1> SUFFICES ASSUME CompressInit PROVE FileInv
  OBVIOUS
<1>1. /\ call = "new" /\ gil = "lz" /\ inRead = "out" /\ delivered = 0
      /\ enc = [needInit |-> TRUE, finished |-> FALSE, result |-> "ok",
                processed |-> 0, pending |-> 0, rcFailed |-> FALSE]
      /\ outStream = [size |-> 0, lost |-> FALSE]
      /\ request = [size |-> 0, returned |-> 1]
      /\ pc["lz"] = "new"
  BY DEF CompressInit, Init, SyncInit, Threads
<1>2. CompressTypeOK
  BY <1>1, CompressAssumption DEF CompressTypeOK, Calls
<1>3. CallInv
  BY <1>1, CompressAssumption DEF CallInv, NextLabels
<1> QED BY <1>1, <1>2, <1>3 DEF FileInv, OutputAccounted, EndInv, EmptyMeansOver

\* What the caller does not see.
LEMMA FileKept ==
  ASSUME FileInv, UNCHANGED <<call, enc, outStream, request, delivered>>,
         lz'.pos = lz.pos, lz'.eof = lz.eof, pc'["lz"] \in NextLabels => pc["lz"] \in NextLabels,
         mf'.len = mf.len, mf.ended => mf'.ended,
         gil' \in {"lz", "hash", Nobody}, inRead' \in {"out", "called", "waiting", "answered"}
  PROVE  FileInv'
<1>1. CompressTypeOK'
  BY DEF FileInv, CompressTypeOK
<1>2. CallInv'
  BY DEF FileInv, CallInv, WantsMore
<1>3. OutputAccounted'
  BY DEF FileInv, OutputAccounted
<1>4. EndInv' /\ EmptyMeansOver'
  BY DEF FileInv, EndInv, EmptyMeansOver
<1> QED BY <1>1, <1>2, <1>3, <1>4 DEF FileInv

\* The caller goes on, with the lock or without it, but does not encode.
LEMMA CallKept ==
  ASSUME FileInv, call' \in Calls \ {"new", "encode", "open", "gone"}, call \notin {"new", "encode", "gone"},
         call' \in {"test", "finish"} => enc.finished \/ ~WantsMore,
         call' # "loop" => request' = request, request' \in [size : Sizes, returned : Nat],
         UNCHANGED <<mf, lz, inRead, enc, outStream, delivered>>,
         pc'["lz"] \notin NextLabels,
         gil' \in {"lz", "hash", Nobody}
  PROVE  FileInv'
<1>1. CompressTypeOK'
  BY DEF FileInv, CompressTypeOK
<1>2. CallInv'
  BY DEF FileInv, CallInv, WantsMore
<1>3. OutputAccounted'
  BY DEF FileInv, OutputAccounted
<1>4. EndInv' /\ EmptyMeansOver'
  BY DEF FileInv, EndInv, EmptyMeansOver
<1> QED BY <1>1, <1>2, <1>3, <1>4 DEF FileInv

\* The producers.
LEMMA FileThreads ==
  ASSUME Inv, FlowInv, FileInv, HashThreadStep \/ (BtThread /\ UNCHANGED pyVars)
  PROVE  FileInv'
<1>0. DataTypeOK /\ CompressTypeOK
  BY DEF FlowInv, FileInv
<1>1. /\ UNCHANGED <<call, enc, outStream, request, delivered>>
      /\ gil' \in {"lz", "hash", Nobody} /\ inRead' \in {"out", "called", "waiting", "answered"}
  BY <1>0 DEF HashThreadStep, HashAsksFile, HashWaitsForFile, HashFills, TakeGil, DropGil, pyVars, CompressTypeOK
<1>2. CASE HashThread \/ BtThread
  <2>1. pc'["lz"] = pc["lz"] /\ lz'.pos = lz.pos /\ lz'.eof = lz.eof
    BY <1>0, <1>2, LzIsLeftAlone
  <2>2. Next /\ ~InitStream
    BY <1>0, <1>2, <2>1 DEF Next, InitStream, InitMt, Goto, Inv, TypeOK, PcTypeOK, Threads
  <2>3. mf'.len = mf.len /\ (mf.ended => mf'.ended)
    BY <2>2, EndStays
  <2> QED BY <1>1, <2>1, <2>3, FileKept
<1>3. CASE UNCHANGED vars
  BY <1>1, <1>3, FileKept DEF vars, dataVars, syncVars
<1>4. HashThread \/ BtThread \/ UNCHANGED vars
  BY DEF HashThreadStep, HashAsksFile, HashWaitsForFile, HashFills, HashThread
<1> QED BY <1>2, <1>3, <1>4

\* The steps of a call that lz is in.
LEMMA FileLzStep ==
  ASSUME Inv, FlowInv, FileInv, LzStep, UNCHANGED pyVars
  PROVE  FileInv'
<1>0. DataTypeOK /\ CompressTypeOK /\ PcTypeOK
  BY DEF FlowInv, FileInv, Inv, TypeOK
<1>1. /\ UNCHANGED <<call, enc, outStream, request, delivered>>
      /\ gil' \in {"lz", "hash", Nobody} /\ inRead' \in {"out", "called", "waiting", "answered"}
  BY <1>0 DEF pyVars, CompressTypeOK
<1>2. CASE LzReadsHeader
  <2>1. pc["lz"] \in NextLabels /\ pc'["lz"] = "using"
    BY <1>2, LzReadFlow DEF LzReadsHeader
  <2>2. call = "encode" /\ ~enc.needInit /\ ~enc.finished
    BY <2>1 DEF FileInv, CallInv
  <2>3. lz'.pos = lz.pos /\ mf' = mf
    BY <1>2, LzIsTold DEF LzReadsHeader
  <2>4. CompressTypeOK'
    BY <1>0, <1>1 DEF CompressTypeOK
  <2>5. CallInv'
    BY <1>1, <2>1, <2>2 DEF FileInv, CallInv, WantsMore, NextLabels
  <2>6. OutputAccounted'
    BY <1>1, <2>2, <2>3 DEF FileInv, OutputAccounted
  <2>7. EndInv' /\ EmptyMeansOver'
    BY <1>1, <2>2 DEF EndInv, EmptyMeansOver
  <2> QED BY <2>4, <2>5, <2>6, <2>7 DEF FileInv
<1>3. CASE UNCHANGED dataVars /\ ~LzReadsHeader
  <2>1. pc'["lz"] \in NextLabels => pc["lz"] \in NextLabels
    BY <1>0, <1>3
    DEF LzStep, NextRelease, NextWait, StopRelease, StopWait, DestructStep, SendExit, Join,
        NothingToJoin, Goto, PcTypeOK, NextLabels, Threads
  <2>2. mf' = mf /\ lz' = lz
    BY <1>3 DEF dataVars
  <2> QED BY <1>1, <2>1, <2>2, FileKept
<1> QED BY <1>2, <1>3 DEF LzStep

\* compressfile outside of the encoder.
LEMMA FileCalls ==
  ASSUME Inv, FlowInv, FileInv, Read \/ Dealloc \/ CallStep
  PROVE  FileInv'
<1>0. CompressTypeOK /\ CallInv /\ PcTypeOK
  BY DEF FileInv, Inv, TypeOK
<1>1. gil \in {"lz", "hash", Nobody} /\ request \in [size : Sizes, returned : Nat]
  BY <1>0 DEF CompressTypeOK
<1>2. call # "encode" => pc["lz"] \notin NextLabels
  BY <1>0 DEF CallInv
<1> USE DEF TakeGil, DropGil, Calls
<1>3. CASE Construct
  <2>1. CASE CreateOk("hash", "new", "createBt") /\ UNCHANGED <<call, gil, outStream>>
    <3>1. UNCHANGED <<call, enc, outStream, request, delivered, gil, inRead, mf, lz>> /\ pc'["lz"] = "createBt"
      BY <1>0, <1>3, <2>1 DEF Construct, CreateOk, dataVars, PcTypeOK, Threads
    <3> QED BY <1>0, <3>1, FileKept DEF CompressTypeOK, NextLabels
  <2>2. CASE CreateOk("bt", "createBt", "idle") /\ call' = "open" /\ outStream' = [outStream EXCEPT !.size = 1]
    <3>1. UNCHANGED <<enc, request, delivered, inRead, mf, lz>> /\ call = "new"
      BY <1>3 DEF Construct, dataVars
    <3>2. pc'["lz"] = "idle" /\ gil' \in {"lz", "hash", Nobody}
      BY <1>0, <1>3, <2>2 DEF Construct, CreateOk, PcTypeOK, Threads
    <3>3. outStream' \in OutType /\ outStream'.size = 1 /\ outStream'.lost = outStream.lost
      BY <1>0, <2>2, FileFields DEF OutType
    <3>4. CompressTypeOK'
      BY <1>0, <2>2, <3>1, <3>2, <3>3 DEF CompressTypeOK, OutType
    <3>5. CallInv'
      BY <1>0, <2>2, <3>1, <3>2, <3>3 DEF CallInv, NextLabels
    <3>6. OutputAccounted'
      BY <1>0, <2>2, <3>1, <3>3 DEF CallInv, OutputAccounted
    <3>7. EndInv' /\ EmptyMeansOver'
      BY <1>0, <2>2, <3>1 DEF CallInv, EndInv, EmptyMeansOver
    <3> QED BY <3>4, <3>5, <3>6, <3>7 DEF FileInv
  <2> QED BY <1>3, <2>1, <2>2 DEF Construct
<1>4. CASE Read
  <2>1. request' \in [size : Sizes, returned : Nat]
    BY <1>1, <1>4 DEF Read
  <2> QED BY <1>2, <1>4, <2>1, CallKept DEF Read, vars, syncVars, dataVars
<1>5. CASE Dealloc \/ DecrefFile \/ FinalizerReturns
  <2>1. /\ call \in {"open", "decref", "finalizer"} /\ call' \in {"decref", "finalizer", "destroy"}
        /\ UNCHANGED <<request, vars, inRead, enc, outStream, delivered>>
        /\ gil' \in {"lz", "hash", Nobody}
    BY <1>1, <1>5 DEF Dealloc, DecrefFile, FinalizerReturns
  <2> QED BY <1>1, <1>2, <2>1, CallKept DEF vars, syncVars, dataVars
<1>6. CASE ReadLoop
  BY <1>1, <1>2, <1>6, CallKept DEF ReadLoop, vars, syncVars, dataVars
<1>7. CASE CodeReturns
  BY <1>1, <1>2, <1>7, CallKept DEF CodeReturns, vars, syncVars, dataVars
<1>8. CASE Finish
  <2>1. call = "test" /\ call' = "finish" /\ UNCHANGED <<gil, inRead, enc, outStream, request, delivered>>
    BY <1>8 DEF Finish
  <2>2. CASE UNCHANGED vars
    BY <1>0, <1>1, <1>2, <2>1, <2>2, CallKept DEF CallInv, vars, syncVars, dataVars
  <2>3. CASE ReleaseStream /\ UNCHANGED dataVars
    <3>1. pc'["lz"] \notin NextLabels
      BY <1>0, <2>3
      DEF ReleaseStream, StopWriting, StopBegin, StopNothing, Goto, PcTypeOK, NextLabels, Threads
    <3> QED BY <1>0, <1>1, <2>1, <2>3, <3>1, CallKept DEF CallInv, dataVars
  <2> QED BY <1>8, <2>2, <2>3 DEF Finish
<1>9. CASE Destroy
  <2>1. UNCHANGED <<mf, lz, inRead, enc, outStream, request, delivered>> /\ call = "destroy"
    BY <1>9 DEF Destroy, dataVars
  <2>2. CASE UNCHANGED <<call, gil>> /\ (ReleaseStream \/ DestructBegin)
    <3>1. pc'["lz"] \notin NextLabels
      BY <1>0, <2>2
      DEF ReleaseStream, StopWriting, StopBegin, StopNothing, DestructBegin, Goto, PcTypeOK, NextLabels, Threads
    <3> QED BY <1>1, <2>1, <2>2, <3>1, CallKept
  <2>3. CASE call' = "gone" /\ gil' = Nobody /\ UNCHANGED syncVars
    <3>1. pc' = pc
      BY <2>3 DEF syncVars
    <3>2. CompressTypeOK'
      BY <1>0, <2>1, <2>3 DEF CompressTypeOK
    <3>3. CallInv'
      BY <1>0, <2>1, <2>3, <3>1 DEF CallInv
    <3> QED BY <2>1, <2>3, <3>2, <3>3 DEF FileInv, OutputAccounted, EndInv, EmptyMeansOver
  <2> QED BY <1>9, <2>2, <2>3 DEF Destroy
<1>10. CASE ReadReturn
  <2>1. PICK n : n = IF request.size = 0 THEN outStream.size ELSE Smaller(request.size, outStream.size)
    OBVIOUS
  <2>2. /\ call = "finish" /\ call' = "open" /\ gil' = Nobody /\ delivered' = delivered + n
        /\ UNCHANGED <<vars, inRead, enc>>
    BY <1>10, <2>1 DEF ReadReturn
  <2>2a. outStream' = [outStream EXCEPT !.size = @ - n]
    BY <1>10, <2>1 DEF ReadReturn, Discard
  <2>2b. request' = [request EXCEPT !.returned = n]
    BY <1>10, <2>1 DEF ReadReturn
  <2>3. /\ outStream.size \in Nat /\ request.size \in Nat /\ delivered \in Nat /\ enc.pending \in Nat
        /\ outStream \in OutType
    BY <1>0, FileFields
  <2>4. /\ n \in Nat /\ n <= outStream.size
        /\ n = 0 => outStream.size = 0
    BY <2>1, <2>3 DEF Smaller
  <2>5. outStream' \in OutType /\ outStream'.size = outStream.size - n /\ outStream'.lost = outStream.lost
    BY <2>2a, <2>3, <2>4 DEF OutType
  <2>6. request' \in [size : Sizes, returned : Nat] /\ request'.returned = n
    BY <1>1, <2>2b, <2>4
  <2>7. delivered' \in Nat /\ delivered' + outStream'.size = delivered + outStream.size
    BY <2>2, <2>3, <2>4, <2>5
  <2>8. pc' = pc /\ mf' = mf /\ lz' = lz
    BY <2>2 DEF vars, syncVars, dataVars
  <2>9. CompressTypeOK'
    BY <1>0, <2>2, <2>5, <2>6, <2>7 DEF CompressTypeOK, OutType
  <2>10. CallInv'
    BY <1>0, <2>2, <2>5, <2>8 DEF CallInv
  <2>11. OutputAccounted'
    BY <2>2, <2>3, <2>5, <2>7, <2>8 DEF FileInv, OutputAccounted
  <2>12. EndInv'
    BY <2>2, <2>5, <2>8 DEF FileInv, EndInv
  <2>13. EmptyMeansOver'
    <3> SUFFICES ASSUME n = 0
                 PROVE  enc.finished /\ (enc.result = "ok" => mf.ended /\ delivered' = 1 + mf.len + 1)
      BY <2>2, <2>6, <2>8 DEF EmptyMeansOver
    <3>1. outStream.size = 0
      BY <2>4
    <3>2. enc.finished
      BY <1>0, <2>2, <2>3, <3>1 DEF CallInv, WantsMore
    <3>3. ASSUME enc.result = "ok" PROVE mf.ended /\ delivered' = 1 + mf.len + 1
      <4>1. lz.eof /\ mf.ended /\ lz.pos = mf.len /\ enc.pending = 0 /\ ~outStream.lost
        BY <3>2, <3>3 DEF FileInv, EndInv
      <4>2. ~enc.needInit
        BY <1>0, <3>2 DEF CallInv
      <4>3. mf.len \in Nat
        BY Fields DEF FlowInv
      <4>4. delivered + outStream.size + enc.pending = 1 + lz.pos + 1
        BY <2>2, <3>2, <4>1, <4>2 DEF FileInv, OutputAccounted
      <4> QED BY <2>2, <2>3, <3>1, <4>1, <4>3, <4>4
    <3> QED BY <3>2, <3>3
  <2> QED BY <2>9, <2>10, <2>11, <2>12, <2>13 DEF FileInv
<1> QED BY <1>3, <1>4, <1>5, <1>6, <1>7, <1>8, <1>9, <1>10 DEF CallStep

\* The encoder.
LEMMA FileEncoder ==
  ASSUME Inv, FlowInv, FileInv, EncStep
  PROVE  FileInv'
<1>0. CompressTypeOK /\ CallInv /\ PcTypeOK /\ DataTypeOK
  BY DEF FileInv, Inv, TypeOK, FlowInv
<1>1. /\ enc \in EncType /\ outStream \in OutType /\ enc.rcFailed = outStream.lost
      /\ enc.pending \in Nat /\ enc.processed \in Nat /\ enc.pending < RcBufSize
      /\ RcBufSize \in Nat /\ CodeBlockSize \in Nat
      /\ outStream.size \in Nat /\ delivered \in Nat /\ lz.pos \in Nat
      /\ mf.failed \in BOOLEAN /\ mf.ended \in BOOLEAN
  BY <1>0, FileFields, Fields DEF CallInv, DataTypeOK
<1>2. CASE EncInit
  <2>1. /\ call = "code" /\ enc.needInit /\ enc' = [enc EXCEPT !.needInit = FALSE]
        /\ UNCHANGED <<call, gil, inRead, outStream, request, delivered>>
        /\ lz'.pos = 0 /\ lz'.eof = FALSE
    BY <1>2 DEF EncInit, InitStream, NewLz
  <2>2. pc'["lz"] = "using"
    BY <1>0, <1>2 DEF EncInit, InitStream, InitMt, Goto, PcTypeOK, Threads
  <2>3. /\ enc' \in EncType /\ ~enc'.needInit /\ enc'.finished = enc.finished
        /\ enc'.pending = enc.pending /\ enc'.rcFailed = enc.rcFailed
    BY <1>1, <2>1 DEF EncType
  <2>4. ~enc.finished
    BY <1>0, <2>1 DEF CallInv
  <2>5. CompressTypeOK'
    BY <1>0, <2>1, <2>3 DEF CompressTypeOK, EncType
  <2>6. CallInv'
    BY <1>0, <2>1, <2>2, <2>3, <2>4 DEF CallInv, NextLabels, WantsMore
  <2>7. OutputAccounted'
    BY <1>1, <2>1, <2>3, <2>4 DEF FileInv, OutputAccounted
  <2> QED BY <2>1, <2>3, <2>4, <2>5, <2>6, <2>7 DEF FileInv, EndInv, EmptyMeansOver
<1>3. CASE EncBegins
  <2>1. /\ call = "code" /\ ~enc.needInit /\ UNCHANGED <<vars, gil, inRead, outStream, request, delivered>>
        /\ enc' = (IF enc.finished THEN enc ELSE [CheckErrors(enc) EXCEPT !.processed = 0])
        /\ call' = IF enc'.finished THEN "back" ELSE "encode"
    BY <1>3 DEF EncBegins
  <2>2. pc' = pc /\ mf' = mf /\ lz' = lz
    BY <2>1 DEF vars, syncVars, dataVars
  <2>3. /\ enc' \in EncType /\ ~enc'.needInit /\ enc'.pending = enc.pending
        /\ enc'.rcFailed = enc.rcFailed
        /\ enc.finished => enc' = enc
        /\ ~enc.finished /\ enc'.finished => enc'.result # "ok"
    <3>1. CASE enc.finished
      BY <1>1, <2>1, <3>1
    <3>2. CASE ~enc.finished
      <4>1. PICK e \in EncType : e = CheckErrors(enc)
        BY <1>1, ErrorsAreKept
      <4>2. /\ ~e.needInit /\ e.pending = enc.pending /\ e.rcFailed = enc.rcFailed
            /\ e.finished => e.result # "ok"
        BY <1>1, <2>1, <3>2, <4>1, ErrorsAreKept
      <4>3. enc' = [e EXCEPT !.processed = 0]
        BY <2>1, <3>2, <4>1
      <4>4. /\ enc' \in EncType /\ enc'.needInit = e.needInit /\ enc'.pending = e.pending
            /\ enc'.rcFailed = e.rcFailed /\ enc'.finished = e.finished /\ enc'.result = e.result
        BY <1>1, <4>1, <4>3 DEF EncType
      <4> QED BY <3>2, <4>2, <4>4
    <3> QED BY <3>1, <3>2
  <2>4. lz.eof => enc.finished
    BY <1>0, <2>1 DEF CallInv
  <2>5. pc["lz"] \notin NextLabels
    BY <1>0, <2>1 DEF CallInv
  <2>6. CompressTypeOK'
    BY <1>0, <2>1, <2>3 DEF CompressTypeOK, EncType, Calls
  <2>7. CallInv'
    BY <1>0, <2>1, <2>2, <2>3, <2>4, <2>5 DEF CallInv
  <2>8. OutputAccounted'
    BY <2>1, <2>2, <2>3, <2>4 DEF FileInv, OutputAccounted
  <2>9. EndInv'
    BY <2>1, <2>2, <2>3 DEF FileInv, EndInv
  <2> QED BY <2>1, <2>6, <2>7, <2>8, <2>9 DEF FileInv, EmptyMeansOver
<1>4. CASE EncAsks
  <2>1. call = "encode" /\ UNCHANGED <<pyVars, mf, lz>>
    BY <1>4 DEF EncAsks, LzAsks, dataVars
  <2>2. UNCHANGED <<call, gil, inRead, enc, outStream, request, delivered>>
    BY <2>1 DEF pyVars
  <2>3. CompressTypeOK'
    BY <1>0, <2>2 DEF CompressTypeOK
  <2>4. CallInv'
    BY <1>0, <2>1, <2>2 DEF CallInv, WantsMore
  <2> QED BY <2>1, <2>2, <2>3, <2>4 DEF FileInv, OutputAccounted, EndInv, EmptyMeansOver
<1>5. CASE EncTakesPosition
  <2>1. /\ call = "encode" /\ call' = call /\ enc.processed < CodeBlockSize
        /\ UNCHANGED <<gil, inRead, request, delivered>>
    BY <1>5 DEF EncTakesPosition
  <2>2. LzTakesPosition
    BY <1>5 DEF EncTakesPosition
  <2>3. lz'.pos = lz.pos + 1 /\ ~lz.eof /\ ~lz'.eof
    BY <2>2, BtFlowTake
  <2>4. pc' = pc /\ pc["lz"] = "using"
    BY <2>2 DEF LzTakesPosition, syncVars
  <2>5. PICK e : e = [enc EXCEPT !.processed = @ + 1, !.pending = @ + 1]
    OBVIOUS
  <2>6. /\ e \in EncType /\ e.pending = enc.pending + 1 /\ e.needInit = enc.needInit
        /\ e.finished = enc.finished /\ e.rcFailed = enc.rcFailed
    <3>1. enc.pending + 1 \in 0 .. RcBufSize /\ enc.processed + 1 \in 0 .. CodeBlockSize
      BY <1>1, <2>1
    <3>2. PICK m \in 0 .. RcBufSize, n \in 0 .. CodeBlockSize : m = enc.pending + 1 /\ n = enc.processed + 1
      BY <3>1
    <3>3. e = [enc EXCEPT !.processed = n, !.pending = m]
      BY <2>5, <3>2
    <3> QED BY <1>1, <3>2, <3>3 DEF EncType
  <2>7. /\ enc' \in EncType /\ outStream' \in OutType /\ enc'.rcFailed = outStream'.lost
        /\ enc'.pending \in Nat /\ enc'.pending < RcBufSize
        /\ enc'.needInit = enc.needInit /\ enc'.finished = enc.finished
        /\ ~outStream'.lost =>
             ~outStream.lost /\ enc'.pending + outStream'.size = enc.pending + 1 + outStream.size
    <3>1. CASE e.pending < RcBufSize
      <4>1. enc' = e /\ outStream' = outStream
        BY <1>5, <2>5, <3>1 DEF EncTakesPosition
      <4> QED BY <1>1, <2>6, <3>1, <4>1
    <3>2. CASE ~(e.pending < RcBufSize)
      <4>1. PICK r \in RcFlush(e, outStream) : enc' = r[1] /\ outStream' = r[2]
        BY <1>5, <2>5, <3>2 DEF EncTakesPosition
      <4>2. /\ r[1] \in EncType /\ r[2] \in OutType
            /\ r[1].pending = 0 /\ r[1].needInit = e.needInit /\ r[1].finished = e.finished
            /\ r[1].rcFailed = r[2].lost
            /\ ~r[2].lost => ~outStream.lost /\ r[2].size = outStream.size + e.pending
        BY <1>1, <2>6, <4>1, FlushHandsOver
      <4> QED BY <1>1, <2>6, <4>1, <4>2
    <3> QED BY <3>1, <3>2
  <2>8. ~enc.needInit /\ ~enc.finished
    BY <1>0, <2>1 DEF CallInv
  <2>9. CompressTypeOK'
    BY <1>0, <2>1, <2>7 DEF CompressTypeOK, EncType, OutType
  <2>10. CallInv'
    BY <1>0, <2>1, <2>3, <2>4, <2>7, <2>8 DEF CallInv, NextLabels
  <2>11. OutputAccounted'
    <3> SUFFICES ASSUME ~outStream'.lost
                 PROVE  delivered + outStream'.size + enc'.pending = 1 + (lz.pos + 1) + 0
      BY <2>1, <2>3, <2>7, <2>8 DEF OutputAccounted
    <3>1. delivered + outStream.size + enc.pending = 1 + lz.pos + 0
      BY <2>1, <2>3, <2>7, <2>8 DEF FileInv, OutputAccounted
    <3>2. outStream'.size \in Nat
      BY <2>7 DEF OutType
    <3> QED BY <1>1, <2>7, <3>1, <3>2
  <2> QED BY <2>1, <2>7, <2>8, <2>9, <2>10, <2>11 DEF FileInv, EndInv, EmptyMeansOver
<1>6. CASE EncEndsBlock
  <2>1. /\ call = "encode" /\ call' = "back" /\ pc["lz"] = "using" /\ lz.rem > 0
        /\ enc' = CheckErrors(enc)
        /\ UNCHANGED <<vars, gil, inRead, outStream, request, delivered>>
    BY <1>6 DEF EncEndsBlock
  <2>2. pc' = pc /\ mf' = mf /\ lz' = lz
    BY <2>1 DEF vars, syncVars, dataVars
  <2>3. ~lz.eof
    BY <2>1, Fields DEF FlowInv, LzInv, Working
  <2>4. ~enc.needInit /\ ~enc.finished
    BY <1>0, <2>1 DEF CallInv
  <2>5. /\ enc' \in EncType /\ enc'.needInit = enc.needInit /\ enc'.pending = enc.pending
        /\ enc'.rcFailed = enc.rcFailed /\ (enc'.finished => enc'.result # "ok")
    BY <1>1, <2>1, <2>4, ErrorsAreKept
  <2>6. CompressTypeOK'
    BY <1>0, <2>1, <2>5 DEF CompressTypeOK, EncType, Calls
  <2>7. CallInv'
    BY <1>0, <2>1, <2>2, <2>3, <2>4, <2>5 DEF CallInv, NextLabels
  <2>8. OutputAccounted'
    BY <2>1, <2>2, <2>3, <2>4, <2>5 DEF FileInv, OutputAccounted
  <2> QED BY <2>1, <2>5, <2>6, <2>7, <2>8 DEF FileInv, EndInv, EmptyMeansOver
<1>7. CASE EncFlushes
  <2>1. /\ call = "encode" /\ call' = "back" /\ pc["lz"] = "using" /\ lz.rem = 0 /\ lz.eof
        /\ UNCHANGED <<vars, gil, inRead, request, delivered>>
    BY <1>7 DEF EncFlushes
  <2>2. pc' = pc /\ mf' = mf /\ lz' = lz
    BY <2>1 DEF vars, syncVars, dataVars
  <2>3. ~enc.needInit /\ ~enc.finished
    BY <1>0, <2>1 DEF CallInv
  <2>4. PICK e : e = [enc EXCEPT !.finished = TRUE, !.pending = @ + 1]
    OBVIOUS
  <2>5. /\ e \in EncType /\ e.pending = enc.pending + 1 /\ ~e.needInit
        /\ e.finished /\ e.rcFailed = enc.rcFailed
    <3>1. PICK m \in 0 .. RcBufSize : m = enc.pending + 1
      BY <1>1
    <3>2. e = [enc EXCEPT !.finished = TRUE, !.pending = m]
      BY <2>4, <3>1
    <3> QED BY <1>1, <2>3, <3>1, <3>2 DEF EncType
  <2>6. PICK r \in RcFlush(e, outStream) : enc' = CheckErrors(r[1]) /\ outStream' = r[2]
    BY <1>7, <2>4 DEF EncFlushes
  <2>7. /\ r[1] \in EncType /\ r[2] \in OutType
        /\ r[1].pending = 0 /\ ~r[1].needInit /\ r[1].finished
        /\ r[1].rcFailed = r[2].lost
        /\ ~r[2].lost => ~outStream.lost /\ r[2].size = outStream.size + e.pending
    BY <1>1, <2>5, <2>6, FlushHandsOver
  <2>8. /\ enc' \in EncType /\ outStream' \in OutType /\ enc'.rcFailed = outStream'.lost
        /\ enc'.pending = 0 /\ ~enc'.needInit /\ enc'.finished
        /\ enc'.result = "ok" => ~mf.failed /\ ~outStream'.lost
        /\ ~outStream'.lost => ~outStream.lost /\ outStream'.size = outStream.size + enc.pending + 1
    <3>1. /\ enc' \in EncType /\ enc'.needInit = r[1].needInit /\ enc'.pending = r[1].pending
          /\ enc'.rcFailed = r[1].rcFailed /\ enc'.finished
          /\ enc'.result = "ok" => ~mf.failed /\ ~r[1].rcFailed
      BY <1>1, <2>6, <2>7, ErrorsAreKept
    <3> QED BY <1>1, <2>5, <2>6, <2>7, <3>1
  <2>9. ~mf.failed => mf.ended /\ lz.pos = mf.len
    BY <2>1, Fields DEF FlowInv, LzInv, WindowInv, Over, Working
  <2>10. CompressTypeOK'
    BY <1>0, <2>1, <2>8 DEF CompressTypeOK, EncType, OutType, Calls
  <2>11. CallInv'
    BY <1>0, <1>1, <2>1, <2>2, <2>8 DEF CallInv, NextLabels
  <2>12. OutputAccounted'
    <3> SUFFICES ASSUME ~outStream'.lost
                 PROVE  delivered + outStream'.size + 0 = 1 + lz.pos + 1
      BY <2>1, <2>2, <2>8 DEF OutputAccounted
    <3>1. delivered + outStream.size + enc.pending = 1 + lz.pos + 0
      BY <2>1, <2>3, <2>8 DEF FileInv, OutputAccounted
    <3> QED BY <1>1, <2>8, <3>1
  <2>13. EndInv'
    BY <2>1, <2>2, <2>8, <2>9 DEF EndInv
  <2> QED BY <2>1, <2>10, <2>11, <2>12, <2>13 DEF FileInv, EmptyMeansOver
<1> QED BY <1>2, <1>3, <1>4, <1>5, <1>6, <1>7 DEF EncStep

\* So it holds in every state.
LEMMA FileHolds == CompressSpec => [](Inv /\ FlowInv /\ FileInv)
<1>1. Inv /\ FlowInv /\ FileInv /\ [CompressNext]_allVars => FileInv'
  <2> SUFFICES ASSUME Inv, FlowInv, FileInv, [CompressNext]_allVars PROVE FileInv'
    OBVIOUS
  <2>1. CASE UNCHANGED allVars
    <3>1. UNCHANGED <<call, enc, outStream, request, delivered, gil, inRead, pc, mf, lz>>
      BY <2>1 DEF allVars, pyVars, vars, syncVars, dataVars
    <3>2. CompressTypeOK'
      BY <3>1 DEF FileInv, CompressTypeOK
    <3> QED BY <3>1, <3>2, FileKept DEF CompressTypeOK
  <2> QED BY <2>1, FileThreads, FileLzStep, FileCalls, FileEncoder DEF CompressNext, LzThreadStep
<1> QED BY <1>1, FileInit, UsesFinder, FlowHolds, PTL DEF CompressSpec

(* No output is lost or returned twice by read(), and when it returns nothing  *)
(* without an error, the whole input was encoded and all of it delivered: for  *)
(* any input, any sizes of the reads and the buffers, and wherever the read of *)
(* the file or the growth of the output fails.                                 *)
THEOREM OutputIsKept == CompressSpec => []OutputKept
<1>1. FileInv => OutputKept
  BY DEF FileInv, OutputKept
<1> QED BY <1>1, FileHolds, PTL
-----------------------------------------------------------------------------
(* The buffers of pylzma_streams.c.                                            *)

\* The bytes 1 .. n.
Count(n) == [k \in 1 .. n |-> k]

\* A buffer that was lost has no bytes and accepts none.
LostIsEmpty == avail = 0 => data = <<>>

BufferInv ==
  /\ StreamsTypeOK /\ written \in Nat /\ writing \in Seq(1 .. written)
  /\ WithinBuffer /\ NothingLost /\ NoGap /\ LostIsEmpty

\* The smaller of two numbers, as CHOOSE finds it.
LEMMA MinOfTwo ==
  ASSUME NEW a \in Nat, NEW b \in Nat
  PROVE  Min({a, b}) = IF a <= b THEN a ELSE b
<1>1. \E x \in {a, b} : \A y \in {a, b} : x <= y
  OBVIOUS
<1>2. Min({a, b}) \in {a, b} /\ \A y \in {a, b} : Min({a, b}) <= y
  BY <1>1 DEF Min
<1> QED
  BY <1>2

\* What is counted is a sequence.
LEMMA CountProperties ==
  ASSUME NEW n \in Nat
  PROVE  Count(n) \in Seq(1 .. n) /\ Len(Count(n)) = n /\ \A i \in 1 .. n : Count(n)[i] = i
BY DEF Count

\* A sequence whose elements are their positions is counted.
LEMMA IsCount ==
  ASSUME NEW S, NEW s \in Seq(S), \A i \in 1 .. Len(s) : s[i] = i
  PROVE  s = Count(Len(s))
BY DEF Count

\* A shorter range of bytes.
LEMMA MoreBytes ==
  ASSUME NEW m \in Nat, NEW n \in Nat, m <= n, NEW s \in Seq(1 .. m)
  PROVE  s \in Seq(1 .. n)
<1>1. 1 .. m \subseteq 1 .. n
  OBVIOUS
<1> QED
  BY <1>1, SeqMonotonic

\* The beginning of what is counted is counted.
LEMMA FrontOfCount ==
  ASSUME NEW S, NEW s \in Seq(S), NEW t \in Seq(S), NEW n \in Nat, s \o t = Count(n)
  PROVE  s = Count(Len(s)) /\ Len(s) <= n /\ Len(s) + Len(t) = n
<1>1. Len(s \o t) = n /\ Len(s) \in Nat /\ Len(t) \in Nat
  BY CountProperties, LenProperties
<1>2. Len(s) + Len(t) = n
  BY <1>1, ConcatProperties
<1>3. \A i \in 1 .. Len(s) : s[i] = i
  <2>1. TAKE i \in 1 .. Len(s)
  <2>2. i \in 1 .. Len(s) + Len(t) /\ (s \o t)[i] = s[i]
    BY <1>1, ConcatProperties
  <2>3. Count(n)[i] = i
    BY <2>2, <1>2, CountProperties
  <2> QED
    BY <2>2, <2>3
<1> QED
  BY <1>1, <1>2, <1>3, IsCount

\* At the beginning nothing is written.
LEMMA InitBuffer ==
  ASSUME StreamsInit PROVE BufferInv
<1>1. /\ data = <<>> /\ avail = InitialBlock /\ writing = <<>> /\ result = "ok"
      /\ written = 0 /\ taken = <<>>
  BY DEF StreamsInit
<1>2. <<>> \in Seq(1 .. 0) /\ Len(<<>>) = 0
  OBVIOUS
<1>3. <<>> = [k \in 1 .. 0 |-> k]
  OBVIOUS
<1>4. <<>> \o <<>> \o <<>> = <<>>
  OBVIOUS
<1> QED
  BY <1>1, <1>2, <1>3, <1>4, StreamsAssumption
     DEF BufferInv, StreamsTypeOK, WithinBuffer, NothingLost, NoGap, LostIsEmpty

\* A write begins: its bytes follow those that were written before.
LEMMA WriteKeepsBuffer ==
  ASSUME BufferInv, NEW n \in Pieces, Write(n) PROVE BufferInv'
<1>1. /\ writing = <<>> /\ n > 0 /\ writing' = [k \in 1 .. n |-> written + k] /\ written' = written + n
      /\ data' = data /\ avail' = avail /\ result' = result /\ taken' = taken
  BY DEF Write, Idle
<1>2. /\ n \in Nat /\ written \in Nat /\ avail \in Nat /\ result \in {"ok", "failed"}
      /\ data \in Seq(1 .. written) /\ taken \in Seq(1 .. written)
  BY StreamsAssumption DEF BufferInv, StreamsTypeOK
<1>3. written' \in Nat /\ data \in Seq(1 .. written') /\ taken \in Seq(1 .. written')
  BY <1>1, <1>2, MoreBytes
<1>4. writing' \in Seq(1 .. written') /\ Len(writing') = n
  BY <1>1, <1>2
<1>5. avail > 0 => taken \o data \o writing' = [k \in 1 .. written' |-> k]
  <2>1. SUFFICES ASSUME avail > 0 PROVE taken \o data \o writing' = Count(written')
    BY DEF Count
  <2>2. taken \o data \in Seq(1 .. written)
    BY <1>2, ConcatProperties
  <2>3. taken \o data = Count(written)
    BY <2>1, <2>2, <1>1, ConcatEmptySeq DEF BufferInv, NothingLost, Count
  <2>4. taken \o data \in Seq(1 .. written') /\ Len(taken \o data) = written
    <3>1. Len(taken \o data) = written
      BY <2>3, <1>2, CountProperties
    <3>2. written' \in Nat /\ written <= written'
      BY <1>1, <1>2
    <3>3. taken \o data \in Seq(1 .. written')
      BY <2>2, <1>2, <3>2, MoreBytes
    <3> QED
      BY <3>1, <3>3
  <2>5. /\ (taken \o data) \o writing' \in Seq(1 .. written')
        /\ Len((taken \o data) \o writing') = written + n
        /\ \A i \in 1 .. written + n : ((taken \o data) \o writing')[i] =
              IF i <= written THEN (taken \o data)[i] ELSE writing'[i - written]
    BY <2>4, <1>4, ConcatProperties
  <2>6. \A i \in 1 .. written + n : ((taken \o data) \o writing')[i] = i
    <3>1. TAKE i \in 1 .. written + n
    <3>2. CASE i <= written
      BY <3>2, <2>3, <2>5, <1>2, CountProperties
    <3>3. CASE i > written
      <4>1. i - written \in 1 .. n /\ ((taken \o data) \o writing')[i] = writing'[i - written]
        BY <3>3, <2>5, <1>2
      <4>2. writing'[i - written] = written + (i - written)
        BY <4>1, <1>1
      <4> QED
        BY <4>1, <4>2, <1>2
    <3>4. i <= written \/ i > written
      BY <3>1, <1>2
    <3> QED
      BY <3>2, <3>3, <3>4
  <2> QED
    BY <2>5, <2>6, <1>1, IsCount
<1> QED
  BY <1>1, <1>2, <1>3, <1>4, <1>5
     DEF BufferInv, StreamsTypeOK, WithinBuffer, NothingLost, NoGap, LostIsEmpty

\* The buffer grows, or is lost with all that is in it.
LEMMA GrowKeepsBuffer ==
  ASSUME BufferInv, Grow PROVE BufferInv'
<1>1. written' = written /\ taken' = taken
  BY DEF Grow
<1>2. /\ written \in Nat /\ avail \in Nat /\ result \in {"ok", "failed"}
      /\ data \in Seq(1 .. written) /\ taken \in Seq(1 .. written) /\ writing \in Seq(1 .. written)
      /\ Len(data) <= avail /\ Len(data) \in Nat
  BY DEF BufferInv, StreamsTypeOK, WithinBuffer
<1>3. CASE avail > 0 /\ avail' = Grown /\ UNCHANGED <<data, writing, result>>
  <2>1. Min({avail, MaxBlock}) \in Nat
    BY <1>2, MinOfTwo, StreamsAssumption
  <2>2. Grown \in Nat /\ Grown >= avail
    BY <1>2, <2>1 DEF Grown
  <2> QED
    BY <1>1, <1>2, <1>3, <2>2
       DEF BufferInv, StreamsTypeOK, WithinBuffer, NothingLost, NoGap, LostIsEmpty
<1>4. CASE avail' = 0 /\ data' = <<>> /\ writing' = <<>> /\ result' = "failed"
  <2>1. <<>> \in Seq(1 .. written) /\ Len(<<>>) = 0
    OBVIOUS
  <2> QED
    BY <1>1, <1>2, <1>4, <2>1
       DEF BufferInv, StreamsTypeOK, WithinBuffer, NothingLost, NoGap, LostIsEmpty
<1> QED
  BY <1>3, <1>4 DEF Grow

\* The bytes of the write are stored behind the others.
LEMMA StoreKeepsBuffer ==
  ASSUME BufferInv, Store PROVE BufferInv'
<1>1. /\ writing # <<>> /\ avail - Len(data) >= Len(writing)
      /\ data' = data \o writing /\ writing' = <<>> /\ result' = "ok"
      /\ avail' = avail /\ written' = written /\ taken' = taken
  BY DEF Store, Idle, HasRoom
<1>2. /\ written \in Nat /\ avail \in Nat
      /\ data \in Seq(1 .. written) /\ taken \in Seq(1 .. written) /\ writing \in Seq(1 .. written)
      /\ Len(data) <= avail /\ Len(data) \in Nat /\ Len(writing) \in Nat
  BY DEF BufferInv, StreamsTypeOK, WithinBuffer
<1>3. Len(writing) > 0
  BY <1>1, <1>2, EmptySeq
<1>4. /\ data \o writing \in Seq(1 .. written)
      /\ Len(data \o writing) = Len(data) + Len(writing)
  BY <1>2, ConcatProperties
<1>5. avail > 0 /\ Len(data') <= avail
  BY <1>1, <1>2, <1>3, <1>4
<1>6. taken \o data' \o writing' = taken \o data \o writing
  <2>1. data' \o writing' = data'
    BY <1>1, <1>4, ConcatEmptySeq
  <2>2. taken \o data' \in Seq(1 .. written) /\ taken \o data' = taken \o data \o writing
    <3>1. \A a, b, c \in Seq(1 .. written) : (a \o b) \o c = a \o (b \o c)
      BY ConcatAssociative
    <3>2. taken \o (data \o writing) = taken \o data \o writing
      BY <3>1, <1>2
    <3>3. taken \o (data \o writing) \in Seq(1 .. written)
      BY <1>2, <1>4, ConcatProperties
    <3> QED
      BY <3>2, <3>3, <1>1
  <2>3. (taken \o data') \o <<>> = taken \o data'
    BY <2>2, ConcatEmptySeq
  <2> QED
    BY <2>2, <2>3, <1>1
<1>7. <<>> \in Seq(1 .. written)
  OBVIOUS
<1>8. NothingLost' /\ NoGap'
  BY <1>1, <1>6 DEF BufferInv, NothingLost, NoGap
<1> QED
  BY <1>1, <1>2, <1>4, <1>5, <1>7, <1>8
     DEF BufferInv, StreamsTypeOK, WithinBuffer, LostIsEmpty

\* What is taken are the first bytes of the buffer.
LEMMA TakeKeepsBuffer ==
  ASSUME BufferInv, NEW n \in Pieces, Take(n) PROVE BufferInv'
<1> DEFINE m == Min({n, Len(data)})
<1>1. /\ writing = <<>>
      /\ taken' = taken \o SubSeq(data, 1, m) /\ data' = SubSeq(data, n + 1, Len(data))
      /\ avail' = avail /\ writing' = writing /\ result' = result /\ written' = written
  BY DEF Take, Idle
<1>2. /\ n \in Nat /\ written \in Nat /\ avail \in Nat /\ result \in {"ok", "failed"}
      /\ data \in Seq(1 .. written) /\ taken \in Seq(1 .. written)
      /\ Len(data) <= avail /\ Len(data) \in Nat
  BY StreamsAssumption DEF BufferInv, StreamsTypeOK, WithinBuffer
<1>3. m \in 0 .. Len(data) /\ (n <= Len(data) => m = n) /\ (n > Len(data) => m = Len(data))
  <2>1. m = IF n <= Len(data) THEN n ELSE Len(data)
    BY <1>2, MinOfTwo
  <2> QED
    BY <2>1, <1>2
<1> HIDE DEF m
<1>4. /\ SubSeq(data, 1, m) \in Seq(1 .. written)
      /\ data' \in Seq(1 .. written) /\ data' = SubSeq(data, m + 1, Len(data)) /\ Len(data') = Len(data) - m
  <2>1. \A i \in 1 .. Len(data) : data[i] \in 1 .. written
    BY <1>2
  <2>2. SubSeq(data, 1, m) \in Seq(1 .. written)
    BY <1>2, <1>3, <2>1, SubSeqProperties
  <2>3. /\ SubSeq(data, m + 1, Len(data)) \in Seq(1 .. written)
        /\ Len(SubSeq(data, m + 1, Len(data))) = Len(data) - m
    BY <1>2, <1>3, <2>1, SubSeqProperties
  <2>4. SubSeq(data, n + 1, Len(data)) = SubSeq(data, m + 1, Len(data))
    <3>1. CASE n <= Len(data)
      <4>1. m = n
        BY <3>1, <1>3
      <4> QED
        BY <4>1
    <3>2. CASE n > Len(data)
      <4>1. m = Len(data) /\ n + 1 \in Int /\ m + 1 \in Int /\ Len(data) \in Int
        BY <3>2, <1>2, <1>3
      <4>2. Len(data) < n + 1 /\ Len(data) < m + 1
        BY <3>2, <4>1, <1>2
      <4>3. SubSeq(data, n + 1, Len(data)) = <<>> /\ SubSeq(data, m + 1, Len(data)) = <<>>
        BY <4>1, <4>2, SubSeqEmpty
      <4> QED
        BY <4>3
    <3> QED
      BY <3>1, <3>2, <1>2, n <= Len(data) \/ n > Len(data)
  <2> QED
    BY <1>1, <2>2, <2>3, <2>4
<1>5. SubSeq(data, 1, m) \o data' = data
  <2>1. SubSeq(data, 1, m) \o SubSeq(data, m + 1, Len(data)) = SubSeq(data, 1, Len(data))
    <3>1. 1 \in 1 .. Len(data) + 1 /\ m \in 1 - 1 .. Len(data) /\ Len(data) \in m .. Len(data)
      BY <1>2, <1>3
    <3> QED
      BY <3>1, <1>2, ConcatAdjacentSubSeq
  <2> QED
    BY <2>1, <1>2, <1>4, SubSeqFull
<1>6. taken' \in Seq(1 .. written) /\ taken' \o data' = taken \o data
  <2>1. taken' \in Seq(1 .. written)
    BY <1>1, <1>2, <1>4, ConcatProperties
  <2>2. (taken \o SubSeq(data, 1, m)) \o data' = taken \o (SubSeq(data, 1, m) \o data')
    <3>1. \A a, b, c \in Seq(1 .. written) : (a \o b) \o c = a \o (b \o c)
      BY ConcatAssociative
    <3> QED
      BY <3>1, <1>2, <1>4
  <2> QED
    BY <2>1, <2>2, <1>1, <1>5
<1>7. avail > 0 => taken' \o data' \o writing' = [k \in 1 .. written' |-> k]
  BY <1>1, <1>6 DEF BufferInv, NothingLost
<1>8. avail = 0 => data' = <<>> /\ taken' = taken
  <2>1. SUFFICES ASSUME avail = 0 PROVE data' = <<>> /\ taken' = taken
    OBVIOUS
  <2>2. data = <<>> /\ Len(data) = 0 /\ m = 0
    BY <2>1, <1>2, <1>3 DEF BufferInv, LostIsEmpty
  <2>3. SubSeq(data, 1, m) = <<>> /\ SubSeq(data, m + 1, Len(data)) = <<>>
    BY <2>2, SubSeqEmpty
  <2> QED
    BY <2>3, <1>1, <1>2, <1>4, ConcatEmptySeq
<1>9. taken' = [k \in 1 .. Len(taken') |-> k]
  <2>1. CASE avail = 0
    BY <2>1, <1>8 DEF BufferInv, NoGap
  <2>2. CASE avail > 0
    <3>1. taken' \o data' = Count(written)
      BY <2>2, <1>1, <1>6, <1>2, <1>4, ConcatProperties, ConcatEmptySeq DEF BufferInv, NothingLost, Count
    <3>2. taken' = Count(Len(taken'))
      <4>1. /\ taken' \in Seq(1 .. written) /\ data' \in Seq(1 .. written) /\ written \in Nat
            /\ taken' \o data' = Count(written)
        BY <3>1, <1>2, <1>4, <1>6
      <4> QED
        BY <4>1, FrontOfCount
    <3> QED
      BY <3>2 DEF Count
  <2> QED
    BY <2>1, <2>2, <1>2
<1>10. Len(data') <= avail
  <2>1. Len(data') = Len(data) - m
    BY <1>4
  <2> QED
    BY <2>1, <1>2, <1>3
<1> QED
  BY <1>1, <1>2, <1>4, <1>6, <1>7, <1>8, <1>9, <1>10
     DEF BufferInv, StreamsTypeOK, WithinBuffer, NothingLost, NoGap, LostIsEmpty

(* The buffers of pylzma_streams.c keep all that is written and not taken, in  *)
(* order and within their size, until a realloc fails; after that they accept  *)
(* nothing, so that what was taken has no gap.                                 *)
THEOREM BufferIsKept == StreamsSpec => []BufferKeepsAll
<1>1. StreamsInit => BufferInv
  BY InitBuffer
<1>2. BufferInv /\ [StreamsNext]_streamVars => BufferInv'
  <2>1. CASE UNCHANGED streamVars
    BY <2>1 DEF streamVars, BufferInv, StreamsTypeOK, WithinBuffer, NothingLost, NoGap, LostIsEmpty
  <2> QED
    BY <2>1, WriteKeepsBuffer, GrowKeepsBuffer, StoreKeepsBuffer, TakeKeepsBuffer DEF StreamsNext
<1>3. BufferInv => BufferKeepsAll
  BY DEF BufferInv, BufferKeepsAll
<1> QED
  BY <1>1, <1>2, <1>3, PTL DEF StreamsSpec
=============================================================================
