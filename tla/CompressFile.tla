---------------------------- MODULE CompressFile ----------------------------
(***************************************************************************)
(* compressfile (pylzma_compressfile.c) over the control of LzmaEnc        *)
(* (CodeOneBlock, CheckErrors, Flush, Finish, Destroy), the streams of     *)
(* pylzma_streams.c and the three threads of LzFindMt, joined by Python's  *)
(* global interpreter lock: the caller holds it except while it encodes,   *)
(* and the hash thread needs it to read the input file.                    *)
(*                                                                         *)
(* Output is counted in units: the header, one for each position, one for  *)
(* what Flush writes at the end.                                           *)
(***************************************************************************)
EXTENDS LzFindMt

CONSTANTS
  Sizes,            \* arguments of read(); 0 is read()
  CodeBlockSize,    \* positions after which CodeOneBlock returns (1 << 17)
  RcBufSize,        \* units in the buffer of the range encoder
  WriteMayFail,     \* may the output buffer fail to grow?
  FinalizerMayWait  \* may the destructor of the input file release the lock?

ASSUME CompressAssumption ==
  /\ Sizes \subseteq Nat /\ 0 \in Sizes
  /\ CodeBlockSize \in Nat \ {0} /\ RcBufSize \in Nat \ {0}
  /\ WriteMayFail \in BOOLEAN /\ FinalizerMayWait \in BOOLEAN

VARIABLES
  call,       \* where the caller is
  gil,        \* the thread that holds the global interpreter lock
  inRead,     \* the hash thread's place in PythonInStream_Read
  enc,        \* the control fields of CLzmaEnc, and its range encoder's buffer
  outStream,  \* CMemoryOutStream
  request,    \* the argument of read(), and what the last one returned
  delivered   \* units returned so far

pyVars == <<call, gil, inRead, enc, outStream, request, delivered>>
allVars == <<vars, pyVars>>

Calls == {"new", "open", "loop", "code", "encode", "back", "test", "finish", "take",
          "decref", "finalizer", "destroy", "gone"}

CompressInit ==
  /\ Init
  /\ call = "new" /\ gil = "lz" /\ inRead = "out"
  /\ enc = [needInit |-> TRUE, finished |-> FALSE, result |-> "ok",
            processed |-> 0, pending |-> 0, rcFailed |-> FALSE]
  /\ outStream = [size |-> 0, lost |-> FALSE]
  /\ request = [size |-> 0, returned |-> 1]
  /\ delivered = 0

TakeGil(t) == gil = Nobody /\ gil' = t
DropGil    == gil' = Nobody
-----------------------------------------------------------------------------
(* LzmaEnc. *)

\* RangeEnc_FlushStream into MemoryOutStream_Write, which drops what it holds
\* when it cannot grow.
RcFlush(e, o) ==
  LET empty == [e EXCEPT !.pending = 0] IN
  IF e.rcFailed THEN {<<empty, o>>}
  ELSE {<<empty, [o EXCEPT !.size = @ + e.pending]>>}
       \cup (IF WriteMayFail
               THEN {<<[empty EXCEPT !.rcFailed = TRUE], [size |-> 0, lost |-> TRUE]>>} ELSE {})

CheckErrors(e) ==
  LET result == IF e.result # "ok" THEN e.result
                ELSE IF mf.failed THEN "read" ELSE IF e.rcFailed THEN "write" ELSE "ok"
  IN  [e EXCEPT !.result = result, !.finished = @ \/ result # "ok"]

\* CodeOneBlock: the match finder is started by the first call.
EncInit ==
  /\ call = "code" /\ enc.needInit
  /\ InitStream
  /\ enc' = [enc EXCEPT !.needInit = FALSE]
  /\ UNCHANGED <<call, gil, inRead, outStream, request, delivered>>

EncBegins ==
  /\ call = "code" /\ ~enc.needInit
  /\ enc' = IF enc.finished THEN enc ELSE [CheckErrors(enc) EXCEPT !.processed = 0]
  /\ call' = IF enc'.finished THEN "back" ELSE "encode"
  /\ UNCHANGED <<vars, gil, inRead, outStream, request, delivered>>

\* GetNumAvailableBytes asks for the next block.
EncAsks == call = "encode" /\ LzAsks /\ UNCHANGED pyVars

\* A literal, a match or a rep is encoded; lookahead is not modelled.
EncTakesPosition ==
  /\ call = "encode" /\ enc.processed < CodeBlockSize
  /\ LzTakesPosition
  /\ LET e == [enc EXCEPT !.processed = @ + 1, !.pending = @ + 1] IN
     IF e.pending < RcBufSize THEN enc' = e /\ UNCHANGED outStream
     ELSE \E r \in RcFlush(e, outStream) : enc' = r[1] /\ outStream' = r[2]
  /\ UNCHANGED <<call, gil, inRead, request, delivered>>

EncEndsBlock ==
  /\ call = "encode" /\ pc["lz"] = "using" /\ lz.rem > 0 /\ enc.processed >= CodeBlockSize
  /\ enc' = CheckErrors(enc)
  /\ call' = "back"
  /\ UNCHANGED <<vars, gil, inRead, outStream, request, delivered>>


\* Flush: no bytes are left.
EncFlushes ==
  /\ call = "encode" /\ pc["lz"] = "using" /\ lz.rem = 0 /\ lz.eof
  /\ \E r \in RcFlush([enc EXCEPT !.finished = TRUE, !.pending = @ + 1], outStream) :
       enc' = CheckErrors(r[1]) /\ outStream' = r[2]
  /\ call' = "back"
  /\ UNCHANGED <<vars, gil, inRead, request, delivered>>

EncStep == EncInit \/ EncBegins \/ EncAsks \/ EncTakesPosition \/ EncEndsBlock \/ EncFlushes
-----------------------------------------------------------------------------
(* The caller. *)

\* pylzma_compfile_init, with LzmaEnc_Prepare creating both threads.
Construct ==
  /\ call = "new"
  /\ \/ CreateOk("hash", "new", "createBt") /\ UNCHANGED <<call, gil, outStream>>
     \/ /\ CreateOk("bt", "createBt", "idle")
        /\ call' = "open" /\ DropGil
        /\ outStream' = [outStream EXCEPT !.size = 1]
  /\ UNCHANGED <<dataVars, inRead, enc, request, delivered>>

Read ==
  /\ call = "open" /\ TakeGil("lz")
  /\ \E n \in Sizes : request' = [request EXCEPT !.size = n]
  /\ call' = "loop"
  /\ UNCHANGED <<vars, inRead, enc, outStream, delivered>>

WantsMore == request.size = 0 \/ outStream.size < request.size

\* Mutant: no Py_BEGIN_ALLOW_THREADS.
ReadLoop_KeepsGil ==
  /\ call = "loop"
  /\ call' = IF WantsMore THEN "code" ELSE "test"
  /\ UNCHANGED <<vars, gil, inRead, enc, outStream, request, delivered>>

ReadLoop ==
  /\ call = "loop"
  /\ IF WantsMore THEN call' = "code" /\ DropGil ELSE call' = "test" /\ UNCHANGED gil
  /\ UNCHANGED <<vars, inRead, enc, outStream, request, delivered>>

\* Py_END_ALLOW_THREADS; an error ends the loop like the end of the stream.
CodeReturns ==
  /\ call = "back" /\ TakeGil("lz")
  /\ call' = IF enc.finished THEN "test" ELSE "loop"
  /\ UNCHANGED <<vars, inRead, enc, outStream, request, delivered>>

\* LzmaEnc_Finish, with the lock held; nothing to stop when it was called before.
Finish ==
  /\ call = "test"
  /\ IF enc.finished /\ pc["lz"] = "using"
       THEN ReleaseStream /\ UNCHANGED dataVars ELSE UNCHANGED vars
  /\ call' = "finish"
  /\ UNCHANGED <<gil, inRead, enc, outStream, request, delivered>>

\* Mutant: the buffer is cleared whatever was taken from it.
Discard_All(o, n) == [o EXCEPT !.size = 0]

Discard(o, n) == [o EXCEPT !.size = @ - n]

ReadReturn ==
  LET n == IF request.size = 0 THEN outStream.size ELSE Smaller(request.size, outStream.size) IN
  /\ call = "finish" /\ pc["lz"] \in {"using", "idle"}
  /\ outStream' = Discard(outStream, n)
  /\ delivered' = delivered + n
  /\ request' = [request EXCEPT !.returned = n]
  /\ call' = "open" /\ DropGil
  /\ UNCHANGED <<vars, inRead, enc>>

\* pylzma_compfile_dealloc: first the file is given up, whose destructor may run
\* (when nobody else refers to it) and may release the lock ...
Dealloc ==
  /\ call = "open" /\ TakeGil("lz")
  /\ call' = "decref"
  /\ UNCHANGED <<vars, inRead, enc, outStream, request, delivered>>

DecrefFile ==
  /\ call = "decref"
  /\ \/ call' = "destroy" /\ UNCHANGED gil
     \/ FinalizerMayWait /\ call' = "finalizer" /\ DropGil
  /\ UNCHANGED <<vars, inRead, enc, outStream, request, delivered>>

FinalizerReturns ==
  /\ call = "finalizer" /\ TakeGil("lz")
  /\ call' = "destroy"
  /\ UNCHANGED <<vars, inRead, enc, outStream, request, delivered>>

\* ... then LzmaEnc_Destroy, which stops and joins the threads, and the buffers.
Destroy ==
  /\ call = "destroy"
  /\ \/ (ReleaseStream \/ (pc["lz"] = "idle" /\ DestructBegin)) /\ UNCHANGED <<call, gil>>
     \/ pc["lz"] = "done" /\ call' = "gone" /\ DropGil /\ UNCHANGED syncVars
  /\ UNCHANGED <<dataVars, inRead, enc, outStream, request, delivered>>

CallStep ==
  \/ Construct \/ ReadLoop \/ CodeReturns \/ Finish \/ ReadReturn
  \/ DecrefFile \/ FinalizerReturns \/ Destroy
-----------------------------------------------------------------------------
(* The hash thread in PythonInStream_Read. *)

NeedsRead == keepSizeAfter >= Avail(mf) /\ ~mf.ended /\ ~mf.failed /\ Room(mf) > 0

\* PyGILState_Ensure.
HashAsksFile ==
  /\ pc["hash"] = "fill" /\ NeedsRead /\ inRead = "out"
  /\ TakeGil("hash")
  /\ inRead' = "called"
  /\ UNCHANGED <<vars, call, enc, outStream, request, delivered>>

\* read() of the file releases the lock while it waits, and takes it again.
HashWaitsForFile ==
  /\ \/ inRead = "called" /\ inRead' = "waiting" /\ DropGil
     \/ inRead = "waiting" /\ inRead' = "answered" /\ TakeGil("hash")
  /\ UNCHANGED <<vars, call, enc, outStream, request, delivered>>

\* The block is filled, with an error when read() raised or gave no bytes object.
HashFills ==
  /\ IF NeedsRead THEN inRead \in {"called", "answered"} /\ DropGil ELSE UNCHANGED gil
  /\ HashFillsBlock
  /\ inRead' = "out"
  /\ UNCHANGED <<call, enc, outStream, request, delivered>>

HashThreadStep ==
  \/ HashAsksFile \/ HashWaitsForFile \/ HashFills
  \/ HashThread /\ pc["hash"] # "fill" /\ UNCHANGED pyVars
-----------------------------------------------------------------------------
LzThreadStep == EncStep \/ CallStep \/ (LzStep /\ UNCHANGED pyVars)

CompressNext ==
  Read \/ Dealloc \/ LzThreadStep \/ HashThreadStep \/ (BtThread /\ UNCHANGED pyVars)

CompressSpec == CompressInit /\ [][CompressNext]_allVars

(* Threads that can run do run; whether the caller reads on is its choice. *)
FairCompress ==
  /\ WF_allVars(LzThreadStep) /\ WF_allVars(HashThreadStep)
  /\ WF_allVars(BtThread /\ UNCHANGED pyVars)
CompressFairSpec == CompressSpec /\ FairCompress
-----------------------------------------------------------------------------
CompressTypeOK ==
  /\ call \in Calls
  /\ gil \in {"lz", "hash", Nobody}
  /\ inRead \in {"out", "called", "waiting", "answered"}
  /\ enc \in [needInit : BOOLEAN, finished : BOOLEAN, result : {"ok", "read", "write"},
              processed : 0..CodeBlockSize, pending : 0..RcBufSize, rcFailed : BOOLEAN]
  /\ outStream \in [size : Nat, lost : BOOLEAN]
  /\ request \in [size : Sizes, returned : Nat]
  /\ delivered \in Nat

(* What was encoded is in exactly one place: returned by read(), in the output *)
(* buffer or in that of the range encoder, wherever the calls, the blocks and  *)
(* the buffers end.                                                            *)
OutputAccounted ==
  call \notin {"new", "gone"} /\ ~outStream.lost =>
    LET end == IF lz.eof /\ enc.finished THEN 1 ELSE 0 IN
    delivered + outStream.size + enc.pending = 1 + (IF enc.needInit THEN 0 ELSE lz.pos) + end

(* When read() returns nothing, the stream is over: without an error all of    *)
(* the input and the end of the stream have been returned.                     *)
EmptyMeansOver ==
  call = "open" /\ request.returned = 0 =>
    /\ enc.finished
    /\ enc.result = "ok" => mf.ended /\ delivered = 1 + mf.len + 1

(* read() returns: encoding never waits for a thread that waits for the lock.  *)
(* (When output was lost LzmaEnc_Finish stops the threads with the lock held,  *)
(* while the hash thread may be asking for it.)                                *)
ReadReturns == call = "loop" ~> (call = "open" \/ outStream.lost)

(* The deallocation returns ("so we can get fast thread stop", LzFindMt.c).    *)
DeallocReturns == call = "decref" ~> call = "gone"

(* It does when the input has been read to its end or was not begun.           *)
DeallocReturnsAfterEnd ==
  call = "decref" /\ (mf.ended \/ mf.failed \/ enc.needInit) ~> call = "gone"

(* No output is lost or returned twice by read(), and none is missing when it    *)
(* says that there is no more.                                                 *)
OutputKept == CompressTypeOK /\ OutputAccounted /\ EmptyMeansOver
=============================================================================
