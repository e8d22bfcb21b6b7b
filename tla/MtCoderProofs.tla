--------------------------- MODULE MtCoderProofs ---------------------------
(***************************************************************************)
(* The multithreaded coder of MtCoder.c, for any number of threads, slots, *)
(* blocks and calls that fail: who reads, who writes, which slots are in   *)
(* use and who owns which buffer (ControlInv), and in which order and how  *)
(* completely the blocks are written (DataInv).                            *)
(***************************************************************************)
EXTENDS MtCoder, FiniteSetTheorems, TLAPS

-----------------------------------------------------------------------------
(* The types                                                               *)

Buffers  == 0 .. BlocksMax - 1
Piece    == [from : Nat, to : Nat, finished : BOOLEAN]
BlockRec == [res : Codes, buf : Buffers \cup {None}, finished : BOOLEAN]
ThreadRec ==
  [pc : CoderLabels, start : BOOLEAN, stop : BOOLEAN, bi : Slots, buf : Buffers \cup {None},
   from : Nat, to : Nat, finished : BOOLEAN, res : Codes, ready : BOOLEAN, count : Nat]
MainRec == [pc : {"idle", "open", "wait", "free", "gone"}, calls : Nat, result : Codes \cup {"none"}]
CoderRec ==
  [readEvent : BOOLEAN, stopReading : BOOLEAN, processed : Nat, blockIndex : Slots, readRes : Codes,
   sem : Nat, progressRes : Codes, started : Nat, finished : Nat, finishedEvent : BOOLEAN,
   free : Seq(Buffers), writeIndex : Slots \cup {None}, writeRes : Codes, ready : [Slots -> BOOLEAN],
   blocks : [Slots -> BlockRec]]

Typed ==
  /\ setup \in Setups /\ faults \in 0 .. setup.faults /\ main \in MainRec /\ p \in CoderRec
  /\ thread \in [CoderThreads -> ThreadRec] /\ outBuf \in [Buffers -> Piece] /\ written \in Seq(Piece)

\* What a thread has read.
Content(th) == [from |-> th.from, to |-> th.to, finished |-> th.finished]
-----------------------------------------------------------------------------
(* The calls, and the threads that take part in one                        *)

InCall  == main.pc \in {"open", "wait"}
Over(t) == thread[t].pc = "compare" \/ (thread[t].pc = "start" /\ ~thread[t].start)
Threads_Over == {t \in CoderThreads : t < p.started /\ Over(t)}

\* Between calls the threads are at rest; only those that are to stop may run.
QuietInv ==
  /\ ~InCall => \A t \in CoderThreads :
       thread[t].pc \in {"absent", "start", "compare"} /\ (thread[t].start => thread[t].stop)
  /\ main.pc = "idle" => \A t \in CoderThreads : ~thread[t].stop
  /\ main.pc = "gone" => \A t \in CoderThreads : thread[t].pc = "absent"
  /\ main.calls = 0 => \A t \in CoderThreads : thread[t].pc = "absent"

\* In a call the first p.started threads run, until they have counted themselves.
CallInv ==
  /\ p.started \in 1 .. NumThreads
  /\ main.pc = "open" =>
       /\ ~p.readEvent /\ p.started = 1
       /\ \A t \in CoderThreads : thread[t].pc \in {"absent", "start", "turn"}
  /\ InCall =>
       /\ \A t \in CoderThreads :
            /\ ~thread[t].stop /\ (thread[t].start => thread[t].pc = "start" /\ t < p.started)
            /\ t < p.started => thread[t].pc # "absent"
            /\ t >= p.started => thread[t].pc \in {"absent", "start"}
            /\ thread[t].pc = "compare" => thread[t].count <= p.finished
       /\ p.finished = Cardinality(Threads_Over)
       /\ p.finishedEvent => p.finished = p.started
  /\ p.finished <= p.started
-----------------------------------------------------------------------------
(* The turn to read                                                        *)

Reads(t) == thread[t].pc \in {"read", "slot"}

ReaderInv ==
  /\ \A t, u \in CoderThreads : Reads(t) /\ Reads(u) => t = u
  /\ \A t \in CoderThreads : Reads(t) => main.pc = "wait" /\ ~p.readEvent /\ ~p.stopReading
  /\ p.processed <= setup.size
-----------------------------------------------------------------------------
(* The slots: a window of them is in use, from the one that is written next *)
(* to the one before blockIndex; the semaphore counts the others.          *)

Writes(t) == \/ thread[t].pc \in {"write", "advance"}
             \/ thread[t].pc = "release" /\ thread[t].ready
Hold(t)   == thread[t].pc \in {"buffer", "code", "publish"} \/ Writes(t)
Releasing == {t \in CoderThreads : thread[t].pc = "release"}

After(s)  == IF s + 1 = NumBlocksMax THEN 0 ELSE s + 1
Off(f, s) == IF s >= f THEN s - f ELSE s - f + NumBlocksMax

InUse(s) == p.ready[s] \/ \E t \in CoderThreads : Hold(t) /\ thread[t].bi = s

SlotsAt(f, u) ==
  /\ p.writeIndex # None => p.writeIndex = f
  /\ \A t \in CoderThreads : Writes(t) => thread[t].bi = f
  /\ u + p.sem + Cardinality(Releasing) = NumBlocksMax
  /\ p.blockIndex = IF f + u >= NumBlocksMax THEN f + u - NumBlocksMax ELSE f + u
  /\ \A s \in Slots : Off(f, s) < u <=> InUse(s)

SlotsInv == \E f \in Slots, u \in 0 .. NumBlocksMax : SlotsAt(f, u)

\* A slot in use is held by one thread or waits; one thread writes, or none.
HoldInv ==
  /\ \A t, v \in CoderThreads : Hold(t) /\ Hold(v) /\ thread[t].bi = thread[v].bi => t = v
  /\ \A t \in CoderThreads : Hold(t) => ~p.ready[thread[t].bi]
  /\ \A t, v \in CoderThreads : Writes(t) /\ Writes(v) => t = v
  /\ p.writeIndex = None <=> \E t \in CoderThreads : Writes(t)
  /\ p.writeIndex # None => ~p.ready[p.writeIndex]
-----------------------------------------------------------------------------
(* The output buffers                                                      *)

\* Slot s has buffer b.
HasIn(t, s, b) ==
  /\ thread[t].bi = s
  /\ \/ thread[t].pc \in {"code", "publish", "write", "advance"} /\ thread[t].buf = b
     \/ thread[t].pc = "release" /\ thread[t].ready /\ p.blocks[s].buf = b
Has(s, b) == (p.ready[s] /\ p.blocks[s].buf = b) \/ \E t \in CoderThreads : HasIn(t, s, b)

\* Each buffer is free or one slot has it; the last buffer is always free.
BufferInv ==
  /\ \A i, j \in 1 .. Len(p.free) : p.free[i] = p.free[j] => i = j
  /\ \A i \in 1 .. Len(p.free), s \in Slots : ~Has(s, p.free[i])
  /\ \A b \in Buffers, r, s \in Slots : Has(r, b) /\ Has(s, b) => r = s
  /\ \A b \in Buffers : (\E i \in 1 .. Len(p.free) : p.free[i] = b) \/ (\E s \in Slots : Has(s, b))
  /\ p.free # <<>> /\ p.free[Len(p.free)] = NumBlocksMax
  /\ \A t \in CoderThreads : thread[t].buf # NumBlocksMax
  /\ \A s \in Slots : p.blocks[s].buf # NumBlocksMax

ControlInv == Typed /\ QuietInv /\ CallInv /\ ReaderInv /\ SlotsInv /\ HoldInv /\ BufferInv
-----------------------------------------------------------------------------
(* What does not change                                                    *)

\* The sizes: there are at least two slots, and one buffer more than slots.
LEMMA SizeFacts ==
  ASSUME setup \in Setups
  PROVE  /\ NumThreads \in Nat \ {0} /\ NumBlocksMax \in Nat /\ NumBlocksMax >= 2
         /\ BlocksMax = NumBlocksMax + 1
         /\ setup.block \in Nat \ {0} /\ setup.size \in Nat /\ setup.faults \in Nat /\ setup.calls \in Nat
         /\ setup.stream \in BOOLEAN /\ setup.expected \in BOOLEAN
<1>1. setup \in [threads : 1 .. MaxThreads, extra : 0 .. 3, block : Nat \ {0}, size : Nat,
                 stream : BOOLEAN, expected : BOOLEAN, faults : Nat, calls : Nat]
  BY MtCoderAssumption
<1>2. MaxThreads \in Nat
  BY MtCoderAssumption
<1>3. NumThreads \in Nat \ {0} /\ setup.extra \in Nat
  BY <1>1, <1>2 DEF NumThreads
<1>4. NumThreads \div 8 \in Nat
  BY <1>3
<1> QED
  BY <1>1, <1>3, <1>4 DEF NumBlocksMax, BlocksMax

\* No step changes what the callers have set.
LEMMA SetupKept ==
  ASSUME [CoderNext]_coderVars
  PROVE  setup' = setup
  BY DEF CoderNext, coderVars, CodeBegin, CoderStep, Destruct, MainStep, CodeOpen, CodeEnd, Freed,
     StopThread, Gone, ThreadStep, Wake, Turn, Read, TakeSlot, Buffer, Code, PublishBlock, Write,
     Advance, ReleaseSlot, Count, Compare

\* ... and so the sets and sizes that depend on it stay.
LEMMA SizesKept ==
  ASSUME setup' = setup
  PROVE  /\ NumThreads' = NumThreads /\ NumBlocksMax' = NumBlocksMax /\ BlocksMax' = BlocksMax
         /\ CoderThreads' = CoderThreads /\ Slots' = Slots /\ Buffers' = Buffers
         /\ BlockRec' = BlockRec /\ ThreadRec' = ThreadRec /\ CoderRec' = CoderRec
<1>1. NumThreads' = NumThreads /\ NumBlocksMax' = NumBlocksMax /\ BlocksMax' = BlocksMax
  BY DEF NumThreads, NumBlocksMax, BlocksMax
<1>2. CoderThreads' = CoderThreads /\ Slots' = Slots /\ Buffers' = Buffers
  BY <1>1 DEF CoderThreads, Slots, Buffers
<1>3. BlockRec' = BlockRec
  BY <1>2 DEF BlockRec, Codes
<1> QED
  BY <1>1, <1>2, <1>3 DEF ThreadRec, CoderRec, CoderLabels, Codes

\* The next slot of the ring.
LEMMA AfterFacts ==
  ASSUME setup \in Setups, NEW s \in Slots
  PROVE  (s + 1) % NumBlocksMax = After(s) /\ After(s) \in Slots
<1>1. NumBlocksMax \in Nat /\ NumBlocksMax >= 2 /\ s \in 0 .. NumBlocksMax - 1
  BY SizeFacts DEF Slots
<1>2. CASE s + 1 = NumBlocksMax
  BY <1>1, <1>2 DEF After, Slots
<1>3. CASE s + 1 < NumBlocksMax
  BY <1>1, <1>3 DEF After, Slots
<1> QED
  BY <1>1, <1>2, <1>3
-----------------------------------------------------------------------------
(* Types                                                                   *)

\* Records, taken apart: an update of several fields is again such a record.
IsThread(h) ==
  h = [pc |-> h.pc, start |-> h.start, stop |-> h.stop, bi |-> h.bi, buf |-> h.buf, from |-> h.from,
       to |-> h.to, finished |-> h.finished, res |-> h.res, ready |-> h.ready, count |-> h.count]
ThreadFields(h) ==
  /\ h.pc \in CoderLabels /\ h.start \in BOOLEAN /\ h.stop \in BOOLEAN /\ h.bi \in Slots
  /\ h.buf \in Buffers \cup {None} /\ h.from \in Nat /\ h.to \in Nat /\ h.finished \in BOOLEAN
  /\ h.res \in Codes /\ h.ready \in BOOLEAN /\ h.count \in Nat

IsCoder(q) ==
  q = [readEvent |-> q.readEvent, stopReading |-> q.stopReading, processed |-> q.processed,
       blockIndex |-> q.blockIndex, readRes |-> q.readRes, sem |-> q.sem, progressRes |-> q.progressRes,
       started |-> q.started, finished |-> q.finished, finishedEvent |-> q.finishedEvent, free |-> q.free,
       writeIndex |-> q.writeIndex, writeRes |-> q.writeRes, ready |-> q.ready, blocks |-> q.blocks]
CoderFields(q) ==
  /\ q.readEvent \in BOOLEAN /\ q.stopReading \in BOOLEAN /\ q.processed \in Nat /\ q.blockIndex \in Slots
  /\ q.readRes \in Codes /\ q.sem \in Nat /\ q.progressRes \in Codes /\ q.started \in Nat
  /\ q.finished \in Nat /\ q.finishedEvent \in BOOLEAN /\ q.free \in Seq(Buffers)
  /\ q.writeIndex \in Slots \cup {None} /\ q.writeRes \in Codes /\ q.ready \in [Slots -> BOOLEAN]
  /\ q.blocks \in [Slots -> BlockRec]

\* A record with these fields, each of its type, is a thread.
LEMMA ThreadMade ==
  ASSUME NEW h, IsThread(h), ThreadFields(h)
  PROVE  h \in ThreadRec
  BY DEF IsThread, ThreadFields, ThreadRec

\* ... and a CMtCoder.
LEMMA CoderMade ==
  ASSUME NEW q, IsCoder(q), CoderFields(q)
  PROVE  q \in CoderRec
  BY DEF IsCoder, CoderFields, CoderRec

\* The fields of the CMtCoder have their types.
LEMMA CoderTaken ==
  ASSUME Typed
  PROVE  CoderFields(p)
  BY DEF CoderFields, Typed, CoderRec

\* ... and those of a thread.
LEMMA ThreadTaken ==
  ASSUME Typed, NEW t \in CoderThreads
  PROVE  thread[t] \in ThreadRec /\ ThreadFields(thread[t])
  BY DEF Typed, ThreadFields, ThreadRec

\* What MtCoder_Code sets before the first thread starts is typed.
LEMMA FreshTyped ==
  ASSUME setup \in Setups
  PROVE  Fresh \in CoderRec
<1>1. NumBlocksMax \in Nat /\ NumBlocksMax >= 2 /\ BlocksMax = NumBlocksMax + 1
  BY SizeFacts
<1>2. [i \in 1 .. BlocksMax |-> i - 1] \in Seq(Buffers)
  BY <1>1 DEF Buffers
<1>3. [s \in Slots |-> [res |-> "ok", buf |-> None, finished |-> FALSE]] \in [Slots -> BlockRec]
  BY DEF BlockRec, Codes
<1>4. 0 \in Slots
  BY <1>1 DEF Slots
<1> QED
  BY <1>1, <1>2, <1>3, <1>4 DEF Fresh, CoderRec, Codes

\* A thread that does not exist yet is typed.
LEMMA AbsentTyped ==
  ASSUME setup \in Setups
  PROVE  Absent \in ThreadRec
<1>1. 0 \in Slots
  BY SizeFacts DEF Slots
<1> QED
  BY <1>1 DEF Absent, ThreadRec, CoderLabels, Codes

\* MtCoder_Construct leaves a typed state.
LEMMA InitTyped == CoderInit => Typed
<1> SUFFICES ASSUME CoderInit PROVE Typed
  OBVIOUS
<1>1. setup \in Setups /\ faults \in 0 .. setup.faults
  BY SizeFacts DEF CoderInit
<1>2. Absent \in ThreadRec
  BY <1>1, AbsentTyped
<1>3. p \in CoderRec
  BY <1>1, FreshTyped DEF CoderInit
<1>4. outBuf \in [Buffers -> Piece]
  BY DEF CoderInit, Buffers, Piece
<1> QED
  BY <1>1, <1>2, <1>3, <1>4 DEF CoderInit, Typed, MainRec

\* A thread is started, or told to start again.
LEMMA StartedTyped ==
  ASSUME NEW h \in ThreadRec
  PROVE  Started(h) \in ThreadRec
<1>1. PICK g : g = Started(h)
  OBVIOUS
<1>2. IsThread(g)
  BY <1>1 DEF Started, IsThread, ThreadRec
<1>3. ThreadFields(g)
  BY <1>1 DEF Started, ThreadFields, ThreadRec, CoderLabels
<1> QED
  BY <1>1, <1>2, <1>3, ThreadMade

\* The steps of the caller.
LEMMA CallerTypes ==
  ASSUME Typed, CodeBegin \/ CodeOpen \/ CodeEnd \/ Destruct \/ Freed \/ (\E t \in CoderThreads : StopThread(t))
  PROVE  Typed'
<1>0. setup' = setup
  BY DEF CodeBegin, CodeOpen, CodeEnd, Destruct, Freed, StopThread
<1> USE SizesKept, <1>0 DEF Typed
<1>1. CASE CodeBegin
  <2>1. p' \in CoderRec /\ written' = <<>> /\ outBuf' = outBuf
    BY <1>1, FreshTyped DEF CodeBegin
  <2>2. faults' \in 0 .. setup.faults
    BY <1>1, SizeFacts DEF CodeBegin, Fault
  <2>3. \/ main' = [pc |-> "open", calls |-> main.calls + 1, result |-> "none"]
        \/ main' = [main EXCEPT !.calls = @ + 1, !.result = "thread"]
    BY <1>1 DEF CodeBegin
  <2>4. \/ main' = [pc |-> "open", calls |-> main.calls + 1, result |-> "none"]
        \/ main' = [pc |-> main.pc, calls |-> main.calls + 1, result |-> "thread"]
    BY <2>3 DEF MainRec
  <2>5. main' \in MainRec
    BY <2>4 DEF MainRec, Codes
  <2>6. 0 \in CoderThreads
    BY SizeFacts DEF CoderThreads
  <2>7. thread' \in [CoderThreads -> ThreadRec]
    BY <1>1, <2>6, StartedTyped DEF CodeBegin
  <2> QED
    BY <2>1, <2>2, <2>5, <2>7
<1>2. CASE CodeOpen
  BY <1>2 DEF CodeOpen, CoderRec, MainRec
<1>3. CASE CodeEnd
  <2>1. CodeResult \in Codes
    BY DEF CodeResult, CoderRec
  <2>2. main'.pc \in {"idle", "free"} /\ main'.calls = main.calls /\ main'.result \in Codes
    BY <1>3, <2>1 DEF CodeEnd, MainRec
  <2>3. main' = [pc |-> main'.pc, calls |-> main'.calls, result |-> main'.result]
    BY <1>3 DEF CodeEnd, MainRec
  <2>4. main' \in MainRec
    BY <2>2, <2>3 DEF MainRec
  <2> QED
    BY <1>3, <2>4 DEF CodeEnd, CoderRec
<1>4. CASE Destruct \/ Freed
  BY <1>4 DEF Destruct, Freed, MainRec
<1>5. ASSUME NEW t \in CoderThreads, StopThread(t) PROVE Typed'
  <2>1. PICK h : h = [thread[t] EXCEPT !.stop = TRUE, !.start = TRUE]
    OBVIOUS
  <2>2. IsThread(h)
    BY <2>1 DEF IsThread, ThreadRec
  <2>3. ThreadFields(h)
    BY <2>1 DEF ThreadFields, ThreadRec
  <2> QED
    BY <1>5, <2>1, <2>2, <2>3, ThreadMade DEF StopThread
<1> QED
  BY <1>1, <1>2, <1>3, <1>4, <1>5
-----------------------------------------------------------------------------
(* What the steps of a thread change                                       *)

\* The fields of the coder that are about reading, slots, the line of blocks to
\* write, the threads that have finished, and errors.
ReadPart(q)  == <<q.readEvent, q.stopReading, q.processed, q.readRes>>
SlotPart(q)  == <<q.sem, q.blockIndex>>
LinePart(q)  == <<q.writeIndex, q.ready, q.blocks>>
CountPart(q) == <<q.started, q.finished, q.finishedEvent>>
ErrorPart(q) == <<q.progressRes, q.writeRes>>

\* The fields of a thread that are about being started, and about its block.
StartPart(h) == <<h.start, h.stop, h.count>>
BlockPart(h) == <<h.from, h.to, h.finished>>

\* The others keep everything; the caller and the setup stay.
OthersKept(t) == \A u \in CoderThreads : u # t => thread'[u] = thread[u]
CallerKept    == setup' = setup /\ main' = main

\* One thread is set to a typed record.
LEMMA ThreadSet ==
  ASSUME Typed, NEW t \in CoderThreads, NEW h \in ThreadRec, thread' = [thread EXCEPT ![t] = h]
  PROVE  thread' \in [CoderThreads -> ThreadRec] /\ thread'[t] = h /\ OthersKept(t)
  BY DEF Typed, OthersKept

\* What Wake changes.
LEMMA WakeStep ==
  ASSUME Typed, NEW t \in CoderThreads, Wake(t)
  PROVE  /\ thread' \in [CoderThreads -> ThreadRec] /\ OthersKept(t) /\ CallerKept
         /\ UNCHANGED <<p, faults, outBuf, written>> /\ thread[t].pc = "start" /\ thread[t].start
         /\ thread[t].stop => thread'[t] = Absent
         /\ ~thread[t].stop => /\ thread'[t].pc = "turn" /\ ~thread'[t].start /\ ~thread'[t].stop
                               /\ thread'[t].buf = thread[t].buf
<1>1. CASE thread[t].stop
  <2>1. Absent \in ThreadRec
    BY AbsentTyped DEF Typed
  <2>2. thread' = [thread EXCEPT ![t] = Absent]
    BY <1>1 DEF Wake
  <2> QED
    BY <1>1, <2>1, <2>2, ThreadSet DEF Wake, CallerKept
<1>2. CASE ~thread[t].stop
  <2>1. PICK h : h = [thread[t] EXCEPT !.start = FALSE, !.pc = "turn"]
    OBVIOUS
  <2>2. IsThread(h)
    BY <2>1, ThreadTaken DEF IsThread, ThreadRec
  <2>3. ThreadFields(h) /\ h.pc = "turn" /\ ~h.start /\ ~h.stop /\ h.buf = thread[t].buf
    BY <1>2, <2>1, ThreadTaken DEF ThreadFields, ThreadRec, CoderLabels
  <2>4. thread' = [thread EXCEPT ![t] = h]
    BY <1>2, <2>1 DEF Wake
  <2> QED
    BY <1>2, <2>2, <2>3, <2>4, ThreadMade, ThreadSet DEF Wake, CallerKept
<1> QED
  BY <1>1, <1>2

\* What Turn changes.
LEMMA TurnStep ==
  ASSUME Typed, NEW t \in CoderThreads, Turn(t)
  PROVE  /\ thread' \in [CoderThreads -> ThreadRec] /\ OthersKept(t) /\ CallerKept
         /\ p' \in CoderRec /\ UNCHANGED <<faults, outBuf, written>>
         /\ thread[t].pc = "turn" /\ p.readEvent /\ p'.readEvent = p.stopReading
         /\ p'.stopReading = p.stopReading /\ p'.processed = p.processed /\ p'.readRes = p.readRes
         /\ SlotPart(p') = SlotPart(p) /\ LinePart(p') = LinePart(p) /\ CountPart(p') = CountPart(p)
         /\ ErrorPart(p') = ErrorPart(p) /\ p'.free = p.free
         /\ thread'[t].pc = (IF p.stopReading THEN "tail" ELSE "read")
         /\ StartPart(thread'[t]) = StartPart(thread[t]) /\ thread'[t].buf = thread[t].buf
<1>1. PICK h : h = [thread[t] EXCEPT !.pc = IF p.stopReading THEN "tail" ELSE "read"]
  OBVIOUS
<1>2. h \in ThreadRec
  BY <1>1, ThreadTaken DEF ThreadRec, CoderLabels
<1>3. h.pc = (IF p.stopReading THEN "tail" ELSE "read") /\ StartPart(h) = StartPart(thread[t]) /\ h.buf = thread[t].buf
  BY <1>1, ThreadTaken DEF ThreadRec, StartPart
<1>4. thread' = [thread EXCEPT ![t] = h]
  BY <1>1 DEF Turn
<1>5. p' = [p EXCEPT !.readEvent = p.stopReading] /\ p \in CoderRec
  BY DEF Turn, Typed
<1>6. p' \in CoderRec
  BY <1>5 DEF CoderRec
<1>7. /\ p'.readEvent = p.stopReading
      /\ p'.stopReading = p.stopReading /\ p'.processed = p.processed /\ p'.readRes = p.readRes
      /\ SlotPart(p') = SlotPart(p) /\ LinePart(p') = LinePart(p) /\ CountPart(p') = CountPart(p)
      /\ ErrorPart(p') = ErrorPart(p) /\ p'.free = p.free
  BY <1>5 DEF CoderRec, SlotPart, LinePart, CountPart, ErrorPart
<1> QED
  BY <1>2, <1>3, <1>4, <1>6, <1>7, ThreadSet DEF Turn, CallerKept

\* A block reaches from where the last one ended to at most the end of the input.
LEMMA ReadToFacts ==
  ASSUME Typed, p.processed <= setup.size
  PROVE  /\ ReadTo \in Nat /\ p.processed <= ReadTo /\ ReadTo <= setup.size
         /\ ReadTo - p.processed # setup.block => ReadTo = setup.size
<1>1. p.processed \in Nat /\ setup.size \in Nat /\ setup.block \in Nat \ {0}
  BY SizeFacts, CoderTaken DEF Typed, CoderFields
<1> QED
  BY <1>1 DEF ReadTo

\* What a thread keeps of the block that it read.
LEMMA GotStep ==
  ASSUME Typed, NEW t \in CoderThreads, NEW to \in Nat, NEW fin \in BOOLEAN, NEW res \in Codes, Got(t, to, fin, res)
  PROVE  /\ thread' \in [CoderThreads -> ThreadRec] /\ OthersKept(t)
         /\ thread'[t].pc = "slot" /\ StartPart(thread'[t]) = StartPart(thread[t])
         /\ thread'[t].from = p.processed /\ thread'[t].to = to /\ thread'[t].finished = fin
         /\ thread'[t].res = res /\ thread'[t].buf = thread[t].buf
<1>1. PICK h : h = [thread[t] EXCEPT !.pc = "slot", !.from = p.processed, !.to = to, !.finished = fin, !.res = res]
  OBVIOUS
<1>2. IsThread(h)
  BY <1>1, ThreadTaken DEF IsThread, ThreadRec
<1>3. p.processed \in Nat
  BY CoderTaken DEF CoderFields
<1>4. ThreadFields(h)
  BY <1>1, <1>3, ThreadTaken DEF ThreadFields, ThreadRec, CoderLabels
<1>5. /\ h.pc = "slot" /\ StartPart(h) = StartPart(thread[t]) /\ h.from = p.processed /\ h.to = to
      /\ h.finished = fin /\ h.res = res /\ h.buf = thread[t].buf
  BY <1>1, ThreadTaken DEF ThreadRec, StartPart
<1>6. thread' = [thread EXCEPT ![t] = h]
  BY <1>1 DEF Got
<1> QED
  BY <1>2, <1>4, <1>5, <1>6, ThreadMade, ThreadSet

\* What Read changes: without an error the block ends where the next one begins.
LEMMA ReadStep ==
  ASSUME Typed, NEW t \in CoderThreads, Read(t), p.processed <= setup.size
  PROVE  /\ thread' \in [CoderThreads -> ThreadRec] /\ OthersKept(t) /\ CallerKept
         /\ p' \in CoderRec /\ faults' \in 0 .. setup.faults /\ UNCHANGED <<outBuf, written>>
         /\ thread[t].pc = "read" /\ thread'[t].pc = "slot"
         /\ StartPart(thread'[t]) = StartPart(thread[t]) /\ thread'[t].buf = thread[t].buf
         /\ thread'[t].from = p.processed /\ thread'[t].to = p'.processed
         /\ p.processed <= p'.processed /\ p'.processed <= setup.size
         /\ p'.readEvent = p.readEvent /\ p'.stopReading = p.stopReading
         /\ SlotPart(p') = SlotPart(p) /\ LinePart(p') = LinePart(p) /\ CountPart(p') = CountPart(p)
         /\ p'.free = p.free /\ p'.writeRes = p.writeRes
         /\ p'.progressRes = "ok" =>
              /\ p.progressRes = "ok" /\ p'.readRes = p.readRes /\ thread'[t].res = "ok"
              /\ thread'[t].finished => thread'[t].to = setup.size
<1>0. p \in CoderRec /\ CoderFields(p) /\ faults \in 0 .. setup.faults
  BY CoderTaken DEF Typed
<1>s. setup.size \in Nat /\ setup.faults \in Nat /\ setup.block \in Nat \ {0}
  BY SizeFacts DEF Typed
<1>t. ReadTo \in Nat /\ p.processed <= ReadTo /\ ReadTo <= setup.size
  BY ReadToFacts
<1>c. thread[t].pc = "read" /\ CallerKept /\ UNCHANGED <<outBuf, written>>
  BY DEF Read, CallerKept
<1>1. CASE p.progressRes # "ok" /\ Got(t, p.processed, TRUE, p.progressRes) /\ UNCHANGED <<faults, p>>
  <2>1. p.processed \in Nat /\ p.progressRes \in Codes /\ TRUE \in BOOLEAN
    BY <1>0 DEF CoderFields
  <2>2. /\ thread' \in [CoderThreads -> ThreadRec] /\ OthersKept(t)
        /\ thread'[t].pc = "slot" /\ StartPart(thread'[t]) = StartPart(thread[t])
        /\ thread'[t].buf = thread[t].buf /\ thread'[t].from = p.processed /\ thread'[t].to = p.processed
    BY <1>1, <2>1, GotStep
  <2> QED
    BY <1>0, <1>1, <1>c, <2>1, <2>2
<1>2. CASE /\ p.progressRes = "ok" /\ p' = [p EXCEPT !.processed = ReadTo]
           /\ Got(t, ReadTo, IF setup.stream THEN ReadTo - p.processed # setup.block ELSE ReadTo = setup.size, "ok")
           /\ UNCHANGED faults
  <2> DEFINE fin == IF setup.stream THEN ReadTo - p.processed # setup.block ELSE ReadTo = setup.size
  <2>1. fin \in BOOLEAN /\ (fin => ReadTo = setup.size)
    BY ReadToFacts
  <2>2. "ok" \in Codes
    BY DEF Codes
  <2>3. Got(t, ReadTo, fin, "ok")
    BY <1>2
  <2> HIDE DEF fin
  <2>4. /\ thread' \in [CoderThreads -> ThreadRec] /\ OthersKept(t)
        /\ thread'[t].pc = "slot" /\ StartPart(thread'[t]) = StartPart(thread[t])
        /\ thread'[t].buf = thread[t].buf /\ thread'[t].from = p.processed /\ thread'[t].to = ReadTo /\ thread'[t].finished = fin
        /\ thread'[t].res = "ok"
    BY <1>t, <2>1, <2>2, <2>3, GotStep
  <2>5. p' \in CoderRec
    BY <1>0, <1>2, <1>t DEF CoderRec
  <2>6. /\ p'.processed = ReadTo /\ p'.readEvent = p.readEvent /\ p'.stopReading = p.stopReading
        /\ p'.readRes = p.readRes /\ p'.free = p.free /\ ErrorPart(p') = ErrorPart(p)
        /\ SlotPart(p') = SlotPart(p) /\ LinePart(p') = LinePart(p) /\ CountPart(p') = CountPart(p)
    BY <1>0, <1>2 DEF CoderRec, ErrorPart, SlotPart, LinePart, CountPart
  <2> QED
    BY <1>0, <1>2, <1>c, <1>t, <2>1, <2>4, <2>5, <2>6 DEF ErrorPart
<1>3. CASE /\ p.progressRes = "ok" /\ setup.stream /\ Fault
           /\ p' = [p EXCEPT !.readRes = "read", !.progressRes = "read"]
           /\ Got(t, p.processed, TRUE, "read")
  <2>1. IsCoder(p')
    BY <1>0, <1>3 DEF IsCoder, CoderRec
  <2>2. CoderFields(p')
    BY <1>0, <1>3 DEF CoderFields, CoderRec, Codes
  <2>3. /\ p'.processed = p.processed /\ p'.readEvent = p.readEvent /\ p'.stopReading = p.stopReading
        /\ p'.progressRes = "read" /\ p'.free = p.free /\ p'.writeRes = p.writeRes
        /\ SlotPart(p') = SlotPart(p) /\ LinePart(p') = LinePart(p) /\ CountPart(p') = CountPart(p)
    BY <1>0, <1>3 DEF CoderRec, SlotPart, LinePart, CountPart
  <2>4. p.processed \in Nat /\ "read" \in Codes
    BY <1>0 DEF CoderFields, Codes
  <2>5. /\ thread' \in [CoderThreads -> ThreadRec] /\ OthersKept(t)
        /\ thread'[t].pc = "slot" /\ StartPart(thread'[t]) = StartPart(thread[t])
        /\ thread'[t].buf = thread[t].buf /\ thread'[t].from = p.processed /\ thread'[t].to = p.processed
    BY <1>3, <2>4, GotStep
  <2>6. faults' \in 0 .. setup.faults
    BY <1>0, <1>3, <1>s DEF Fault
  <2> QED
    BY <1>c, <2>1, <2>2, <2>3, <2>4, <2>5, <2>6, CoderMade
<1> QED
  BY <1>1, <1>2, <1>3 DEF Read

\* MtProgress_SetError leaves an error.
LEMMA NotedFacts ==
  ASSUME Typed, NEW res \in Codes, res # "ok"
  PROVE  Noted(res) \in Codes /\ Noted(res) # "ok"
  BY CoderTaken DEF Noted, CoderFields

\* What a thread is like that has taken the slot blockIndex.
HasTaken(t, h, f, r) ==
  /\ h \in ThreadRec /\ h.bi = p.blockIndex /\ h.finished = f /\ h.res = r /\ h.buf = None
  /\ h.pc = (IF r = "ok" THEN "buffer" ELSE "publish") /\ h.from = thread[t].from /\ h.to = thread[t].to
  /\ StartPart(h) = StartPart(thread[t])

\* What is the same however TakeSlot goes on; f tells that reading is over.
SlotTaken(f) ==
  /\ p' \in CoderRec /\ p'.sem = p.sem - 1 /\ p'.blockIndex = After(p.blockIndex)
  /\ p'.readEvent /\ p'.stopReading = f /\ p'.processed = p.processed /\ p'.readRes = p.readRes
  /\ LinePart(p') = LinePart(p) /\ p'.finished = p.finished /\ p'.finishedEvent = p.finishedEvent
  /\ p'.free = p.free /\ p'.writeRes = p.writeRes

\* What TakeSlot changes, in each of its three ways to go on.
LEMMA TakeSlotStep ==
  ASSUME Typed, NEW t \in CoderThreads, TakeSlot(t), t < p.started
  PROVE  /\ thread[t].pc = "slot" /\ p.sem > 0 /\ CallerKept /\ UNCHANGED <<outBuf, written>>
         /\ faults' \in 0 .. setup.faults /\ thread' \in [CoderThreads -> ThreadRec]
         /\ \E f \in BOOLEAN, r \in Codes :
              /\ HasTaken(t, thread'[t], f, r) /\ SlotTaken(f) /\ (r # "ok" => f)
              /\ p.progressRes = "ok" /\ thread[t].res = "ok" /\ p'.progressRes = "ok" =>
                   r = "ok" /\ f = thread[t].finished
              /\ \/ OthersKept(t) /\ p'.started = p.started /\ p'.progressRes = p.progressRes
                 \/ OthersKept(t) /\ p'.started = p.started /\ p'.progressRes # "ok"
                 \/ /\ p'.started = p.started + 1 /\ p.started \in CoderThreads
                    /\ p'.progressRes = p.progressRes
                    /\ thread'[p.started] = Started(thread[p.started])
                    /\ \A u \in CoderThreads : u # t /\ u # p.started => thread'[u] = thread[u]
<1> DEFINE res == IF thread[t].res = "ok" THEN p.progressRes ELSE thread[t].res
           fin == res # "ok" \/ thread[t].finished
           more == ~fin /\ p.started < NumThreads /\ ~(setup.expected /\ p.processed = setup.size)
           Pass(f) == [p EXCEPT !.sem = @ - 1, !.blockIndex = (@ + 1) % NumBlocksMax,
                                !.readEvent = TRUE, !.stopReading = f]
           Taken(f, r) == [thread[t] EXCEPT !.bi = p.blockIndex, !.finished = f, !.res = r, !.buf = None,
                                            !.pc = IF r = "ok" THEN "buffer" ELSE "publish"]
<1>0. p \in CoderRec /\ CoderFields(p) /\ faults \in 0 .. setup.faults /\ setup \in Setups
  BY CoderTaken DEF Typed
<1>s. setup.faults \in Nat /\ NumThreads \in Nat
  BY <1>0, SizeFacts
<1>h. thread[t] \in ThreadRec /\ ThreadFields(thread[t])
  BY ThreadTaken
<1>c. /\ thread[t].pc = "slot" /\ p.sem > 0 /\ CallerKept /\ UNCHANGED <<outBuf, written>>
  BY DEF TakeSlot, CallerKept
<1>d. \/ /\ ~more /\ p' = Pass(fin) /\ UNCHANGED faults /\ thread' = [thread EXCEPT ![t] = Taken(fin, res)]
      \/ /\ more /\ p' = [Pass(FALSE) EXCEPT !.started = @ + 1] /\ UNCHANGED faults
         /\ thread' = [thread EXCEPT ![t] = Taken(FALSE, res), ![p.started] = Started(@)]
      \/ /\ more /\ Fault /\ p' = [Pass(TRUE) EXCEPT !.progressRes = Noted("thread")]
         /\ thread' = [thread EXCEPT ![t] = Taken(TRUE, "thread")]
  BY Zenon DEF TakeSlot
<1>r. res \in Codes /\ fin \in BOOLEAN /\ "thread" \in Codes /\ "thread" # "ok"
  BY <1>0, <1>h DEF CoderFields, ThreadFields, Codes
<1>m. ~fin => res = "ok" /\ ~thread[t].finished
  OBVIOUS
<1>n. res # "ok" => fin
  OBVIOUS
<1>k. p.progressRes = "ok" /\ thread[t].res = "ok" => res = "ok" /\ fin = thread[t].finished
  BY <1>h DEF ThreadFields
<1>p. ASSUME NEW f \in BOOLEAN
      PROVE  /\ Pass(f) \in CoderRec /\ Pass(f).sem = p.sem - 1 /\ Pass(f).blockIndex = After(p.blockIndex)
             /\ Pass(f).readEvent /\ Pass(f).stopReading = f /\ Pass(f).processed = p.processed
             /\ Pass(f).readRes = p.readRes /\ LinePart(Pass(f)) = LinePart(p)
             /\ CountPart(Pass(f)) = CountPart(p) /\ Pass(f).free = p.free
             /\ ErrorPart(Pass(f)) = ErrorPart(p)
  <2>1. (p.blockIndex + 1) % NumBlocksMax = After(p.blockIndex) /\ After(p.blockIndex) \in Slots
    BY <1>0, AfterFacts DEF CoderFields
  <2>2. PICK q : q = Pass(f)
    OBVIOUS
  <2>3. IsCoder(q)
    BY <1>0, <2>2 DEF IsCoder, CoderRec
  <2>4. CoderFields(q)
    BY <1>0, <1>c, <2>1, <2>2 DEF CoderFields, CoderRec
  <2>5. /\ q.sem = p.sem - 1 /\ q.blockIndex = After(p.blockIndex)
        /\ q.readEvent /\ q.stopReading = f /\ q.processed = p.processed
        /\ q.readRes = p.readRes /\ LinePart(q) = LinePart(p)
        /\ CountPart(q) = CountPart(p) /\ q.free = p.free /\ ErrorPart(q) = ErrorPart(p)
    BY <1>0, <2>1, <2>2 DEF CoderRec, LinePart, CountPart, ErrorPart
  <2> HIDE DEF Pass
  <2> QED
    BY <2>2, <2>3, <2>4, <2>5, CoderMade
<1>t. ASSUME NEW f \in BOOLEAN, NEW r \in Codes
      PROVE  HasTaken(t, Taken(f, r), f, r)
  <2>1. PICK h : h = Taken(f, r)
    OBVIOUS
  <2>2. IsThread(h)
    BY <1>h, <2>1 DEF IsThread, ThreadRec
  <2>3. h.pc = (IF r = "ok" THEN "buffer" ELSE "publish")
    BY <1>h, <2>1 DEF ThreadRec
  <2>4. /\ h.bi = p.blockIndex /\ h.finished = f /\ h.res = r /\ h.buf = None
        /\ h.from = thread[t].from /\ h.to = thread[t].to /\ h.start = thread[t].start
        /\ h.stop = thread[t].stop /\ h.ready = thread[t].ready /\ h.count = thread[t].count
    BY <1>h, <2>1 DEF ThreadRec
  <2>5. ThreadFields(h)
    BY <1>h, <1>0, <2>3, <2>4 DEF ThreadFields, CoderFields, CoderLabels
  <2> HIDE DEF Taken
  <2> QED
    BY <2>1, <2>2, <2>3, <2>4, <2>5, ThreadMade DEF HasTaken, StartPart
<1> HIDE DEF res, fin, Pass, Taken
<1>1. CASE ~more /\ p' = Pass(fin) /\ UNCHANGED faults /\ thread' = [thread EXCEPT ![t] = Taken(fin, res)]
  <2>1. HasTaken(t, Taken(fin, res), fin, res) /\ Taken(fin, res) \in ThreadRec
    BY <1>r, <1>t DEF HasTaken
  <2>2. thread' \in [CoderThreads -> ThreadRec] /\ thread'[t] = Taken(fin, res) /\ OthersKept(t)
    BY <1>1, <2>1, ThreadSet
  <2>3. SlotTaken(fin) /\ p'.started = p.started /\ p'.progressRes = p.progressRes
    BY <1>1, <1>r, <1>p DEF SlotTaken, CountPart, ErrorPart
  <2> QED
    BY <1>0, <1>1, <1>c, <1>r, <1>k, <1>n, <2>1, <2>2, <2>3
<1>2. CASE /\ more /\ p' = [Pass(FALSE) EXCEPT !.started = @ + 1] /\ UNCHANGED faults
           /\ thread' = [thread EXCEPT ![t] = Taken(FALSE, res), ![p.started] = Started(@)]
  <2>1. HasTaken(t, Taken(FALSE, res), FALSE, res) /\ Taken(FALSE, res) \in ThreadRec
    BY <1>r, <1>t DEF HasTaken
  <2>2. p.started \in CoderThreads /\ p.started # t
    BY <1>0, <1>2, <1>s DEF CoderThreads, CoderFields
  <2>3. Started(thread[p.started]) \in ThreadRec
    BY <2>2, ThreadTaken, StartedTyped
  <2>4. /\ thread' \in [CoderThreads -> ThreadRec] /\ thread'[t] = Taken(FALSE, res)
        /\ thread'[p.started] = Started(thread[p.started])
        /\ \A u \in CoderThreads : u # t /\ u # p.started => thread'[u] = thread[u]
    BY <1>2, <2>1, <2>2, <2>3 DEF Typed
  <2>5. PICK q \in CoderRec : /\ q = Pass(FALSE) /\ p' = [q EXCEPT !.started = @ + 1]
    BY <1>2, <1>p
  <2>a. IsCoder(p')
    BY <2>5 DEF IsCoder, CoderRec
  <2>b. CoderFields(p')
    <3>2. CoderFields(q)
      BY <2>5 DEF CoderFields, CoderRec
    <3>1. q.started \in Nat /\ q.started + 1 \in Nat
      BY <3>2 DEF CoderFields
    <3> QED
      BY <2>5, <3>1, <3>2 DEF CoderFields, CoderRec
  <2>6. p' \in CoderRec
    BY <2>a, <2>b, CoderMade
  <2>7. /\ p'.started = q.started + 1 /\ SlotPart(p') = SlotPart(q) /\ ReadPart(p') = ReadPart(q)
        /\ LinePart(p') = LinePart(q) /\ p'.finished = q.finished
        /\ p'.finishedEvent = q.finishedEvent /\ p'.free = q.free /\ ErrorPart(p') = ErrorPart(q)
    BY <2>5 DEF CoderRec, SlotPart, ReadPart, LinePart, ErrorPart
  <2>8. /\ q.sem = p.sem - 1 /\ q.blockIndex = After(p.blockIndex)
        /\ q.readEvent /\ q.stopReading = FALSE /\ q.processed = p.processed
        /\ q.readRes = p.readRes /\ LinePart(q) = LinePart(p)
        /\ CountPart(q) = CountPart(p) /\ q.free = p.free /\ ErrorPart(q) = ErrorPart(p)
    BY <2>5, <1>p
  <2>9. SlotTaken(FALSE) /\ p'.started = p.started + 1 /\ p'.progressRes = p.progressRes
    BY <2>6, <2>7, <2>8 DEF SlotTaken, SlotPart, ReadPart, CountPart, ErrorPart
  <2>10. res = "ok" /\ fin = FALSE /\ ~thread[t].finished
    BY <1>2, <1>m, <1>r
  <2> QED
    BY <1>0, <1>2, <1>c, <1>r, <1>h, <2>1, <2>2, <2>4, <2>9, <2>10 DEF ThreadFields
<1>3. CASE /\ more /\ Fault /\ p' = [Pass(TRUE) EXCEPT !.progressRes = Noted("thread")]
           /\ thread' = [thread EXCEPT ![t] = Taken(TRUE, "thread")]
  <2>1. HasTaken(t, Taken(TRUE, "thread"), TRUE, "thread") /\ Taken(TRUE, "thread") \in ThreadRec
    BY <1>r, <1>t DEF HasTaken
  <2>2. thread' \in [CoderThreads -> ThreadRec] /\ thread'[t] = Taken(TRUE, "thread") /\ OthersKept(t)
    BY <1>3, <2>1, ThreadSet
  <2>3. Noted("thread") \in Codes /\ Noted("thread") # "ok"
    BY <1>r, NotedFacts
  <2>5. PICK q \in CoderRec : /\ q = Pass(TRUE) /\ p' = [q EXCEPT !.progressRes = Noted("thread")]
    BY <1>3, <1>p
  <2>6. p' \in CoderRec
    BY <2>3, <2>5 DEF CoderRec
  <2>7. /\ p'.progressRes = Noted("thread") /\ SlotPart(p') = SlotPart(q) /\ ReadPart(p') = ReadPart(q)
        /\ LinePart(p') = LinePart(q) /\ CountPart(p') = CountPart(q)
        /\ p'.free = q.free /\ p'.writeRes = q.writeRes
    BY <2>5 DEF CoderRec, SlotPart, ReadPart, LinePart, CountPart
  <2>8. /\ q.sem = p.sem - 1 /\ q.blockIndex = After(p.blockIndex)
        /\ q.readEvent /\ q.stopReading = TRUE /\ q.processed = p.processed
        /\ q.readRes = p.readRes /\ LinePart(q) = LinePart(p)
        /\ CountPart(q) = CountPart(p) /\ q.free = p.free /\ ErrorPart(q) = ErrorPart(p)
    BY <2>5, <1>p
  <2>9. SlotTaken(TRUE) /\ p'.started = p.started /\ p'.progressRes # "ok"
    BY <2>3, <2>6, <2>7, <2>8 DEF SlotTaken, SlotPart, ReadPart, CountPart, ErrorPart
  <2>10. faults' \in 0 .. setup.faults
    BY <1>0, <1>3, <1>s DEF Fault
  <2> QED
    BY <1>c, <1>r, <2>1, <2>2, <2>9, <2>10
<1> QED
  BY <1>d, <1>1, <1>2, <1>3

\* A block gets the first free buffer.
LEMMA BufferStep ==
  ASSUME Typed, NEW t \in CoderThreads, Buffer(t), p.free # <<>>
  PROVE  /\ thread' \in [CoderThreads -> ThreadRec] /\ OthersKept(t) /\ CallerKept
         /\ p' \in CoderRec /\ UNCHANGED <<faults, outBuf, written>>
         /\ thread[t].pc = "buffer" /\ thread'[t].pc = "code"
         /\ thread'[t].buf = Head(p.free) /\ Head(p.free) \in Buffers /\ p'.free = Tail(p.free)
         /\ thread'[t].bi = thread[t].bi /\ thread'[t].res = thread[t].res
         /\ StartPart(thread'[t]) = StartPart(thread[t]) /\ BlockPart(thread'[t]) = BlockPart(thread[t])
         /\ ReadPart(p') = ReadPart(p) /\ SlotPart(p') = SlotPart(p) /\ LinePart(p') = LinePart(p)
         /\ CountPart(p') = CountPart(p) /\ ErrorPart(p') = ErrorPart(p)
<1>0. p \in CoderRec /\ CoderFields(p)
  BY CoderTaken DEF Typed
<1>1. Head(p.free) \in Buffers /\ Tail(p.free) \in Seq(Buffers)
  BY <1>0 DEF CoderFields
<1>2. PICK h : h = [thread[t] EXCEPT !.pc = "code", !.buf = Head(p.free)]
  OBVIOUS
<1>3. IsThread(h)
  BY <1>2, ThreadTaken DEF IsThread, ThreadRec
<1>4. ThreadFields(h)
  BY <1>1, <1>2, ThreadTaken DEF ThreadFields, ThreadRec, CoderLabels
<1>5. /\ h.pc = "code" /\ h.buf = Head(p.free) /\ h.bi = thread[t].bi /\ h.res = thread[t].res
      /\ StartPart(h) = StartPart(thread[t]) /\ BlockPart(h) = BlockPart(thread[t])
  BY <1>2, ThreadTaken DEF ThreadRec, StartPart, BlockPart
<1>6. thread' = [thread EXCEPT ![t] = h]
  BY <1>2 DEF Buffer
<1>7. p' = [p EXCEPT !.free = Tail(p.free)]
  BY DEF Buffer
<1>8. p' \in CoderRec
  BY <1>0, <1>1, <1>7 DEF CoderRec
<1>9. /\ p'.free = Tail(p.free) /\ ReadPart(p') = ReadPart(p) /\ SlotPart(p') = SlotPart(p)
      /\ LinePart(p') = LinePart(p) /\ CountPart(p') = CountPart(p) /\ ErrorPart(p') = ErrorPart(p)
  BY <1>0, <1>7 DEF CoderRec, ReadPart, SlotPart, LinePart, CountPart, ErrorPart
<1> QED
  BY <1>1, <1>3, <1>4, <1>5, <1>6, <1>8, <1>9, ThreadMade, ThreadSet DEF Buffer, CallerKept

\* The callback codes the block into its buffer, or fails.
LEMMA CodeStep ==
  ASSUME Typed, NEW t \in CoderThreads, Code(t)
  PROVE  /\ thread' \in [CoderThreads -> ThreadRec] /\ OthersKept(t) /\ CallerKept /\ UNCHANGED written
         /\ p' \in CoderRec /\ faults' \in 0 .. setup.faults /\ outBuf' \in [Buffers -> Piece]
         /\ thread[t].pc = "code" /\ thread'[t].pc = "publish"
         /\ thread'[t].bi = thread[t].bi /\ thread'[t].buf = thread[t].buf
         /\ StartPart(thread'[t]) = StartPart(thread[t]) /\ BlockPart(thread'[t]) = BlockPart(thread[t])
         /\ ReadPart(p') = ReadPart(p) /\ SlotPart(p') = SlotPart(p) /\ LinePart(p') = LinePart(p)
         /\ CountPart(p') = CountPart(p) /\ p'.free = p.free /\ p'.writeRes = p.writeRes
         /\ \/ /\ p' = p /\ thread'[t].res = thread[t].res
               /\ outBuf' = [outBuf EXCEPT ![thread[t].buf] = Content(thread[t])]
            \/ /\ p'.progressRes # "ok" /\ outBuf' = outBuf /\ thread'[t].res = "code"
<1>0. p \in CoderRec /\ CoderFields(p) /\ faults \in 0 .. setup.faults /\ setup.faults \in Nat
  BY CoderTaken, SizeFacts DEF Typed
<1>h. thread[t] \in ThreadRec /\ ThreadFields(thread[t])
  BY ThreadTaken
<1>c. thread[t].pc = "code" /\ CallerKept /\ UNCHANGED written
  BY DEF Code, CallerKept
<1>1. CASE /\ outBuf' = [outBuf EXCEPT ![thread[t].buf] =
                [from |-> thread[t].from, to |-> thread[t].to, finished |-> thread[t].finished]]
           /\ thread' = [thread EXCEPT ![t].pc = "publish"] /\ UNCHANGED <<faults, p>>
  <2>1. PICK h : h = [thread[t] EXCEPT !.pc = "publish"]
    OBVIOUS
  <2>2. h \in ThreadRec
    BY <1>h, <2>1 DEF ThreadRec, CoderLabels
  <2>3. /\ h.pc = "publish" /\ h.buf = thread[t].buf /\ h.bi = thread[t].bi /\ h.res = thread[t].res
        /\ StartPart(h) = StartPart(thread[t]) /\ BlockPart(h) = BlockPart(thread[t])
    BY <1>h, <2>1 DEF ThreadRec, StartPart, BlockPart
  <2>4. thread' = [thread EXCEPT ![t] = h]
    BY <1>1, <2>1
  <2>5. Content(thread[t]) \in Piece
    BY <1>h DEF Content, Piece, ThreadFields
  <2>6. outBuf' = [outBuf EXCEPT ![thread[t].buf] = Content(thread[t])]
    BY <1>1 DEF Content
  <2>7. outBuf' \in [Buffers -> Piece]
    BY <2>5, <2>6 DEF Typed
  <2> QED
    BY <1>0, <1>1, <1>c, <2>2, <2>3, <2>4, <2>6, <2>7, ThreadSet
<1>2. CASE /\ Fault /\ p' = [p EXCEPT !.progressRes = Noted("code")] /\ UNCHANGED outBuf
           /\ thread' = [thread EXCEPT ![t] = [@ EXCEPT !.pc = "publish", !.res = "code"]]
  <2>1. PICK h : h = [thread[t] EXCEPT !.pc = "publish", !.res = "code"]
    OBVIOUS
  <2>2. IsThread(h)
    BY <1>h, <2>1 DEF IsThread, ThreadRec
  <2>3. ThreadFields(h)
    BY <1>h, <2>1 DEF ThreadFields, ThreadRec, CoderLabels, Codes
  <2>4. /\ h.pc = "publish" /\ h.buf = thread[t].buf /\ h.bi = thread[t].bi /\ h.res = "code"
        /\ StartPart(h) = StartPart(thread[t]) /\ BlockPart(h) = BlockPart(thread[t])
    BY <1>h, <2>1 DEF ThreadRec, StartPart, BlockPart
  <2>5. thread' = [thread EXCEPT ![t] = h]
    BY <1>2, <2>1
  <2>6. Noted("code") \in Codes /\ Noted("code") # "ok"
    BY NotedFacts DEF Codes
  <2>7. p' \in CoderRec
    BY <1>0, <1>2, <2>6 DEF CoderRec
  <2>8. /\ p'.progressRes = Noted("code") /\ ReadPart(p') = ReadPart(p) /\ SlotPart(p') = SlotPart(p)
        /\ LinePart(p') = LinePart(p) /\ CountPart(p') = CountPart(p) /\ p'.free = p.free /\ p'.writeRes = p.writeRes
    BY <1>0, <1>2 DEF CoderRec, ReadPart, SlotPart, LinePart, CountPart
  <2>9. faults' \in 0 .. setup.faults /\ outBuf' \in [Buffers -> Piece]
    BY <1>0, <1>2 DEF Fault, Typed
  <2> QED
    BY <1>2, <1>c, <2>2, <2>3, <2>4, <2>5, <2>6, <2>7, <2>8, <2>9, ThreadMade, ThreadSet
<1> QED
  BY <1>1, <1>2 DEF Code

\* The block is entered in its slot: the slot is ready, or its thread writes it.
LEMMA PublishStep ==
  ASSUME Typed, NEW t \in CoderThreads, PublishBlock(t)
  PROVE  /\ thread' \in [CoderThreads -> ThreadRec] /\ OthersKept(t) /\ CallerKept
         /\ p' \in CoderRec /\ UNCHANGED <<faults, outBuf, written>>
         /\ thread[t].pc = "publish" /\ thread'[t].bi = thread[t].bi /\ thread'[t].buf = thread[t].buf
         /\ StartPart(thread'[t]) = StartPart(thread[t]) /\ BlockPart(thread'[t]) = BlockPart(thread[t])
         /\ ReadPart(p') = ReadPart(p) /\ SlotPart(p') = SlotPart(p) /\ CountPart(p') = CountPart(p)
         /\ ErrorPart(p') = ErrorPart(p) /\ p'.free = p.free
         /\ p'.blocks[thread[t].bi] = Entered(t)
         /\ \A s \in Slots : s # thread[t].bi => p'.blocks[s] = p.blocks[s] /\ p'.ready[s] = p.ready[s]
         /\ p.writeIndex = thread[t].bi =>
              /\ p'.writeIndex = None /\ p'.ready = p.ready /\ thread'[t].pc = "write"
              /\ thread'[t].res = (IF p.writeRes # "ok" THEN p.writeRes ELSE thread[t].res)
         /\ p.writeIndex # thread[t].bi =>
              /\ p'.writeIndex = p.writeIndex /\ p'.ready[thread[t].bi]
              /\ thread'[t].pc = Leaves(thread[t].finished, thread[t].res) /\ thread'[t].res = thread[t].res
<1> DEFINE mine == p.writeIndex = thread[t].bi
<1>0. p \in CoderRec /\ CoderFields(p)
  BY CoderTaken DEF Typed
<1>h. thread[t] \in ThreadRec /\ ThreadFields(thread[t])
  BY ThreadTaken
<1>1. PICK c : c = IF mine THEN "write" ELSE Leaves(thread[t].finished, thread[t].res)
  OBVIOUS
<1>2. PICK r : r = IF mine /\ p.writeRes # "ok" THEN p.writeRes ELSE thread[t].res
  OBVIOUS
<1>3. c \in CoderLabels /\ r \in Codes
  BY <1>0, <1>1, <1>2, <1>h DEF CoderLabels, CoderFields, ThreadFields, Leaves
<1>4. PICK h : h = [thread[t] EXCEPT !.pc = c, !.res = r]
  OBVIOUS
<1>5. IsThread(h)
  BY <1>h, <1>4 DEF IsThread, ThreadRec
<1>6. ThreadFields(h)
  BY <1>h, <1>3, <1>4 DEF ThreadFields, ThreadRec
<1>7. /\ h.pc = c /\ h.res = r /\ h.bi = thread[t].bi /\ h.buf = thread[t].buf
      /\ StartPart(h) = StartPart(thread[t]) /\ BlockPart(h) = BlockPart(thread[t])
  BY <1>h, <1>4 DEF ThreadRec, StartPart, BlockPart
<1>8. thread' = [thread EXCEPT ![t] = h]
  <2>1. thread' = [thread EXCEPT ![t] =
          [thread[t] EXCEPT !.pc = IF mine THEN "write" ELSE Leaves(thread[t].finished, thread[t].res),
                            !.res = IF mine /\ p.writeRes # "ok" THEN p.writeRes ELSE thread[t].res]]
    BY DEF PublishBlock
  <2> QED
    BY <1>1, <1>2, <1>4, <2>1
<1>13. /\ thread' \in [CoderThreads -> ThreadRec] /\ thread'[t] = h /\ OthersKept(t) /\ CallerKept
       /\ UNCHANGED <<faults, outBuf, written>> /\ thread[t].pc = "publish"
  <2>1. h \in ThreadRec
    BY <1>5, <1>6, ThreadMade
  <2>2. CallerKept /\ UNCHANGED <<faults, outBuf, written>> /\ thread[t].pc = "publish"
    BY DEF PublishBlock, CallerKept
  <2> QED
    BY <1>8, <2>1, <2>2, ThreadSet
<1>9. Entered(t) \in BlockRec
  BY <1>h DEF Entered, BlockRec, ThreadFields
<1>10. thread[t].bi \in Slots
  BY <1>h DEF ThreadFields
<1>11. CASE mine
  <2>1. p' = [p EXCEPT !.blocks[thread[t].bi] = Entered(t), !.writeIndex = None]
    BY <1>11 DEF PublishBlock
  <2>2. PICK B : B = [p.blocks EXCEPT ![thread[t].bi] = Entered(t)]
    OBVIOUS
  <2>3. B \in [Slots -> BlockRec]
    BY <1>0, <1>9, <2>2 DEF CoderFields
  <2>4. p' = [p EXCEPT !.blocks = B, !.writeIndex = None]
    BY <2>1, <2>2
  <2>5. IsCoder(p')
    BY <1>0, <2>4 DEF IsCoder, CoderRec
  <2>6. CoderFields(p')
    BY <1>0, <2>3, <2>4 DEF CoderFields, CoderRec
  <2>7. /\ p'.blocks = B /\ p'.writeIndex = None /\ p'.ready = p.ready /\ p'.free = p.free
        /\ ReadPart(p') = ReadPart(p) /\ SlotPart(p') = SlotPart(p) /\ CountPart(p') = CountPart(p)
        /\ ErrorPart(p') = ErrorPart(p)
    BY <1>0, <2>4 DEF CoderRec, ReadPart, SlotPart, CountPart, ErrorPart
  <2>8. B[thread[t].bi] = Entered(t) /\ \A s \in Slots : s # thread[t].bi => B[s] = p.blocks[s]
    BY <1>0, <1>10, <2>2 DEF CoderFields
  <2> QED
    BY <1>11, <1>1, <1>2, <1>7, <1>13, <2>5, <2>6, <2>7, <2>8, CoderMade
<1>12. CASE ~mine
  <2>1. p' = [p EXCEPT !.blocks[thread[t].bi] = Entered(t), !.ready[thread[t].bi] = TRUE]
    BY <1>12 DEF PublishBlock
  <2>2. PICK B, R : B = [p.blocks EXCEPT ![thread[t].bi] = Entered(t)] /\ R = [p.ready EXCEPT ![thread[t].bi] = TRUE]
    OBVIOUS
  <2>3. B \in [Slots -> BlockRec] /\ R \in [Slots -> BOOLEAN]
    BY <1>0, <1>9, <2>2 DEF CoderFields
  <2>4. p' = [p EXCEPT !.blocks = B, !.ready = R]
    BY <2>1, <2>2
  <2>5. IsCoder(p')
    BY <1>0, <2>4 DEF IsCoder, CoderRec
  <2>6. CoderFields(p')
    BY <1>0, <2>3, <2>4 DEF CoderFields, CoderRec
  <2>7. /\ p'.blocks = B /\ p'.writeIndex = p.writeIndex /\ p'.ready = R /\ p'.free = p.free
        /\ ReadPart(p') = ReadPart(p) /\ SlotPart(p') = SlotPart(p) /\ CountPart(p') = CountPart(p)
        /\ ErrorPart(p') = ErrorPart(p)
    BY <1>0, <2>4 DEF CoderRec, ReadPart, SlotPart, CountPart, ErrorPart
  <2>8. /\ B[thread[t].bi] = Entered(t) /\ R[thread[t].bi]
        /\ \A s \in Slots : s # thread[t].bi => B[s] = p.blocks[s] /\ R[s] = p.ready[s]
    BY <1>0, <1>10, <2>2 DEF CoderFields
  <2> QED
    BY <1>12, <1>1, <1>2, <1>7, <1>13, <2>5, <2>6, <2>7, <2>8, CoderMade
<1> QED
  BY <1>11, <1>12

\* A block that is due is written, or the callback fails.
LEMMA WriteStep ==
  ASSUME Typed, NEW t \in CoderThreads, Write(t)
  PROVE  /\ thread' \in [CoderThreads -> ThreadRec] /\ OthersKept(t) /\ CallerKept /\ UNCHANGED outBuf
         /\ p' \in CoderRec /\ faults' \in 0 .. setup.faults /\ written' \in Seq(Piece)
         /\ thread[t].pc = "write" /\ thread'[t].pc = "advance"
         /\ thread'[t].bi = thread[t].bi /\ thread'[t].buf = thread[t].buf
         /\ StartPart(thread'[t]) = StartPart(thread[t]) /\ BlockPart(thread'[t]) = BlockPart(thread[t])
         /\ ReadPart(p') = ReadPart(p) /\ SlotPart(p') = SlotPart(p) /\ LinePart(p') = LinePart(p)
         /\ CountPart(p') = CountPart(p) /\ p'.free = p.free
         /\ \/ /\ p' = p /\ thread'[t].res = thread[t].res /\ thread[t].res = "ok" /\ thread[t].buf # None
               /\ outBuf[thread[t].buf] \in Piece /\ written' = Append(written, outBuf[thread[t].buf])
            \/ /\ p'.progressRes # "ok" /\ thread'[t].res # "ok" /\ written' = written
            \/ /\ p' = p /\ thread'[t].res = thread[t].res /\ written' = written
               /\ thread[t].res # "ok" \/ thread[t].buf = None
<1> DEFINE due == thread[t].res = "ok" /\ thread[t].buf # None
<1>0. p \in CoderRec /\ CoderFields(p) /\ faults \in 0 .. setup.faults /\ setup.faults \in Nat
  BY CoderTaken, SizeFacts DEF Typed
<1>h. thread[t] \in ThreadRec /\ ThreadFields(thread[t])
  BY ThreadTaken
<1>c. thread[t].pc = "write" /\ CallerKept /\ UNCHANGED outBuf
  BY DEF Write, CallerKept
<1>d. \/ /\ due /\ written' = Append(written, outBuf[thread[t].buf])
         /\ thread' = [thread EXCEPT ![t].pc = "advance"] /\ UNCHANGED <<faults, p>>
      \/ /\ due /\ Fault /\ p' = [p EXCEPT !.writeRes = "write", !.progressRes = Noted("write")]
         /\ thread' = [thread EXCEPT ![t] = [@ EXCEPT !.pc = "advance", !.res = "write"]] /\ UNCHANGED written
      \/ ~due /\ thread' = [thread EXCEPT ![t].pc = "advance"] /\ UNCHANGED <<faults, p, written>>
  BY Zenon DEF Write
<1>a. PICK h : h = [thread[t] EXCEPT !.pc = "advance"]
  OBVIOUS
<1>b. h \in ThreadRec
  BY <1>h, <1>a DEF ThreadRec, CoderLabels
<1>e. /\ h.pc = "advance" /\ h.buf = thread[t].buf /\ h.bi = thread[t].bi /\ h.res = thread[t].res
      /\ StartPart(h) = StartPart(thread[t]) /\ BlockPart(h) = BlockPart(thread[t])
  BY <1>h, <1>a DEF ThreadRec, StartPart, BlockPart
<1>1. CASE /\ due /\ written' = Append(written, outBuf[thread[t].buf])
           /\ thread' = [thread EXCEPT ![t].pc = "advance"] /\ UNCHANGED <<faults, p>>
  <2>1. outBuf[thread[t].buf] \in Piece
    BY <1>1, <1>h DEF ThreadFields, Typed
  <2>2. written' \in Seq(Piece)
    BY <1>1, <2>1 DEF Typed
  <2>3. thread' = [thread EXCEPT ![t] = h]
    BY <1>1, <1>a
  <2> QED
    BY <1>0, <1>1, <1>b, <1>c, <1>e, <2>1, <2>2, <2>3, ThreadSet
<1>2. CASE /\ due /\ Fault /\ p' = [p EXCEPT !.writeRes = "write", !.progressRes = Noted("write")]
           /\ thread' = [thread EXCEPT ![t] = [@ EXCEPT !.pc = "advance", !.res = "write"]] /\ UNCHANGED written
  <2>1. PICK g : g = [thread[t] EXCEPT !.pc = "advance", !.res = "write"]
    OBVIOUS
  <2>2. IsThread(g)
    BY <1>h, <2>1 DEF IsThread, ThreadRec
  <2>3. ThreadFields(g)
    BY <1>h, <2>1 DEF ThreadFields, ThreadRec, CoderLabels, Codes
  <2>4. /\ g.pc = "advance" /\ g.buf = thread[t].buf /\ g.bi = thread[t].bi /\ g.res = "write"
        /\ StartPart(g) = StartPart(thread[t]) /\ BlockPart(g) = BlockPart(thread[t])
    BY <1>h, <2>1 DEF ThreadRec, StartPart, BlockPart
  <2>5. thread' = [thread EXCEPT ![t] = g]
    BY <1>2, <2>1
  <2>6. Noted("write") \in Codes /\ Noted("write") # "ok" /\ "write" \in Codes
    BY NotedFacts DEF Codes
  <2>7. IsCoder(p')
    BY <1>0, <1>2 DEF IsCoder, CoderRec
  <2>8. CoderFields(p')
    BY <1>0, <1>2, <2>6 DEF CoderFields, CoderRec
  <2>9. /\ p'.progressRes = Noted("write") /\ ReadPart(p') = ReadPart(p) /\ SlotPart(p') = SlotPart(p)
        /\ LinePart(p') = LinePart(p) /\ CountPart(p') = CountPart(p) /\ p'.free = p.free
    BY <1>0, <1>2 DEF CoderRec, ReadPart, SlotPart, LinePart, CountPart
  <2>10. faults' \in 0 .. setup.faults /\ written' \in Seq(Piece)
    BY <1>0, <1>2 DEF Fault, Typed
  <2> QED
    BY <1>2, <1>c, <2>2, <2>3, <2>4, <2>5, <2>6, <2>7, <2>8, <2>9, <2>10, ThreadMade, CoderMade, ThreadSet
<1>3. CASE ~due /\ thread' = [thread EXCEPT ![t].pc = "advance"] /\ UNCHANGED <<faults, p, written>>
  <2>1. thread' = [thread EXCEPT ![t] = h]
    BY <1>3, <1>a
  <2>2. written' \in Seq(Piece)
    BY <1>3 DEF Typed
  <2> QED
    BY <1>0, <1>3, <1>b, <1>c, <1>e, <2>1, <2>2, ThreadSet
<1> QED
  BY <1>d, <1>1, <1>2, <1>3

\* The writer gives its buffer back and goes to the next slot.
LEMMA AdvanceStep ==
  ASSUME Typed, NEW t \in CoderThreads, Advance(t)
  PROVE  /\ thread' \in [CoderThreads -> ThreadRec] /\ OthersKept(t) /\ CallerKept
         /\ p' \in CoderRec /\ UNCHANGED <<faults, outBuf, written>>
         /\ thread[t].pc = "advance" /\ thread'[t].pc = "release" /\ thread'[t].bi = After(thread[t].bi)
         /\ thread'[t].buf = thread[t].buf /\ thread'[t].res = thread[t].res
         /\ thread'[t].ready = p.ready[After(thread[t].bi)]
         /\ StartPart(thread'[t]) = StartPart(thread[t]) /\ BlockPart(thread'[t]) = BlockPart(thread[t])
         /\ ReadPart(p') = ReadPart(p) /\ SlotPart(p') = SlotPart(p) /\ CountPart(p') = CountPart(p)
         /\ ErrorPart(p') = ErrorPart(p) /\ p'.blocks = p.blocks
         /\ p'.free = (IF thread[t].buf = None THEN p.free ELSE <<thread[t].buf>> \o p.free)
         /\ \A s \in Slots : s # After(thread[t].bi) => p'.ready[s] = p.ready[s]
         /\ ~p'.ready[After(thread[t].bi)]
         /\ p'.writeIndex = (IF p.ready[After(thread[t].bi)] THEN p.writeIndex ELSE After(thread[t].bi))
<1>0. p \in CoderRec /\ CoderFields(p)
  BY CoderTaken DEF Typed
<1>h. thread[t] \in ThreadRec /\ ThreadFields(thread[t])
  BY ThreadTaken
<1>1. PICK wi : wi = (thread[t].bi + 1) % NumBlocksMax
  OBVIOUS
<1>2. wi = After(thread[t].bi) /\ wi \in Slots
  BY <1>1, <1>h, AfterFacts DEF ThreadFields, Typed
<1>3. PICK kept : kept = IF thread[t].buf = None THEN p.free ELSE <<thread[t].buf>> \o p.free
  OBVIOUS
<1>4. kept \in Seq(Buffers)
  BY <1>0, <1>3, <1>h DEF CoderFields, ThreadFields
<1>5. PICK h : h = [thread[t] EXCEPT !.pc = "release", !.bi = wi, !.ready = p.ready[wi]]
  OBVIOUS
<1>6. p.ready[wi] \in BOOLEAN
  BY <1>0, <1>2 DEF CoderFields
<1>7. IsThread(h)
  BY <1>h, <1>5 DEF IsThread, ThreadRec
<1>8. /\ h.pc = "release" /\ h.bi = wi /\ h.buf = thread[t].buf /\ h.res = thread[t].res /\ h.ready = p.ready[wi]
      /\ StartPart(h) = StartPart(thread[t]) /\ BlockPart(h) = BlockPart(thread[t])
  BY <1>h, <1>5 DEF ThreadRec, StartPart, BlockPart
<1>9. ThreadFields(h)
  BY <1>h, <1>2, <1>6, <1>8 DEF ThreadFields, CoderLabels, StartPart, BlockPart
<1>10. thread' = [thread EXCEPT ![t] = h]
  BY <1>1, <1>5 DEF Advance
<1>11. p' = IF p.ready[wi] THEN [p EXCEPT !.free = kept, !.ready[wi] = FALSE]
            ELSE [p EXCEPT !.free = kept, !.writeIndex = wi]
  BY <1>1, <1>3 DEF Advance
<1>12. thread[t].pc = "advance" /\ CallerKept /\ UNCHANGED <<faults, outBuf, written>>
  BY DEF Advance, CallerKept
<1>13. CASE p.ready[wi]
  <2>1. PICK R : R = [p.ready EXCEPT ![wi] = FALSE]
    OBVIOUS
  <2>2. R \in [Slots -> BOOLEAN] /\ ~R[wi] /\ \A s \in Slots : s # wi => R[s] = p.ready[s]
    BY <1>0, <1>2, <2>1 DEF CoderFields
  <2>3. p' = [p EXCEPT !.free = kept, !.ready = R]
    BY <1>11, <1>13, <2>1
  <2>4. IsCoder(p')
    BY <1>0, <2>3 DEF IsCoder, CoderRec
  <2>5. CoderFields(p')
    BY <1>0, <1>4, <2>2, <2>3 DEF CoderFields, CoderRec
  <2>6. /\ p'.free = kept /\ p'.ready = R /\ p'.writeIndex = p.writeIndex /\ p'.blocks = p.blocks
        /\ ReadPart(p') = ReadPart(p) /\ SlotPart(p') = SlotPart(p) /\ CountPart(p') = CountPart(p)
        /\ ErrorPart(p') = ErrorPart(p)
    BY <1>0, <2>3 DEF CoderRec, ReadPart, SlotPart, CountPart, ErrorPart
  <2> QED
    BY <1>2, <1>3, <1>7, <1>8, <1>9, <1>10, <1>12, <1>13, <2>2, <2>4, <2>5, <2>6, ThreadMade, CoderMade, ThreadSet
<1>14. CASE ~p.ready[wi]
  <2>3. p' = [p EXCEPT !.free = kept, !.writeIndex = wi]
    BY <1>11, <1>14
  <2>4. IsCoder(p')
    BY <1>0, <2>3 DEF IsCoder, CoderRec
  <2>5. CoderFields(p')
    BY <1>0, <1>2, <1>4, <2>3 DEF CoderFields, CoderRec
  <2>6. /\ p'.free = kept /\ p'.ready = p.ready /\ p'.writeIndex = wi /\ p'.blocks = p.blocks
        /\ ReadPart(p') = ReadPart(p) /\ SlotPart(p') = SlotPart(p) /\ CountPart(p') = CountPart(p)
        /\ ErrorPart(p') = ErrorPart(p)
    BY <1>0, <2>3 DEF CoderRec, ReadPart, SlotPart, CountPart, ErrorPart
  <2> QED
    BY <1>2, <1>3, <1>7, <1>8, <1>9, <1>10, <1>12, <1>14, <2>4, <2>5, <2>6, ThreadMade, CoderMade, ThreadSet
<1> QED
  BY <1>13, <1>14

\* The semaphore is released; the writer goes on with the block it took over.
LEMMA ReleaseStep ==
  ASSUME Typed, NEW t \in CoderThreads, ReleaseSlot(t)
  PROVE  /\ thread' \in [CoderThreads -> ThreadRec] /\ OthersKept(t) /\ CallerKept
         /\ p' \in CoderRec /\ UNCHANGED <<faults, outBuf, written>>
         /\ thread[t].pc = "release" /\ thread'[t].bi = thread[t].bi
         /\ StartPart(thread'[t]) = StartPart(thread[t])
         /\ p'.sem = p.sem + 1 /\ p'.blockIndex = p.blockIndex /\ p'.free = p.free
         /\ ReadPart(p') = ReadPart(p) /\ LinePart(p') = LinePart(p)
         /\ CountPart(p') = CountPart(p) /\ ErrorPart(p') = ErrorPart(p)
         /\ thread[t].ready =>
              /\ thread'[t].pc = "write" /\ thread'[t].buf = p.blocks[thread[t].bi].buf
              /\ thread'[t].finished = p.blocks[thread[t].bi].finished
              /\ thread'[t].res = (IF thread[t].res = "ok" THEN p.blocks[thread[t].bi].res ELSE thread[t].res)
         /\ ~thread[t].ready =>
              /\ thread'[t].pc = Leaves(thread[t].finished, thread[t].res)
              /\ thread'[t].buf = thread[t].buf /\ thread'[t].res = thread[t].res
<1>0. p \in CoderRec /\ CoderFields(p)
  BY CoderTaken DEF Typed
<1>h. thread[t] \in ThreadRec /\ ThreadFields(thread[t])
  BY ThreadTaken
<1>1. PICK b : b = p.blocks[thread[t].bi]
  OBVIOUS
<1>2. b \in BlockRec
  BY <1>0, <1>1, <1>h DEF CoderFields, ThreadFields
<1>3. PICK r : r = IF thread[t].res = "ok" THEN b.res ELSE thread[t].res
  OBVIOUS
<1>4. b.buf \in Buffers \cup {None} /\ b.finished \in BOOLEAN /\ r \in Codes
  BY <1>2, <1>3, <1>h DEF BlockRec, ThreadFields
<1>5. p' = [p EXCEPT !.sem = @ + 1] /\ thread[t].pc = "release" /\ CallerKept /\ UNCHANGED <<faults, outBuf, written>>
  BY DEF ReleaseSlot, CallerKept
<1>6. p' \in CoderRec
  <2>1. PICK n \in Nat : n = p.sem + 1
    BY <1>0 DEF CoderRec
  <2>2. p' = [p EXCEPT !.sem = n]
    BY <1>5, <2>1
  <2> QED
    BY <1>0, <2>2 DEF CoderRec
<1>7. /\ p'.sem = p.sem + 1 /\ p'.blockIndex = p.blockIndex /\ p'.free = p.free
      /\ ReadPart(p') = ReadPart(p) /\ LinePart(p') = LinePart(p)
      /\ CountPart(p') = CountPart(p) /\ ErrorPart(p') = ErrorPart(p)
  BY <1>0, <1>5 DEF CoderRec, ReadPart, LinePart, CountPart, ErrorPart
<1>8. CASE thread[t].ready
  <2>1. PICK h : h = [thread[t] EXCEPT !.pc = "write", !.buf = b.buf, !.finished = b.finished, !.res = r]
    OBVIOUS
  <2>2. IsThread(h)
    BY <1>h, <2>1 DEF IsThread, ThreadRec
  <2>3. ThreadFields(h)
    BY <1>h, <1>4, <2>1 DEF ThreadFields, ThreadRec, CoderLabels
  <2>4. /\ h.pc = "write" /\ h.buf = b.buf /\ h.finished = b.finished /\ h.res = r /\ h.bi = thread[t].bi
        /\ StartPart(h) = StartPart(thread[t])
    BY <1>h, <2>1 DEF ThreadRec, StartPart
  <2>5. thread' = [thread EXCEPT ![t] = h]
    BY <1>1, <1>3, <1>8, <2>1 DEF ReleaseSlot, GoesOn
  <2> QED
    BY <1>1, <1>3, <1>5, <1>6, <1>7, <1>8, <2>2, <2>3, <2>4, <2>5, ThreadMade, ThreadSet
<1>9. CASE ~thread[t].ready
  <2>1. PICK h : h = [thread[t] EXCEPT !.pc = Leaves(thread[t].finished, thread[t].res)]
    OBVIOUS
  <2>2. h \in ThreadRec
    BY <1>h, <2>1 DEF ThreadRec, CoderLabels, Leaves
  <2>3. /\ h.pc = Leaves(thread[t].finished, thread[t].res) /\ h.bi = thread[t].bi
        /\ h.buf = thread[t].buf /\ h.res = thread[t].res /\ StartPart(h) = StartPart(thread[t])
    BY <1>h, <2>1 DEF ThreadRec, StartPart
  <2>4. thread' = [thread EXCEPT ![t] = h]
    BY <1>9, <2>1 DEF ReleaseSlot, GoesOn
  <2> QED
    BY <1>5, <1>6, <1>7, <1>9, <2>2, <2>3, <2>4, ThreadSet
<1> QED
  BY <1>8, <1>9

\* The thread counts itself, and forgets its block.
LEMMA CountStep ==
  ASSUME Typed, NEW t \in CoderThreads, Count(t)
  PROVE  /\ thread' \in [CoderThreads -> ThreadRec] /\ OthersKept(t) /\ CallerKept
         /\ p' \in CoderRec /\ UNCHANGED <<faults, outBuf, written>>
         /\ thread[t].pc = "tail" /\ thread'[t].pc = "compare" /\ thread'[t].count = p.finished + 1
         /\ thread'[t].start = thread[t].start /\ thread'[t].stop = thread[t].stop /\ thread'[t].buf = None
         /\ p'.finished = p.finished + 1 /\ p'.started = p.started /\ p'.finishedEvent = p.finishedEvent
         /\ ReadPart(p') = ReadPart(p) /\ SlotPart(p') = SlotPart(p) /\ LinePart(p') = LinePart(p)
         /\ ErrorPart(p') = ErrorPart(p) /\ p'.free = p.free
<1>0. p \in CoderRec /\ CoderFields(p)
  BY CoderTaken DEF Typed
<1>h. thread[t] \in ThreadRec /\ ThreadFields(thread[t])
  BY ThreadTaken
<1>1. PICK h : h = [Absent EXCEPT !.pc = "compare", !.count = p.finished + 1,
                                  !.start = thread[t].start, !.stop = thread[t].stop]
  OBVIOUS
<1>2. Absent \in ThreadRec /\ ThreadFields(Absent) /\ Absent.buf = None
  BY AbsentTyped DEF Typed, ThreadRec, ThreadFields, Absent
<1>3. IsThread(h)
  BY <1>1, <1>2 DEF IsThread, ThreadRec
<1>4. /\ h.pc = "compare" /\ h.count = p.finished + 1 /\ h.start = thread[t].start /\ h.stop = thread[t].stop
      /\ h.bi = Absent.bi /\ h.buf = Absent.buf /\ h.from = Absent.from /\ h.to = Absent.to
      /\ h.finished = Absent.finished /\ h.res = Absent.res /\ h.ready = Absent.ready
  BY <1>1, <1>2 DEF ThreadRec
<1>5. ThreadFields(h)
  BY <1>0, <1>h, <1>2, <1>4 DEF ThreadFields, CoderFields, CoderLabels
<1>6. thread' = [thread EXCEPT ![t] = h]
  BY <1>1 DEF Count
<1>7. p' = [p EXCEPT !.finished = p.finished + 1] /\ p.finished + 1 \in Nat
  BY <1>0 DEF Count, CoderFields
<1>8. p' \in CoderRec
  BY <1>0, <1>7 DEF CoderRec
<1>9. /\ p'.finished = p.finished + 1 /\ p'.started = p.started /\ p'.finishedEvent = p.finishedEvent
      /\ ReadPart(p') = ReadPart(p) /\ SlotPart(p') = SlotPart(p) /\ LinePart(p') = LinePart(p)
      /\ ErrorPart(p') = ErrorPart(p) /\ p'.free = p.free
  BY <1>0, <1>7 DEF CoderRec, ReadPart, SlotPart, LinePart, ErrorPart
<1> QED
  BY <1>2, <1>3, <1>4, <1>5, <1>6, <1>8, <1>9, ThreadMade, ThreadSet DEF Count, CallerKept

\* What Compare changes.
LEMMA CompareStep ==
  ASSUME Typed, NEW t \in CoderThreads, Compare(t)
  PROVE  /\ thread' \in [CoderThreads -> ThreadRec] /\ OthersKept(t) /\ CallerKept
         /\ p' \in CoderRec /\ UNCHANGED <<faults, outBuf, written>>
         /\ thread[t].pc = "compare" /\ thread'[t].pc = "start"
         /\ thread'[t].start = thread[t].start /\ thread'[t].stop = thread[t].stop /\ thread'[t].buf = thread[t].buf
         /\ p'.finished = p.finished /\ p'.started = p.started
         /\ p'.finishedEvent = (p.finishedEvent \/ thread[t].count = p.started)
         /\ ReadPart(p') = ReadPart(p) /\ SlotPart(p') = SlotPart(p) /\ LinePart(p') = LinePart(p)
         /\ ErrorPart(p') = ErrorPart(p) /\ p'.free = p.free
<1>0. p \in CoderRec /\ CoderFields(p)
  BY CoderTaken DEF Typed
<1>h. thread[t] \in ThreadRec /\ ThreadFields(thread[t])
  BY ThreadTaken
<1>1. PICK h : h = [thread[t] EXCEPT !.pc = "start", !.count = 0]
  OBVIOUS
<1>2. IsThread(h)
  BY <1>h, <1>1 DEF IsThread, ThreadRec
<1>3. ThreadFields(h)
  BY <1>h, <1>1 DEF ThreadFields, ThreadRec, CoderLabels
<1>4. h.pc = "start" /\ h.start = thread[t].start /\ h.stop = thread[t].stop /\ h.buf = thread[t].buf
  BY <1>h, <1>1 DEF ThreadRec
<1>5. thread' = [thread EXCEPT ![t] = h]
  BY <1>1 DEF Compare
<1>6. PICK e : e = (p.finishedEvent \/ thread[t].count = p.started)
  OBVIOUS
<1>7. e \in BOOLEAN
  BY <1>6
<1>8. p' = [p EXCEPT !.finishedEvent = e]
  BY <1>6 DEF Compare
<1>9. p' \in CoderRec
  BY <1>0, <1>7, <1>8 DEF CoderRec
<1>10. /\ p'.finished = p.finished /\ p'.started = p.started /\ p'.finishedEvent = e
      /\ ReadPart(p') = ReadPart(p) /\ SlotPart(p') = SlotPart(p) /\ LinePart(p') = LinePart(p)
      /\ ErrorPart(p') = ErrorPart(p) /\ p'.free = p.free
  BY <1>0, <1>8 DEF CoderRec, ReadPart, SlotPart, LinePart, ErrorPart
<1> QED
  BY <1>2, <1>3, <1>4, <1>5, <1>6, <1>9, <1>10, ThreadMade, ThreadSet DEF Compare, CallerKept

\* Every step keeps the types.
LEMMA TypedStep ==
  ASSUME Typed, CallInv, ReaderInv, BufferInv, [CoderNext]_coderVars
  PROVE  Typed'
<1>0. setup' = setup
  BY SetupKept
<1>1. ASSUME NEW t \in CoderThreads, ThreadStep(t)
      PROVE  Typed'
  <2>1. p.free # <<>> /\ p.processed <= setup.size
    BY DEF BufferInv, ReaderInv
  <2>2. setup.faults' = setup.faults /\ CallerKept
    BY <1>0, <1>1 DEF ThreadStep, CallerKept, Wake, Turn, Read, TakeSlot, Buffer, Code, PublishBlock, Write,
       Advance, ReleaseSlot, Count, Compare
  <2>3. SUFFICES /\ faults' \in 0 .. setup.faults /\ p' \in CoderRec /\ thread' \in [CoderThreads -> ThreadRec]
                 /\ outBuf' \in [Buffers -> Piece] /\ written' \in Seq(Piece)
    BY <1>0, <2>2, SizesKept DEF Typed, CallerKept
  <2>4. CASE TakeSlot(t)
    <3>1. t < p.started
      <4>1. thread[t].pc = "slot" /\ main.pc = "wait"
        BY <2>4 DEF TakeSlot, ReaderInv, Reads
      <4>2. p.started \in Nat /\ t \in Int
        BY CoderTaken DEF CoderFields, CoderThreads
      <4> QED
        BY <4>1, <4>2 DEF CallInv, InCall
    <3> QED
      BY <2>4, <3>1, TakeSlotStep DEF Typed, SlotTaken
  <2>5. CASE Wake(t) \/ Turn(t) \/ Read(t) \/ Buffer(t)
    BY <2>1, <2>5, WakeStep, TurnStep, ReadStep, BufferStep DEF Typed
  <2>6. CASE Code(t) \/ PublishBlock(t) \/ Write(t) \/ Advance(t)
    BY <2>6, CodeStep, PublishStep, WriteStep, AdvanceStep DEF Typed
  <2>7. CASE ReleaseSlot(t) \/ Count(t) \/ Compare(t)
    BY <2>7, ReleaseStep, CountStep, CompareStep DEF Typed
  <2> QED
    BY <1>1, <2>4, <2>5, <2>6, <2>7 DEF ThreadStep
<1>2. CASE UNCHANGED coderVars
  BY <1>2, SizesKept DEF coderVars, Typed
<1>3. CASE CodeBegin \/ Destruct \/ MainStep
  BY <1>3, CallerTypes DEF MainStep
<1> QED
  BY <1>1, <1>2, <1>3 DEF CoderNext, CoderStep, Gone
-----------------------------------------------------------------------------
(* The calls                                                               *)

\* What a thread does between its turn and the end of its work.
Working == {"turn", "read", "slot", "buffer", "code", "publish", "write", "advance", "release"}

\* The numbers below n are n numbers.
LEMMA BelowFacts ==
  ASSUME NEW n \in Nat
  PROVE  IsFiniteSet(0 .. n - 1) /\ Cardinality(0 .. n - 1) = n
<1>1. 0 \in Int /\ n - 1 \in Int
  OBVIOUS
<1>2. Cardinality(0 .. n - 1) = IF 0 > n - 1 THEN 0 ELSE n - 1 - 0 + 1
  BY <1>1, FS_Interval
<1> QED
  BY <1>1, <1>2, FS_Interval

\* The threads that have counted themselves are among those that were started.
LEMMA OverFacts ==
  ASSUME Typed, CallInv
  PROVE  /\ p.started \in Nat \ {0} /\ p.finished \in Nat /\ NumThreads \in Nat \ {0}
         /\ Threads_Over \subseteq 0 .. p.started - 1
         /\ IsFiniteSet(Threads_Over) /\ Cardinality(Threads_Over) <= p.started
         /\ InCall /\ p.finished = p.started => \A t \in CoderThreads : t < p.started => Over(t)
<1>1. p.started \in Nat \ {0} /\ p.finished \in Nat /\ NumThreads \in Nat \ {0} /\ p.started <= NumThreads
  BY CoderTaken, SizeFacts DEF CallInv, CoderFields, Typed
<1>2. Threads_Over \subseteq 0 .. p.started - 1
  BY <1>1 DEF Threads_Over, CoderThreads
<1>3. IsFiniteSet(0 .. p.started - 1) /\ Cardinality(0 .. p.started - 1) = p.started
  BY <1>1, BelowFacts
<1>4. IsFiniteSet(Threads_Over) /\ Cardinality(Threads_Over) <= p.started
  BY <1>2, <1>3, FS_Subset
<1>5. ASSUME InCall, p.finished = p.started, NEW t \in CoderThreads, t < p.started
      PROVE  Over(t)
  <2>1. Cardinality(Threads_Over) = p.started
    BY <1>5 DEF CallInv
  <2>2. Threads_Over = 0 .. p.started - 1
    BY <1>2, <1>3, <2>1, FS_Subset
  <2>3. t \in 0 .. p.started - 1
    BY <1>1, <1>5 DEF CoderThreads
  <2> QED
    BY <2>2, <2>3 DEF Threads_Over
<1> QED
  BY <1>1, <1>2, <1>4, <1>5

\* A thread at work was started in this call, which has not ended.
LEMMA WorkFacts ==
  ASSUME Typed, QuietInv, CallInv, NEW t \in CoderThreads, thread[t].pc \in Working \cup {"tail"}
  PROVE  /\ InCall /\ t < p.started /\ ~thread[t].start /\ ~thread[t].stop /\ main.calls # 0
         /\ thread[t].pc # "turn" => main.pc = "wait"
         /\ ~p.finishedEvent /\ ~Over(t)
<1>1. InCall /\ ~Over(t)
  BY DEF QuietInv, Working, Over
<1>2. p.started \in Nat /\ t \in Int
  BY OverFacts DEF CoderThreads
<1>3. t < p.started /\ ~thread[t].stop /\ ~thread[t].start
  BY <1>1, <1>2 DEF CallInv, Working
<1>4. main.calls # 0
  BY DEF QuietInv, Working
<1>5. thread[t].pc # "turn" => main.pc = "wait"
  BY <1>1 DEF CallInv, InCall, Working
<1>6. ~p.finishedEvent
  BY <1>1, <1>3, OverFacts DEF CallInv
<1> QED
  BY <1>1, <1>3, <1>4, <1>5, <1>6

\* A step of the work, that starts and counts no thread.
LEMMA WorkKeeps ==
  ASSUME Typed, QuietInv, CallInv, NEW t \in CoderThreads, OthersKept(t), CallerKept,
         CountPart(p') = CountPart(p), StartPart(thread'[t]) = StartPart(thread[t]),
         thread[t].pc \in Working, thread'[t].pc \in Working \cup {"tail"}, main.pc # "open"
  PROVE  QuietInv' /\ CallInv'
<1>1. CoderThreads' = CoderThreads /\ NumThreads' = NumThreads
  BY SizesKept DEF CallerKept
<1>2. /\ InCall /\ t < p.started /\ ~thread[t].start /\ ~thread[t].stop /\ main.calls # 0
      /\ main.pc = "wait" /\ ~Over(t)
  BY WorkFacts DEF InCall
<1>3. InCall' = InCall /\ main'.pc = "wait" /\ main'.calls # 0
  BY <1>2 DEF InCall, CallerKept
<1>4. /\ p'.started = p.started /\ p'.finished = p.finished /\ p'.finishedEvent = p.finishedEvent
      /\ ~thread'[t].start /\ ~thread'[t].stop /\ thread'[t].pc # "compare" /\ thread'[t].pc # "absent"
      /\ thread'[t].pc # "start"
  BY <1>2 DEF CountPart, StartPart, Working
<1>5. \A u \in CoderThreads : Over(u)' <=> Over(u)
  BY <1>2, <1>4 DEF Over, OthersKept
<1>6. Threads_Over' = Threads_Over
  BY <1>1, <1>4, <1>5 DEF Threads_Over
<1>7. QuietInv'
  BY <1>2, <1>3 DEF QuietInv, InCall
<1>8. \A u \in CoderThreads :
            /\ ~thread'[u].stop /\ (thread'[u].start => thread'[u].pc = "start" /\ u < p.started)
            /\ u < p.started => thread'[u].pc # "absent"
            /\ u >= p.started => thread'[u].pc \in {"absent", "start"}
            /\ thread'[u].pc = "compare" => thread'[u].count <= p.finished
  <2> TAKE u \in CoderThreads
  <2>1. CASE u # t
    BY <1>2, <2>1 DEF OthersKept, CallInv
  <2>2. CASE u = t
    <3>1. p.started \in Nat /\ t \in Int
      BY OverFacts DEF CoderThreads
    <3> QED
      BY <1>2, <1>4, <2>2, <3>1
  <2> QED
    BY <2>1, <2>2
<1> QED
  BY <1>1, <1>2, <1>3, <1>4, <1>6, <1>7, <1>8 DEF CallInv

\* A call begins, opens the reading and ends; threads are told to stop.
LEMMA CallerKeepsCalls ==
  ASSUME Typed, QuietInv, CallInv,
         (Rested /\ CodeBegin) \/ CodeOpen \/ CodeEnd \/ Destruct \/ Freed \/ (\E t \in CoderThreads : StopThread(t))
  PROVE  QuietInv' /\ CallInv'
<1>0. setup' = setup
  BY DEF CodeBegin, CodeOpen, CodeEnd, Destruct, Freed, StopThread
<1>s. CoderThreads' = CoderThreads /\ NumThreads' = NumThreads
  BY <1>0, SizesKept
<1>n. NumThreads \in Nat \ {0} /\ 0 \in CoderThreads /\ \A t \in CoderThreads : t \in Nat
  BY SizeFacts DEF Typed, CoderThreads
<1>f. Fresh.started = 1 /\ Fresh.finished = 0 /\ ~Fresh.readEvent /\ ~Fresh.finishedEvent
  BY DEF Fresh
<1>1. CASE Rested /\ CodeBegin
  <2>1. /\ ~InCall /\ main.pc = "idle"
        /\ \A t \in CoderThreads : thread[t].pc \in {"absent", "start"} /\ ~thread[t].start /\ ~thread[t].stop
    BY <1>1 DEF CodeBegin, InCall, QuietInv, Rested
  <2>2. p'.started = 1 /\ p'.finished = 0 /\ ~p'.readEvent /\ ~p'.finishedEvent
    BY <1>1, <1>f DEF CodeBegin
  <2>3. CASE /\ thread' = [thread EXCEPT ![0] = Started(@)]
             /\ main' = [pc |-> "open", calls |-> main.calls + 1, result |-> "none"]
    <3>1. main'.pc = "open" /\ main'.calls = main.calls + 1 /\ main.calls \in Nat
      BY <2>3 DEF Typed, MainRec
    <3>2. /\ thread'[0].pc = "start" /\ thread'[0].start /\ ~thread'[0].stop
          /\ \A t \in CoderThreads : t # 0 => thread'[t] = thread[t]
      <4>1. thread[0] \in ThreadRec /\ thread'[0] = Started(thread[0])
        BY <1>n, <2>3, ThreadTaken DEF Typed
      <4>2. \A t \in CoderThreads : t # 0 => thread'[t] = thread[t]
        BY <2>3 DEF Typed
      <4> QED
        BY <4>1, <4>2, <2>1, <1>n DEF Started, ThreadRec
    <3>3. Threads_Over' = {}
      BY <1>s, <1>n, <2>2, <3>2 DEF Threads_Over, Over
    <3>4. Cardinality(Threads_Over') = 0
      BY <3>3, FS_EmptySet
    <3>5. QuietInv'
      BY <1>s, <3>1 DEF QuietInv, InCall
    <3>6. \A t \in CoderThreads :
            /\ ~thread'[t].stop /\ (thread'[t].start => thread'[t].pc = "start" /\ t < 1)
            /\ t < 1 => thread'[t].pc # "absent"
            /\ thread'[t].pc \in {"absent", "start"}
      BY <1>n, <2>1, <3>2
    <3>7. CallInv'
      BY <1>n, <1>s, <2>2, <3>1, <3>4, <3>6 DEF CallInv, InCall
    <3> QED
      BY <3>5, <3>7
  <2>4. CASE UNCHANGED thread /\ main' = [main EXCEPT !.calls = @ + 1, !.result = "thread"]
    <3>1. main'.pc = "idle" /\ main'.calls = main.calls + 1 /\ main.calls \in Nat
      BY <2>1, <2>4 DEF Typed, MainRec
    <3>2. QuietInv'
      BY <1>s, <2>1, <2>4, <3>1 DEF QuietInv, InCall
    <3>3. CallInv'
      BY <1>n, <1>s, <2>2, <3>1 DEF CallInv, InCall
    <3> QED
      BY <3>2, <3>3
  <2> QED
    BY <1>1, <2>3, <2>4 DEF CodeBegin
<1>2. CASE CodeOpen
  <2>1. /\ main.pc = "open" /\ main'.pc = "wait" /\ main'.calls = main.calls /\ InCall /\ InCall'
        /\ thread' = thread
    BY <1>2 DEF CodeOpen, InCall, Typed, MainRec
  <2>2. p'.started = p.started /\ p'.finished = p.finished /\ p'.finishedEvent = p.finishedEvent
    BY <1>2 DEF CodeOpen, Typed, CoderRec
  <2>3. Threads_Over' = Threads_Over
    BY <1>s, <2>1, <2>2 DEF Threads_Over, Over
  <2>4. QuietInv'
    BY <1>s, <2>1 DEF QuietInv
  <2>5. CallInv'
    BY <1>s, <2>1, <2>2, <2>3 DEF CallInv
  <2> QED
    BY <2>4, <2>5
<1>3. CASE CodeEnd
  <2>1. /\ InCall /\ p.finishedEvent /\ main'.pc \in {"idle", "free"} /\ main'.calls = main.calls
        /\ ~InCall' /\ thread' = thread
    BY <1>3 DEF CodeEnd, InCall, Typed, MainRec
  <2>2. p'.started = p.started /\ p'.finished = p.finished
    BY <1>3 DEF CodeEnd, Typed, CoderRec
  <2>3. ASSUME NEW t \in CoderThreads
        PROVE  thread[t].pc \in {"absent", "start", "compare"} /\ ~thread[t].start /\ ~thread[t].stop
    <3>1. CASE t < p.started
      BY <2>1, <2>3, <3>1, OverFacts DEF CallInv, Over
    <3>2. CASE t >= p.started
      <4>1. p.started \in Nat /\ t \in Nat
        BY OverFacts, <1>n
      <4> QED
        BY <2>1, <2>3, <3>2, <4>1 DEF CallInv
    <3> QED
      BY <1>n, <3>1, <3>2, OverFacts
  <2>4. 0 < p.started /\ main.calls # 0
    BY <1>n, <2>1, OverFacts DEF CallInv, QuietInv
  <2>5. QuietInv'
    BY <1>s, <2>1, <2>3, <2>4 DEF QuietInv
  <2>6. CallInv'
    BY <1>s, <2>1, <2>2, <1>n DEF CallInv, InCall
  <2> QED
    BY <2>5, <2>6
<1>4. CASE Destruct \/ Freed
  <2>1. /\ ~InCall /\ ~InCall' /\ main'.calls = main.calls /\ thread' = thread /\ p' = p
        /\ \/ main.pc = "idle" /\ main'.pc = "free"
           \/ main'.pc = "gone" /\ \A t \in CoderThreads : thread[t].pc = "absent"
    BY <1>4 DEF Destruct, Freed, InCall, Typed, MainRec
  <2>2. QuietInv'
    BY <1>s, <2>1 DEF QuietInv
  <2>3. CallInv'
    BY <1>s, <2>1, <1>n DEF CallInv, InCall
  <2> QED
    BY <2>2, <2>3
<1>5. ASSUME NEW t \in CoderThreads, StopThread(t)
      PROVE  QuietInv' /\ CallInv'
  <2>1. main.pc = "free" /\ main' = main /\ p' = p /\ ~InCall /\ ~InCall' /\ thread[t].pc # "absent"
    BY <1>5 DEF StopThread, InCall
  <2>2. /\ thread'[t].pc = thread[t].pc /\ thread'[t].stop /\ OthersKept(t)
    <3>1. PICK h : h = [thread[t] EXCEPT !.stop = TRUE, !.start = TRUE]
      OBVIOUS
    <3>2. h.pc = thread[t].pc /\ h.stop
      BY <3>1, ThreadTaken DEF ThreadRec
    <3>3. thread' = [thread EXCEPT ![t] = h]
      BY <1>5, <3>1 DEF StopThread
    <3> QED
      BY <3>2, <3>3 DEF Typed, OthersKept
  <2>3. \A u \in CoderThreads : thread'[u].pc \in {"absent", "start", "compare"} /\ (thread'[u].start => thread'[u].stop)
    BY <2>1, <2>2 DEF QuietInv, OthersKept
  <2>4. main.calls # 0
    BY <2>1 DEF QuietInv
  <2>5. QuietInv'
    BY <1>s, <2>1, <2>3, <2>4 DEF QuietInv
  <2>6. CallInv'
    BY <1>s, <2>1, <1>n DEF CallInv, InCall
  <2> QED
    BY <2>5, <2>6
<1> QED
  BY <1>1, <1>2, <1>3, <1>4, <1>5

\* Threads wake up, start others, count themselves and compare.
LEMMA ThreadKeepsCalls ==
  ASSUME Typed, QuietInv, CallInv, ReaderInv, BufferInv, NEW t \in CoderThreads, ThreadStep(t)
  PROVE  QuietInv' /\ CallInv'
<1>n. NumThreads \in Nat \ {0} /\ \A u \in CoderThreads : u \in Nat
  BY SizeFacts DEF Typed, CoderThreads
<1>m. p.started \in Nat \ {0} /\ p.finished \in Nat
  BY OverFacts
<1>0. CallerKept
  BY DEF ThreadStep, CallerKept, Wake, Turn, Read, TakeSlot, Buffer, Code, PublishBlock, Write,
     Advance, ReleaseSlot, Count, Compare
<1>s. CoderThreads' = CoderThreads /\ NumThreads' = NumThreads /\ InCall' = InCall /\ main' = main
  BY <1>0, SizesKept DEF CallerKept, InCall
<1>1. CASE Wake(t)
  <2>1. /\ OthersKept(t) /\ p' = p /\ thread[t].pc = "start" /\ thread[t].start
        /\ thread[t].stop => thread'[t] = Absent
        /\ ~thread[t].stop => thread'[t].pc = "turn" /\ ~thread'[t].start /\ ~thread'[t].stop
    BY <1>1, WakeStep
  <2>2. main.calls # 0
    BY <2>1 DEF QuietInv
  <2>3. CASE InCall
    <3>1. ~thread[t].stop /\ t < p.started
      BY <2>1, <2>3 DEF CallInv
    <3>2. \A u \in CoderThreads : Over(u)' <=> Over(u)
      BY <2>1, <3>1 DEF Over, OthersKept
    <3>3. Threads_Over' = Threads_Over
      BY <1>s, <2>1, <3>2 DEF Threads_Over
    <3>4. QuietInv'
      BY <1>s, <2>2, <2>3 DEF QuietInv, InCall
    <3>5. \A u \in CoderThreads :
            /\ ~thread'[u].stop /\ (thread'[u].start => thread'[u].pc = "start" /\ u < p.started)
            /\ u < p.started => thread'[u].pc # "absent"
            /\ u >= p.started => thread'[u].pc \in {"absent", "start"}
            /\ thread'[u].pc = "compare" => thread'[u].count <= p.finished
      <4> TAKE u \in CoderThreads
      <4>1. CASE u # t
        BY <2>1, <2>3, <4>1 DEF OthersKept, CallInv
      <4>2. CASE u = t
        BY <1>n, <1>m, <2>1, <3>1, <4>2
      <4> QED
        BY <4>1, <4>2
    <3>6. main.pc = "open" => \A u \in CoderThreads : thread'[u].pc \in {"absent", "start", "turn"}
      BY <2>1, <3>1 DEF OthersKept, CallInv
    <3>7. CallInv'
      BY <1>s, <2>1, <2>3, <3>3, <3>5, <3>6 DEF CallInv
    <3> QED
      BY <3>4, <3>7
  <2>4. CASE ~InCall
    <3>1. thread[t].stop /\ thread'[t].pc = "absent" /\ ~thread'[t].start /\ ~thread'[t].stop
      BY <2>1, <2>4 DEF QuietInv, Absent
    <3>2. QuietInv'
      BY <1>s, <2>1, <2>4, <3>1 DEF QuietInv, OthersKept
    <3>3. CallInv'
      BY <1>s, <2>1, <2>4 DEF CallInv, InCall
    <3> QED
      BY <3>2, <3>3
  <2> QED
    BY <2>3, <2>4
<1>2. CASE Turn(t)
  <2>1. main.pc # "open"
    BY <1>2, TurnStep DEF CallInv
  <2> QED
    BY <1>0, <1>2, <2>1, TurnStep, WorkKeeps DEF Working
<1>3. CASE Read(t)
  <2>1. main.pc # "open" /\ p.processed <= setup.size
    BY <1>3 DEF ReaderInv, Reads, Read
  <2> QED
    BY <1>0, <1>3, <2>1, ReadStep, WorkKeeps DEF Working
<1>4. CASE TakeSlot(t)
  <2>1. main.pc = "wait" /\ thread[t].pc = "slot"
    BY <1>4 DEF ReaderInv, Reads, TakeSlot
  <2>2. InCall /\ t < p.started /\ ~thread[t].start /\ ~thread[t].stop /\ main.calls # 0 /\ ~p.finishedEvent
    BY <2>1, WorkFacts DEF Working
  <2>3. PICK f \in BOOLEAN, r \in Codes :
          /\ HasTaken(t, thread'[t], f, r) /\ SlotTaken(f)
          /\ \/ OthersKept(t) /\ p'.started = p.started
             \/ /\ p'.started = p.started + 1 /\ p.started \in CoderThreads
                /\ thread'[p.started] = Started(thread[p.started])
                /\ \A u \in CoderThreads : u # t /\ u # p.started => thread'[u] = thread[u]
    BY <1>4, <2>2, TakeSlotStep
  <2>4. /\ thread'[t].pc \in {"buffer", "publish"} /\ StartPart(thread'[t]) = StartPart(thread[t])
        /\ p'.finished = p.finished /\ p'.finishedEvent = p.finishedEvent
    BY <2>3 DEF HasTaken, SlotTaken
  <2>5. CASE OthersKept(t) /\ p'.started = p.started
    BY <1>0, <2>1, <2>4, <2>5, WorkKeeps DEF CountPart, Working
  <2>6. CASE /\ p'.started = p.started + 1 /\ p.started \in CoderThreads
             /\ thread'[p.started] = Started(thread[p.started])
             /\ \A u \in CoderThreads : u # t /\ u # p.started => thread'[u] = thread[u]
    <3>1. thread[p.started].pc \in {"absent", "start"} /\ ~thread[p.started].stop
      BY <2>2, <2>6, <1>m DEF CallInv
    <3>2. thread'[p.started].pc = "start" /\ thread'[p.started].start /\ ~thread'[p.started].stop
      BY <2>6, <3>1, ThreadTaken DEF Started, ThreadRec
    <3>3. ~thread'[t].start /\ ~thread'[t].stop
      BY <2>2, <2>4 DEF StartPart
    <3>4. \A u \in CoderThreads : u < p'.started /\ Over(u)' <=> u < p.started /\ Over(u)
      <4> TAKE u \in CoderThreads
      <4>1. CASE u # t /\ u # p.started
        BY <1>n, <1>m, <2>6, <4>1 DEF Over
      <4>2. CASE u = t
        BY <2>1, <2>4, <4>2 DEF Over
      <4>3. CASE u = p.started
        BY <1>m, <3>2, <4>3 DEF Over
      <4> QED
        BY <4>1, <4>2, <4>3
    <3>5. Threads_Over' = Threads_Over
      BY <1>s, <3>4 DEF Threads_Over
    <3>6. \A u \in CoderThreads :
            /\ ~thread'[u].stop /\ (thread'[u].start => thread'[u].pc = "start" /\ u < p'.started)
            /\ u < p'.started => thread'[u].pc # "absent"
            /\ u >= p'.started => thread'[u].pc \in {"absent", "start"}
            /\ thread'[u].pc = "compare" => thread'[u].count <= p'.finished
      <4> TAKE u \in CoderThreads
      <4>0. u \in Nat
        BY <1>n
      <4>1. CASE u # t /\ u # p.started
        BY <1>m, <2>2, <2>4, <2>6, <4>0, <4>1 DEF CallInv
      <4>2. CASE u = t
        BY <1>m, <2>2, <2>4, <2>6, <3>3, <4>0, <4>2
      <4>3. CASE u = p.started
        BY <1>m, <2>6, <3>2, <4>0, <4>3
      <4> QED
        BY <4>1, <4>2, <4>3
    <3>7. p'.started \in 1 .. NumThreads
      BY <1>m, <1>n, <2>6 DEF CoderThreads
    <3>8. QuietInv'
      BY <1>s, <2>1, <2>2 DEF QuietInv
    <3>9. p.finished <= p.started
      BY DEF CallInv
    <3>10. p.finished = Cardinality(Threads_Over)
      BY <2>2 DEF CallInv
    <3> QED
      BY <1>s, <1>m, <2>1, <2>2, <2>4, <2>6, <3>5, <3>6, <3>7, <3>8, <3>9, <3>10 DEF CallInv
  <2> QED
    BY <2>3, <2>5, <2>6
<1>5. CASE Buffer(t)
  <2>1. thread[t].pc = "buffer" /\ p.free # <<>>
    BY <1>5 DEF Buffer, BufferInv
  <2>2. main.pc # "open"
    BY <2>1, WorkFacts DEF Working
  <2> QED
    BY <1>0, <1>5, <2>1, <2>2, BufferStep, WorkKeeps DEF Working
<1>6. CASE Code(t)
  <2>2. main.pc # "open"
    BY <1>6, WorkFacts DEF Working, Code
  <2> QED
    BY <1>0, <1>6, <2>2, CodeStep, WorkKeeps DEF Working
<1>7. CASE PublishBlock(t)
  <2>2. main.pc # "open"
    BY <1>7, WorkFacts DEF Working, PublishBlock
  <2> QED
    BY <1>0, <1>7, <2>2, PublishStep, WorkKeeps DEF Working, Leaves
<1>8. CASE Write(t)
  <2>2. main.pc # "open"
    BY <1>8, WorkFacts DEF Working, Write
  <2> QED
    BY <1>0, <1>8, <2>2, WriteStep, WorkKeeps DEF Working
<1>9. CASE Advance(t)
  <2>2. main.pc # "open"
    BY <1>9, WorkFacts DEF Working, Advance
  <2> QED
    BY <1>0, <1>9, <2>2, AdvanceStep, WorkKeeps DEF Working
<1>10. CASE ReleaseSlot(t)
  <2>2. main.pc # "open"
    BY <1>10, WorkFacts DEF Working, ReleaseSlot
  <2> QED
    BY <1>0, <1>10, <2>2, ReleaseStep, WorkKeeps DEF Working, Leaves
<1>11. CASE Count(t)
  <2>1. /\ thread[t].pc = "tail" /\ thread'[t].pc = "compare" /\ thread'[t].count = p.finished + 1 /\ OthersKept(t)
        /\ thread'[t].start = thread[t].start /\ thread'[t].stop = thread[t].stop
        /\ p'.finished = p.finished + 1 /\ p'.started = p.started /\ p'.finishedEvent = p.finishedEvent
    BY <1>11, CountStep
  <2>2. /\ InCall /\ t < p.started /\ ~thread[t].start /\ ~thread[t].stop /\ main.calls # 0
        /\ main.pc = "wait" /\ ~p.finishedEvent /\ ~Over(t)
    BY <2>1, WorkFacts
  <2>3. Threads_Over' = Threads_Over \cup {t}
    <3>1. \A u \in CoderThreads : Over(u)' <=> Over(u) \/ u = t
      BY <2>1 DEF Over, OthersKept
    <3> QED
      BY <1>s, <2>1, <2>2, <3>1 DEF Threads_Over
  <2>4. t \notin Threads_Over
    BY <2>2 DEF Threads_Over
  <2>5. Cardinality(Threads_Over') = Cardinality(Threads_Over) + 1
    BY <2>3, <2>4, OverFacts, FS_AddElement
  <2>6. Threads_Over' \subseteq 0 .. p.started - 1
    BY <1>n, <1>m, <2>2, <2>3, OverFacts
  <2>7. Cardinality(Threads_Over') <= p.started
    <3>1. IsFiniteSet(0 .. p.started - 1) /\ Cardinality(0 .. p.started - 1) = p.started
      BY <1>m, BelowFacts
    <3> QED
      BY <2>6, <3>1, FS_Subset
  <2>8. p.finished = Cardinality(Threads_Over)
    BY <2>2 DEF CallInv
  <2>9. QuietInv'
    BY <1>s, <2>2 DEF QuietInv
  <2>10. \A u \in CoderThreads :
            /\ ~thread'[u].stop /\ (thread'[u].start => thread'[u].pc = "start" /\ u < p'.started)
            /\ u < p'.started => thread'[u].pc # "absent"
            /\ u >= p'.started => thread'[u].pc \in {"absent", "start"}
            /\ thread'[u].pc = "compare" => thread'[u].count <= p'.finished
    <3> TAKE u \in CoderThreads
    <3>0. u \in Nat
      BY <1>n
    <3>1. CASE u # t
      <4>1. thread'[u] = thread[u] /\ thread[u].count \in Nat
        BY <2>1, <3>1, ThreadTaken DEF OthersKept, ThreadFields
      <4> QED
        BY <1>m, <2>1, <2>2, <4>1 DEF CallInv
    <3>2. CASE u = t
      BY <1>m, <2>1, <2>2, <3>0, <3>2
    <3> QED
      BY <3>1, <3>2
  <2> QED
    BY <1>s, <1>m, <2>1, <2>2, <2>5, <2>7, <2>8, <2>9, <2>10 DEF CallInv
<1>12. CASE Compare(t)
  <2>1. /\ thread[t].pc = "compare" /\ thread'[t].pc = "start" /\ OthersKept(t)
        /\ thread'[t].start = thread[t].start /\ thread'[t].stop = thread[t].stop
        /\ p'.finished = p.finished /\ p'.started = p.started
        /\ p'.finishedEvent = (p.finishedEvent \/ thread[t].count = p.started)
    BY <1>12, CompareStep
  <2>2. CASE InCall
    <3>1. ~thread[t].start /\ ~thread[t].stop /\ thread[t].count <= p.finished /\ p.finished <= p.started
      BY <2>1, <2>2 DEF CallInv
    <3>2. t < p.started /\ main.calls # 0 /\ main.pc # "open"
      BY <1>n, <1>m, <2>1, <2>2 DEF CallInv, QuietInv
    <3>3. \A u \in CoderThreads : Over(u)' <=> Over(u)
      BY <2>1, <3>1 DEF Over, OthersKept
    <3>4. Threads_Over' = Threads_Over
      BY <1>s, <2>1, <3>3 DEF Threads_Over
    <3>5. thread[t].count \in Nat
      BY ThreadTaken DEF ThreadFields
    <3>6. ASSUME p'.finishedEvent PROVE p'.finished = p'.started
      <4>1. CASE p.finishedEvent
        BY <2>1, <2>2, <4>1 DEF CallInv
      <4>2. CASE thread[t].count = p.started
        BY <1>m, <2>1, <3>1, <4>2
      <4> QED
        BY <2>1, <3>6, <4>1, <4>2
    <3>7. \A u \in CoderThreads :
            /\ ~thread'[u].stop /\ (thread'[u].start => thread'[u].pc = "start" /\ u < p'.started)
            /\ u < p'.started => thread'[u].pc # "absent"
            /\ u >= p'.started => thread'[u].pc \in {"absent", "start"}
            /\ thread'[u].pc = "compare" => thread'[u].count <= p'.finished
      <4> TAKE u \in CoderThreads
      <4>1. CASE u # t
        BY <2>1, <2>2, <4>1 DEF OthersKept, CallInv
      <4>2. CASE u = t
        BY <2>1, <3>1, <3>2, <4>2
      <4> QED
        BY <4>1, <4>2
    <3>8. QuietInv'
      BY <1>s, <2>2, <3>2 DEF QuietInv, InCall
    <3> QED
      BY <1>s, <2>1, <2>2, <3>2, <3>4, <3>6, <3>7, <3>8 DEF CallInv, InCall
  <2>3. CASE ~InCall
    <3>1. QuietInv'
      BY <1>s, <2>1, <2>3 DEF QuietInv, OthersKept
    <3>2. CallInv'
      BY <1>s, <2>1, <2>3 DEF CallInv, InCall
    <3> QED
      BY <3>1, <3>2
  <2> QED
    BY <2>2, <2>3
<1> QED
  BY <1>1, <1>2, <1>3, <1>4, <1>5, <1>6, <1>7, <1>8, <1>9, <1>10, <1>11, <1>12 DEF ThreadStep
-----------------------------------------------------------------------------
(* The turn to read                                                        *)

\* A step in which nobody's reading changes.
LEMMA ReadingKept ==
  ASSUME ReaderInv, CoderThreads' = CoderThreads, setup' = setup, main' = main, ReadPart(p') = ReadPart(p),
         \A u \in CoderThreads : Reads(u)' => Reads(u)
  PROVE  ReaderInv'
<1>1. p'.readEvent = p.readEvent /\ p'.stopReading = p.stopReading /\ p'.processed = p.processed
  BY DEF ReadPart
<1> QED
  BY <1>1 DEF ReaderInv

\* Only the thread that took the turn reads, and reading is over when it says so.
LEMMA ReadingStep ==
  ASSUME Typed, QuietInv, CallInv, ReaderInv, BufferInv, PatientNext \/ UNCHANGED coderVars
  PROVE  ReaderInv'
<1>0. setup' = setup
  BY SetupKept DEF PatientNext, CoderNext
<1>s. CoderThreads' = CoderThreads
  BY <1>0, SizesKept
<1>n. setup.size \in Nat /\ p.processed \in Nat
  BY SizeFacts, CoderTaken DEF Typed, CoderFields
<1>1. ASSUME NEW t \in CoderThreads, ThreadStep(t)
      PROVE  ReaderInv'
  <2>1. CASE Wake(t)
    <3>1. \A u \in CoderThreads : Reads(u)' => Reads(u)
      BY <2>1, WakeStep DEF Reads, OthersKept, Absent
    <3> QED
      BY <1>0, <1>s, <2>1, <3>1, WakeStep, ReadingKept DEF CallerKept
  <2>2. CASE Turn(t)
    <3>1. /\ p.readEvent /\ p'.readEvent = p.stopReading /\ p'.stopReading = p.stopReading
          /\ p'.processed = p.processed /\ main' = main /\ OthersKept(t) /\ thread[t].pc = "turn"
          /\ thread'[t].pc = (IF p.stopReading THEN "tail" ELSE "read")
      BY <2>2, TurnStep DEF CallerKept
    <3>2. \A u \in CoderThreads : ~Reads(u)
      BY <3>1 DEF ReaderInv
    <3>3. main.pc = "wait"
      BY <3>1, WorkFacts DEF Working, CallInv, InCall
    <3>4. \A u \in CoderThreads : Reads(u)' => u = t /\ ~p.stopReading
      BY <3>1, <3>2 DEF Reads, OthersKept
    <3> QED
      BY <1>0, <1>s, <3>1, <3>3, <3>4 DEF ReaderInv
  <2>3. CASE Read(t)
    <3>1. /\ OthersKept(t) /\ thread[t].pc = "read" /\ main' = main /\ p'.processed <= setup.size
          /\ p'.readEvent = p.readEvent /\ p'.stopReading = p.stopReading
      BY <2>3, ReadStep DEF ReaderInv, CallerKept
    <3>2. \A u \in CoderThreads : Reads(u)' => Reads(u)
      BY <3>1 DEF Reads, OthersKept
    <3> QED
      BY <1>0, <1>s, <3>1, <3>2 DEF ReaderInv
  <2>4. CASE TakeSlot(t)
    <3>1. thread[t].pc = "slot" /\ main.pc = "wait" /\ t < p.started
      BY <2>4, WorkFacts DEF TakeSlot, Working
    <3>2. PICK f \in BOOLEAN, r \in Codes :
            /\ HasTaken(t, thread'[t], f, r) /\ SlotTaken(f)
            /\ \/ OthersKept(t)
               \/ /\ p.started \in CoderThreads /\ thread'[p.started] = Started(thread[p.started])
                  /\ \A u \in CoderThreads : u # t /\ u # p.started => thread'[u] = thread[u]
      BY <2>4, <3>1, TakeSlotStep
    <3>3. \A u \in CoderThreads : u # t => ~Reads(u)
      BY <3>1 DEF Reads, ReaderInv
    <3>4. ~Reads(t)'
      BY <3>2 DEF HasTaken, Reads
    <3>5. CASE OthersKept(t)
      <4>1. \A u \in CoderThreads : ~Reads(u)'
        BY <3>3, <3>4, <3>5 DEF OthersKept, Reads
      <4> QED
        BY <1>0, <1>s, <3>2, <4>1 DEF ReaderInv, SlotTaken
    <3>6. CASE /\ p.started \in CoderThreads /\ thread'[p.started] = Started(thread[p.started])
               /\ \A u \in CoderThreads : u # t /\ u # p.started => thread'[u] = thread[u]
      <4>1. thread[p.started].pc \in {"absent", "start"}
        BY <3>1, <3>6, OverFacts DEF CallInv, InCall
      <4>2. thread'[p.started].pc = "start"
        BY <3>6, <4>1, ThreadTaken DEF Started, ThreadRec
      <4>3. \A u \in CoderThreads : ~Reads(u)'
        BY <3>3, <3>4, <3>6, <4>2 DEF Reads
      <4> QED
        BY <1>0, <1>s, <3>2, <4>3 DEF ReaderInv, SlotTaken
    <3> QED
      BY <3>2, <3>5, <3>6
  <2>5. CASE Buffer(t) \/ Code(t) \/ PublishBlock(t)
    <3>1. /\ OthersKept(t) /\ thread'[t].pc \notin {"read", "slot"} /\ ReadPart(p') = ReadPart(p) /\ main' = main
      BY <2>5, BufferStep, CodeStep, PublishStep DEF BufferInv, Leaves, CallerKept
    <3>2. \A u \in CoderThreads : Reads(u)' => Reads(u)
      BY <3>1 DEF Reads, OthersKept
    <3> QED
      BY <1>0, <1>s, <3>1, <3>2, ReadingKept
  <2>6. CASE Write(t) \/ Advance(t) \/ ReleaseSlot(t)
    <3>1. /\ OthersKept(t) /\ thread'[t].pc \notin {"read", "slot"} /\ ReadPart(p') = ReadPart(p) /\ main' = main
      BY <2>6, WriteStep, AdvanceStep, ReleaseStep DEF Leaves, CallerKept
    <3>2. \A u \in CoderThreads : Reads(u)' => Reads(u)
      BY <3>1 DEF Reads, OthersKept
    <3> QED
      BY <1>0, <1>s, <3>1, <3>2, ReadingKept
  <2>7. CASE Count(t) \/ Compare(t)
    <3>1. /\ OthersKept(t) /\ thread'[t].pc \notin {"read", "slot"} /\ ReadPart(p') = ReadPart(p) /\ main' = main
      BY <2>7, CountStep, CompareStep DEF CallerKept
    <3>2. \A u \in CoderThreads : Reads(u)' => Reads(u)
      BY <3>1 DEF Reads, OthersKept
    <3> QED
      BY <1>0, <1>s, <3>1, <3>2, ReadingKept
  <2> QED
    BY <1>1, <2>1, <2>2, <2>3, <2>4, <2>5, <2>6, <2>7 DEF ThreadStep
<1>2. CASE UNCHANGED coderVars
  BY <1>0, <1>s, <1>2, ReadingKept DEF coderVars, Reads
<1>3. CASE CodeBegin
  <2>1. ~InCall /\ p'.processed = 0
    BY <1>3 DEF CodeBegin, InCall, Fresh
  <2>2. \A u \in CoderThreads : ~Reads(u)
    BY <2>1 DEF QuietInv, Reads
  <2>3. \A u \in CoderThreads : ~Reads(u)'
    <3>1. thread' = thread \/ thread' = [thread EXCEPT ![0] = Started(thread[0])]
      BY <1>3 DEF CodeBegin
    <3>2. 0 \in CoderThreads
      BY SizeFacts DEF Typed, CoderThreads
    <3>3. Started(thread[0]).pc \in {"start", thread[0].pc}
      BY <3>2, ThreadTaken DEF Started, ThreadRec
    <3> QED
      BY <2>2, <3>1, <3>2, <3>3 DEF Reads, Typed
  <2> QED
    BY <1>0, <1>n, <1>s, <2>1, <2>3 DEF ReaderInv
<1>4. CASE CodeOpen \/ CodeEnd \/ Destruct \/ Freed
  <2>1. (thread' = thread /\ p'.processed = p.processed /\ main.pc # "wait") \/ CodeEnd
    BY <1>4 DEF CodeOpen, CodeEnd, Destruct, Freed, Typed, CoderRec
  <2>2. thread' = thread /\ p'.processed = p.processed
    BY <1>4 DEF CodeOpen, CodeEnd, Destruct, Freed, Typed, CoderRec
  <2>3. ASSUME CodeEnd, NEW u \in CoderThreads PROVE ~Reads(u)
    <3>1. p.finishedEvent
      BY <2>3 DEF CodeEnd
    <3> QED
      BY <3>1, WorkFacts DEF Reads, Working
  <2>4. \A u \in CoderThreads : ~Reads(u)
    BY <1>4, <2>1, <2>3 DEF ReaderInv
  <2>5. \A u \in CoderThreads : ~Reads(u)'
    BY <2>2, <2>4 DEF Reads
  <2> QED
    BY <1>0, <1>s, <2>2, <2>5 DEF ReaderInv
<1>5. ASSUME NEW t \in CoderThreads, StopThread(t)
      PROVE  ReaderInv'
  <2>1. thread' = [thread EXCEPT ![t] = [thread[t] EXCEPT !.stop = TRUE, !.start = TRUE]] /\ p' = p /\ main' = main
    BY <1>5 DEF StopThread
  <2>2. \A u \in CoderThreads : thread'[u].pc = thread[u].pc
    BY <2>1, ThreadTaken DEF Typed, ThreadRec
  <2>3. \A u \in CoderThreads : Reads(u)' => Reads(u)
    BY <2>2 DEF Reads
  <2> QED
    BY <1>0, <1>s, <2>1, <2>3, ReadingKept
<1> QED
  BY <1>1, <1>2, <1>3, <1>4, <1>5 DEF PatientNext, CoderStep, MainStep, Gone
-----------------------------------------------------------------------------
(* The slots                                                               *)

\* Distances in the ring of slots.
LEMMA OffFacts ==
  ASSUME setup \in Setups, NEW f \in Slots, NEW s \in Slots
  PROVE  /\ Off(f, s) \in 0 .. NumBlocksMax - 1 /\ Off(f, f) = 0 /\ After(f) # f
         /\ Off(After(f), s) = IF s = f THEN NumBlocksMax - 1 ELSE Off(f, s) - 1
         /\ Off(f, s) = 0 => s = f
<1>1. NumBlocksMax \in Nat /\ NumBlocksMax >= 2 /\ f \in 0 .. NumBlocksMax - 1 /\ s \in 0 .. NumBlocksMax - 1
  BY SizeFacts DEF Slots
<1>2. CASE f + 1 = NumBlocksMax
  BY <1>1, <1>2 DEF After, Off
<1>3. CASE f + 1 # NumBlocksMax
  BY <1>1, <1>3 DEF After, Off
<1> QED
  BY <1>1, <1>2, <1>3

\* The slot u places behind f.
Behind(f, u) == IF f + u >= NumBlocksMax THEN f + u - NumBlocksMax ELSE f + u

\* The slot that comes behind u slots from f on.
LEMMA BehindFacts ==
  ASSUME setup \in Setups, NEW f \in Slots, NEW u \in 0 .. NumBlocksMax
  PROVE  /\ Behind(f, u) \in Slots
         /\ u < NumBlocksMax => /\ After(Behind(f, u)) = Behind(f, u + 1)
                                /\ \A s \in Slots : Off(f, s) = u <=> s = Behind(f, u)
         /\ u > 0 => Behind(After(f), u - 1) = Behind(f, u)
<1>1. NumBlocksMax \in Nat /\ NumBlocksMax >= 2 /\ f \in 0 .. NumBlocksMax - 1 /\ u \in 0 .. NumBlocksMax
  BY SizeFacts DEF Slots
<1>2. Behind(f, u) \in Slots
  BY <1>1 DEF Behind, Slots
<1>3. u < NumBlocksMax => After(Behind(f, u)) = Behind(f, u + 1)
  BY <1>1 DEF Behind, After
<1>4. ASSUME u < NumBlocksMax, NEW s \in Slots
      PROVE  Off(f, s) = u <=> s = Behind(f, u)
  BY <1>1, <1>4 DEF Behind, Off, Slots
<1>5. u > 0 => Behind(After(f), u - 1) = Behind(f, u)
  BY <1>1 DEF Behind, After
<1> QED
  BY <1>2, <1>3, <1>4, <1>5

\* The threads that release a slot can be counted.
LEMMA ReleasingFacts ==
  ASSUME Typed
  PROVE  IsFiniteSet(Releasing) /\ Cardinality(Releasing) \in Nat
<1>1. NumThreads \in Nat
  BY SizeFacts DEF Typed
<1>2. IsFiniteSet(CoderThreads)
  BY <1>1, BelowFacts DEF CoderThreads
<1>3. Releasing \in SUBSET CoderThreads
  BY DEF Releasing
<1> QED
  BY <1>2, <1>3, FS_Subset, FS_CardinalityType

\* A step after which the same threads have the same slots.
SameLine ==
  /\ setup' = setup /\ SlotPart(p') = SlotPart(p) /\ p'.writeIndex = p.writeIndex /\ p'.ready = p.ready
  /\ \A u \in CoderThreads :
       /\ Hold(u)' <=> Hold(u)
       /\ Writes(u)' <=> Writes(u)
       /\ Hold(u) => thread'[u].bi = thread[u].bi
       /\ thread'[u].pc = "release" <=> thread[u].pc = "release"

\* Such a step keeps what the slots and their holders are.
LEMMA SameLineKeeps ==
  ASSUME SameLine
  PROVE  /\ HoldInv => HoldInv'
         /\ \A f \in Slots, u \in 0 .. NumBlocksMax : SlotsAt(f, u) => SlotsAt(f, u)'
<1>1. CoderThreads' = CoderThreads /\ Slots' = Slots /\ NumBlocksMax' = NumBlocksMax
  BY SizesKept DEF SameLine
<1>2. p'.sem = p.sem /\ p'.blockIndex = p.blockIndex
  BY DEF SameLine, SlotPart
<1>3. Releasing' = Releasing
  BY <1>1 DEF Releasing, SameLine
<1>4. ASSUME HoldInv PROVE HoldInv'
  BY <1>1, <1>4 DEF SameLine, HoldInv, Hold
<1>5. ASSUME NEW f \in Slots, NEW u \in 0 .. NumBlocksMax, SlotsAt(f, u) PROVE SlotsAt(f, u)'
  <2>1. \A s \in Slots : InUse(s)' <=> InUse(s)
    BY <1>1 DEF SameLine, InUse
  <2>2. \A s \in Slots : Off(f, s)' = Off(f, s)
    BY <1>1 DEF Off
  <2>3. \A t \in CoderThreads : Writes(t) => Hold(t)
    BY DEF Hold
  <2> QED
    BY <1>1, <1>2, <1>3, <1>5, <2>1, <2>2, <2>3 DEF SlotsAt, SameLine
<1> QED
  BY <1>4, <1>5

\* The steps of a thread that do so.
LEMMA SameLineThreads ==
  ASSUME Typed, QuietInv, CallInv, ReaderInv, BufferInv, NEW t \in CoderThreads,
         Wake(t) \/ Turn(t) \/ Read(t) \/ Buffer(t) \/ Code(t) \/ Write(t) \/ Count(t) \/ Compare(t)
  PROVE  SameLine
<1>1. CASE Wake(t)
  <2>1. /\ setup' = setup /\ p' = p /\ OthersKept(t) /\ thread[t].pc = "start" /\ thread'[t].pc \in {"absent", "turn"}
    BY <1>1, WakeStep DEF CallerKept, Absent
  <2> QED
    BY <2>1 DEF SameLine, Hold, Writes, OthersKept
<1>2. CASE Turn(t) \/ Read(t)
  <2>1. /\ setup' = setup /\ OthersKept(t) /\ SlotPart(p') = SlotPart(p) /\ LinePart(p') = LinePart(p)
        /\ thread[t].pc \in {"turn", "read"} /\ thread'[t].pc \in {"tail", "read", "slot"}
    BY <1>2, TurnStep, ReadStep DEF CallerKept, ReaderInv
  <2> QED
    BY <2>1 DEF SameLine, Hold, Writes, OthersKept, LinePart
<1>3. CASE Buffer(t) \/ Code(t)
  <2>1. /\ setup' = setup /\ OthersKept(t) /\ SlotPart(p') = SlotPart(p) /\ LinePart(p') = LinePart(p)
        /\ thread[t].pc \in {"buffer", "code"} /\ thread'[t].pc \in {"code", "publish"}
        /\ thread'[t].bi = thread[t].bi
    BY <1>3, BufferStep, CodeStep DEF CallerKept, BufferInv
  <2> QED
    BY <2>1 DEF SameLine, Hold, Writes, OthersKept, LinePart
<1>4. CASE Write(t)
  <2>1. /\ setup' = setup /\ OthersKept(t) /\ SlotPart(p') = SlotPart(p) /\ LinePart(p') = LinePart(p)
        /\ thread[t].pc = "write" /\ thread'[t].pc = "advance" /\ thread'[t].bi = thread[t].bi
    BY <1>4, WriteStep DEF CallerKept
  <2> QED
    BY <2>1 DEF SameLine, Hold, Writes, OthersKept, LinePart
<1>5. CASE Count(t) \/ Compare(t)
  <2>1. /\ setup' = setup /\ OthersKept(t) /\ SlotPart(p') = SlotPart(p) /\ LinePart(p') = LinePart(p)
        /\ thread[t].pc \in {"tail", "compare"} /\ thread'[t].pc \in {"compare", "start"}
    BY <1>5, CountStep, CompareStep DEF CallerKept
  <2> QED
    BY <2>1 DEF SameLine, Hold, Writes, OthersKept, LinePart
<1> QED
  BY <1>1, <1>2, <1>3, <1>4, <1>5

\* ... and those of the caller.
LEMMA SameLineCaller ==
  ASSUME Typed,
         CodeOpen \/ CodeEnd \/ Destruct \/ Freed \/ (\E t \in CoderThreads : StopThread(t)) \/ UNCHANGED coderVars
  PROVE  SameLine
<1>1. CASE CodeOpen \/ CodeEnd
  <2>1. /\ setup' = setup /\ thread' = thread /\ SlotPart(p') = SlotPart(p) /\ LinePart(p') = LinePart(p)
    BY <1>1 DEF CodeOpen, CodeEnd, Typed, CoderRec, SlotPart, LinePart
  <2> QED
    BY <2>1 DEF SameLine, Hold, Writes, LinePart
<1>2. CASE Destruct \/ Freed \/ UNCHANGED coderVars
  BY <1>2 DEF Destruct, Freed, coderVars, SameLine, Hold, Writes
<1>3. ASSUME NEW t \in CoderThreads, StopThread(t)
      PROVE  SameLine
  <2>1. /\ thread' = [thread EXCEPT ![t] = [thread[t] EXCEPT !.stop = TRUE, !.start = TRUE]] /\ p' = p
        /\ setup' = setup
    BY <1>3 DEF StopThread
  <2>2. \A u \in CoderThreads : /\ thread'[u].pc = thread[u].pc /\ thread'[u].bi = thread[u].bi
                                /\ thread'[u].ready = thread[u].ready
    BY <2>1, ThreadTaken DEF Typed, ThreadRec
  <2> QED
    BY <2>1, <2>2 DEF SameLine, Hold, Writes
<1> QED
  BY <1>1, <1>2, <1>3

\* A new call begins with all slots free.
FreshSlots == p.writeIndex = 0 /\ p.blockIndex = 0 /\ p.sem = NumBlocksMax /\ \A s \in Slots : ~p.ready[s]

\* Slots that are set up, while no thread works, are all free.
LEMMA NoneHeld ==
  ASSUME setup \in Setups, FreshSlots, \A t \in CoderThreads : thread[t].pc \in {"absent", "start", "compare"}
  PROVE  HoldInv /\ 0 \in Slots /\ SlotsAt(0, 0)
<1>1. \A t \in CoderThreads : ~Hold(t) /\ ~Writes(t) /\ thread[t].pc # "release"
  BY DEF Hold, Writes
<1>2. Releasing = {} /\ Cardinality(Releasing) = 0
  BY <1>1, FS_EmptySet DEF Releasing
<1>3. NumBlocksMax \in Nat /\ NumBlocksMax >= 2 /\ 0 \in Slots
  BY SizeFacts DEF Slots
<1>4. HoldInv
  BY <1>1, <1>3 DEF HoldInv, FreshSlots, None
<1>5. \A s \in Slots : Off(0, s) >= 0 /\ ~InUse(s)
  BY <1>1, <1>3 DEF InUse, FreshSlots, Off, Slots
<1>6. \A s \in Slots : ~(Off(0, s) < 0)
  BY <1>3, <1>5, OffFacts DEF Slots
<1> QED
  BY <1>1, <1>2, <1>3, <1>4, <1>5, <1>6 DEF SlotsAt, FreshSlots

\* MtCoder_Code sets up the slots so.
LEMMA FreshFacts ==
  ASSUME setup \in Setups
  PROVE  /\ Fresh.writeIndex = 0 /\ Fresh.blockIndex = 0 /\ Fresh.sem = NumBlocksMax
         /\ \A s \in Slots : ~Fresh.ready[s]
  BY DEF Fresh

\* The threads that CodeBegin finds or starts do not work.
LEMMA BeginThreads ==
  ASSUME Typed, QuietInv, CodeBegin
  PROVE  \A t \in CoderThreads : /\ thread'[t].pc \in {"absent", "start", "compare"}
                                 /\ thread'[t].buf = thread[t].buf
<1>1. \A t \in CoderThreads : thread[t].pc \in {"absent", "start", "compare"}
  BY DEF CodeBegin, QuietInv, InCall
<1>2. 0 \in CoderThreads
  BY SizeFacts DEF Typed, CoderThreads
<1>3. Started(thread[0]).pc \in {"start", thread[0].pc} /\ Started(thread[0]).buf = thread[0].buf
  BY <1>2, ThreadTaken DEF Started, ThreadRec
<1>4. thread' = thread \/ thread' = [thread EXCEPT ![0] = Started(thread[0])]
  BY DEF CodeBegin
<1> QED
  BY <1>1, <1>2, <1>3, <1>4 DEF Typed

\* A call begins with all slots free.
LEMMA BeginLine ==
  ASSUME Typed, QuietInv, CodeBegin
  PROVE  HoldInv' /\ 0 \in Slots' /\ SlotsAt(0, 0)'
<1>1. setup' = setup /\ p' = Fresh
  BY DEF CodeBegin
<1>2. NumBlocksMax' = NumBlocksMax /\ Slots' = Slots /\ CoderThreads' = CoderThreads
  BY <1>1, SizesKept
<1>3. FreshSlots'
  BY <1>1, <1>2, FreshFacts DEF FreshSlots, Typed
<1>4. (setup \in Setups)' /\ (\A t \in CoderThreads : thread[t].pc \in {"absent", "start", "compare"})'
  BY <1>1, <1>2, BeginThreads DEF Typed
<1>5. (HoldInv /\ 0 \in Slots /\ SlotsAt(0, 0))'
  BY <1>3, <1>4, NoneHeld, PTL
<1> QED
  BY <1>5

\* The slot blockIndex is taken: there is one, as the semaphore says so.
LEMMA TakeLine ==
  ASSUME Typed, QuietInv, CallInv, SlotsInv, HoldInv, NEW t \in CoderThreads, TakeSlot(t)
  PROVE  /\ HoldInv'
         /\ \A f \in Slots, u \in 0 .. NumBlocksMax : SlotsAt(f, u) => u < NumBlocksMax /\ SlotsAt(f, u + 1)'
<1> USE DEF Behind
<1>1. thread[t].pc = "slot" /\ t < p.started /\ InCall /\ p.sem > 0 /\ p.sem \in Nat
  BY WorkFacts, CoderTaken DEF TakeSlot, Working, CoderFields
<1>2. CallerKept
  BY DEF TakeSlot, CallerKept
<1>3. CoderThreads' = CoderThreads /\ Slots' = Slots /\ NumBlocksMax' = NumBlocksMax
  BY <1>2, SizesKept DEF CallerKept
<1>4. PICK fin \in BOOLEAN, r \in Codes :
        /\ HasTaken(t, thread'[t], fin, r) /\ SlotTaken(fin)
        /\ \/ OthersKept(t)
           \/ /\ p.started \in CoderThreads /\ thread'[p.started] = Started(thread[p.started])
              /\ \A u \in CoderThreads : u # t /\ u # p.started => thread'[u] = thread[u]
  BY <1>1, TakeSlotStep
<1>5. /\ thread'[t].pc \in {"buffer", "publish"} /\ thread'[t].bi = p.blockIndex
      /\ p'.sem = p.sem - 1 /\ p'.blockIndex = After(p.blockIndex)
      /\ p'.writeIndex = p.writeIndex /\ p'.ready = p.ready
  BY <1>4 DEF HasTaken, SlotTaken, LinePart
<1>6. ASSUME NEW v \in CoderThreads, v # t
      PROVE  /\ Hold(v)' <=> Hold(v)
             /\ Writes(v)' <=> Writes(v)
             /\ Hold(v) => thread'[v].bi = thread[v].bi
             /\ thread'[v].pc = "release" <=> thread[v].pc = "release"
  <2>1. CASE thread'[v] = thread[v]
    BY <1>5, <2>1 DEF Hold, Writes
  <2>2. CASE v = p.started /\ thread'[v] = Started(thread[v])
    <3>1. thread[v].pc \in {"absent", "start"}
      BY <1>1, <2>2, OverFacts DEF CallInv
    <3>2. thread'[v].pc = "start"
      BY <2>2, <3>1, ThreadTaken DEF Started, ThreadRec
    <3> QED
      BY <3>1, <3>2 DEF Hold, Writes
  <2> QED
    BY <1>4, <1>6, <2>1, <2>2 DEF OthersKept
<1>7. Hold(t)' /\ ~Hold(t) /\ ~Writes(t) /\ ~Writes(t)' /\ thread'[t].pc # "release"
  BY <1>1, <1>5 DEF Hold, Writes
<1>8. Releasing' = Releasing
  BY <1>1, <1>3, <1>6, <1>7 DEF Releasing
<1>9. \A s \in Slots : InUse(s)' <=> InUse(s) \/ s = p.blockIndex
  BY <1>3, <1>5, <1>6, <1>7 DEF InUse
<1>10. ASSUME NEW f \in Slots, NEW u \in 0 .. NumBlocksMax, SlotsAt(f, u)
       PROVE  u < NumBlocksMax /\ SlotsAt(f, u + 1)' /\ ~InUse(p.blockIndex)
  <2>1. NumBlocksMax \in Nat /\ NumBlocksMax >= 2 /\ u \in Nat
    BY SizeFacts DEF Typed
  <2>2. Cardinality(Releasing) \in Nat
    BY ReleasingFacts
  <2>3. u < NumBlocksMax
    BY <1>1, <1>10, <2>1, <2>2 DEF SlotsAt
  <2>4. p.blockIndex = Behind(f, u) /\ p.blockIndex \in Slots
    BY <1>10, CoderTaken DEF SlotsAt, CoderFields
  <2>5. /\ After(p.blockIndex) = Behind(f, u + 1)
        /\ \A s \in Slots : Off(f, s) = u <=> s = p.blockIndex
    BY <2>3, <2>4, BehindFacts DEF Typed
  <2>6. \A s \in Slots : Off(f, s) \in 0 .. NumBlocksMax - 1
    BY OffFacts DEF Typed
  <2>7. \A s \in Slots : Off(f, s) < u + 1 <=> InUse(s)'
    BY <1>9, <1>10, <2>1, <2>5, <2>6 DEF SlotsAt
  <2>8. ~InUse(p.blockIndex)
    BY <1>10, <2>1, <2>4, <2>5 DEF SlotsAt
  <2>9. \A s \in Slots : Off(f, s)' = Off(f, s)
    BY <1>3 DEF Off
  <2>10. (u + 1) + p'.sem + Cardinality(Releasing') = NumBlocksMax
    BY <1>1, <1>5, <1>8, <1>10, <2>1, <2>2 DEF SlotsAt
  <2>11. \A v \in CoderThreads : Writes(v)' => thread'[v].bi = f
    BY <1>6, <1>7, <1>10 DEF SlotsAt, Hold
  <2>12. p'.writeIndex # None => p'.writeIndex = f
    BY <1>5, <1>10 DEF SlotsAt
  <2> QED
    BY <1>3, <1>5, <2>3, <2>5, <2>7, <2>8, <2>9, <2>10, <2>11, <2>12 DEF SlotsAt
<1>11. ~InUse(p.blockIndex) /\ p.blockIndex \in Slots
  BY <1>10, CoderTaken DEF SlotsInv, CoderFields
<1>12. \A v \in CoderThreads : Hold(v) => thread[v].bi # p.blockIndex
  BY <1>11 DEF InUse
<1>13. ~p.ready[p.blockIndex]
  BY <1>11 DEF InUse
<1>14. HoldInv'
  <2>1. \A v, w \in CoderThreads : Hold(v)' /\ Hold(w)' /\ thread'[v].bi = thread'[w].bi => v = w
    BY <1>5, <1>6, <1>12 DEF HoldInv
  <2>2. \A v \in CoderThreads : Hold(v)' => ~p'.ready[thread'[v].bi]
    BY <1>5, <1>6, <1>13 DEF HoldInv
  <2>3. \A v, w \in CoderThreads : Writes(v)' /\ Writes(w)' => v = w
    BY <1>6, <1>7 DEF HoldInv
  <2>4. p'.writeIndex = None <=> \E v \in CoderThreads : Writes(v)'
    BY <1>5, <1>6, <1>7 DEF HoldInv
  <2> QED
    BY <1>3, <1>5, <2>1, <2>2, <2>3, <2>4 DEF HoldInv
<1> QED
  BY <1>10, <1>14

\* A finished block keeps its slot.
LEMMA PublishLine ==
  ASSUME Typed, SlotsInv, HoldInv, NEW t \in CoderThreads, PublishBlock(t)
  PROVE  /\ HoldInv'
         /\ \A f \in Slots, u \in 0 .. NumBlocksMax : SlotsAt(f, u) => SlotsAt(f, u)'
<1> DEFINE s0 == thread[t].bi
<1>1. /\ CallerKept /\ OthersKept(t) /\ thread[t].pc = "publish" /\ thread'[t].bi = s0
      /\ SlotPart(p') = SlotPart(p)
      /\ \A s \in Slots : s # s0 => p'.ready[s] = p.ready[s]
      /\ p.writeIndex = s0 => p'.writeIndex = None /\ p'.ready = p.ready /\ thread'[t].pc = "write"
      /\ p.writeIndex # s0 => /\ p'.writeIndex = p.writeIndex /\ p'.ready[s0]
                              /\ thread'[t].pc \in {"tail", "turn"}
  BY PublishStep DEF Leaves
<1>2. s0 \in Slots /\ p.writeIndex \in Slots \cup {None}
  BY ThreadTaken, CoderTaken DEF ThreadFields, CoderFields
<1> HIDE DEF s0
<1>3. CoderThreads' = CoderThreads /\ Slots' = Slots /\ NumBlocksMax' = NumBlocksMax
  BY <1>1, SizesKept DEF CallerKept
<1>4. p'.sem = p.sem /\ p'.blockIndex = p.blockIndex
  BY <1>1 DEF SlotPart
<1>5. \A v \in CoderThreads : v # t =>
        (Hold(v)' <=> Hold(v)) /\ (Writes(v)' <=> Writes(v)) /\ thread'[v] = thread[v]
  BY <1>1 DEF Hold, Writes, OthersKept
<1>6. Hold(t) /\ ~Writes(t) /\ thread[t].bi = s0
  BY <1>1 DEF Hold, Writes, s0
<1>7. thread'[t].pc # "release" /\ Releasing' = Releasing
  BY <1>1, <1>3, <1>5 DEF Releasing
<1>8. \A v \in CoderThreads : v # t /\ Hold(v) => thread[v].bi # s0
  BY <1>6 DEF HoldInv
<1>9. None \notin Slots
  BY SizeFacts DEF None, Slots, Typed
<1>10. CASE p.writeIndex = s0
  <2>1. \A v \in CoderThreads : ~Writes(v)
    BY <1>2, <1>9, <1>10 DEF HoldInv
  <2>2. Hold(t)' /\ Writes(t)' /\ p'.writeIndex = None /\ p'.ready = p.ready
    BY <1>1, <1>10 DEF Hold, Writes
  <2>3. HoldInv'
    <3>1. \A v, w \in CoderThreads : Hold(v)' /\ Hold(w)' /\ thread'[v].bi = thread'[w].bi => v = w
      BY <1>1, <1>5, <1>8 DEF HoldInv
    <3>2. \A v \in CoderThreads : Hold(v)' => ~p'.ready[thread'[v].bi]
      BY <1>1, <1>5, <1>6, <2>2 DEF HoldInv
    <3>3. \A v, w \in CoderThreads : Writes(v)' /\ Writes(w)' => v = w
      BY <1>5, <2>1
    <3> QED
      BY <1>3, <2>2, <3>1, <3>2, <3>3 DEF HoldInv
  <2>4. \A s \in Slots : InUse(s)' <=> InUse(s)
    BY <1>1, <1>3, <1>5, <1>6, <2>2 DEF InUse
  <2>5. ASSUME NEW f \in Slots, NEW u \in 0 .. NumBlocksMax, SlotsAt(f, u) PROVE SlotsAt(f, u)'
    <3>1. \A s \in Slots : Off(f, s)' = Off(f, s)
      BY <1>3 DEF Off
    <3>2. \A v \in CoderThreads : Writes(v)' => thread'[v].bi = f
      BY <1>1, <1>2, <1>5, <1>9, <1>10, <2>1, <2>5 DEF SlotsAt
    <3> QED
      BY <1>3, <1>4, <1>7, <2>2, <2>4, <2>5, <3>1, <3>2 DEF SlotsAt
  <2> QED
    BY <2>3, <2>5
<1>11. CASE p.writeIndex # s0
  <2>1. ~Hold(t)' /\ ~Writes(t)' /\ p'.ready[s0] /\ p'.writeIndex = p.writeIndex
    BY <1>1, <1>11 DEF Hold, Writes
  <2>3. HoldInv'
    <3>1. \A v, w \in CoderThreads : Hold(v)' /\ Hold(w)' /\ thread'[v].bi = thread'[w].bi => v = w
      BY <1>5, <2>1 DEF HoldInv
    <3>2. ASSUME NEW v \in CoderThreads, Hold(v)' PROVE ~p'.ready[thread'[v].bi]
      <4>1. v # t /\ Hold(v) /\ thread'[v] = thread[v]
        BY <1>5, <2>1, <3>2
      <4>2. thread[v].bi # s0 /\ thread[v].bi \in Slots
        BY <1>8, <4>1, ThreadTaken DEF ThreadFields
      <4> QED
        BY <1>1, <4>1, <4>2 DEF HoldInv
    <3>3. \A v, w \in CoderThreads : Writes(v)' /\ Writes(w)' => v = w
      BY <1>5, <2>1 DEF HoldInv
    <3>4. p'.writeIndex = None <=> \E v \in CoderThreads : Writes(v)'
      BY <1>5, <1>6, <2>1 DEF HoldInv
    <3>5. p'.writeIndex # None => ~p'.ready[p'.writeIndex]
      BY <1>1, <1>2, <1>11, <2>1 DEF HoldInv
    <3> QED
      BY <1>3, <3>1, <3>2, <3>3, <3>4, <3>5 DEF HoldInv
  <2>4. \A s \in Slots : InUse(s)' <=> InUse(s)
    <3> TAKE s \in Slots
    <3>1. CASE s = s0
      BY <1>6, <2>1, <3>1 DEF InUse
    <3>2. CASE s # s0
      BY <1>1, <1>3, <1>5, <1>6, <2>1, <3>2 DEF InUse
    <3> QED
      BY <3>1, <3>2
  <2>5. ASSUME NEW f \in Slots, NEW u \in 0 .. NumBlocksMax, SlotsAt(f, u) PROVE SlotsAt(f, u)'
    <3>1. \A s \in Slots : Off(f, s)' = Off(f, s)
      BY <1>3 DEF Off
    <3>2. \A v \in CoderThreads : Writes(v)' => thread'[v].bi = f
      BY <1>5, <2>1, <2>5 DEF SlotsAt
    <3> QED
      BY <1>3, <1>4, <1>7, <2>1, <2>4, <2>5, <3>1, <3>2 DEF SlotsAt
  <2> QED
    BY <2>3, <2>5
<1> QED
  BY <1>10, <1>11

\* The writer leaves its slot, which is no longer in use.
LEMMA AdvanceLine ==
  ASSUME Typed, SlotsInv, HoldInv, NEW t \in CoderThreads, Advance(t)
  PROVE  /\ HoldInv'
         /\ \A f \in Slots, u \in 0 .. NumBlocksMax : SlotsAt(f, u) =>
              u > 0 /\ f = thread[t].bi /\ SlotsAt(After(f), u - 1)'
<1> DEFINE s0 == thread[t].bi
           wi == After(s0)
<1>1. /\ CallerKept /\ OthersKept(t) /\ thread[t].pc = "advance" /\ thread'[t].pc = "release" /\ thread'[t].bi = wi
      /\ thread'[t].ready = p.ready[wi] /\ SlotPart(p') = SlotPart(p)
      /\ \A s \in Slots : s # wi => p'.ready[s] = p.ready[s]
      /\ ~p'.ready[wi] /\ p'.writeIndex = (IF p.ready[wi] THEN p.writeIndex ELSE wi)
  BY AdvanceStep
<1>2. s0 \in Slots /\ wi \in Slots /\ wi # s0 /\ p.writeIndex \in Slots \cup {None} /\ p.ready[wi] \in BOOLEAN
  <2>1. s0 \in Slots
    BY ThreadTaken DEF ThreadFields
  <2>2. wi \in Slots /\ wi # s0
    BY <2>1, AfterFacts, OffFacts DEF Typed
  <2> QED
    BY <2>1, <2>2, CoderTaken DEF CoderFields
<1>6. Hold(t) /\ Writes(t) /\ thread[t].bi = s0
  BY <1>1 DEF Hold, Writes
<1> HIDE DEF s0, wi
<1>3. CoderThreads' = CoderThreads /\ Slots' = Slots /\ NumBlocksMax' = NumBlocksMax
  BY <1>1, SizesKept DEF CallerKept
<1>4. p'.sem = p.sem /\ p'.blockIndex = p.blockIndex
  BY <1>1 DEF SlotPart
<1>5. \A v \in CoderThreads : v # t =>
        (Hold(v)' <=> Hold(v)) /\ (Writes(v)' <=> Writes(v)) /\ thread'[v] = thread[v]
  BY <1>1 DEF Hold, Writes, OthersKept
<1>7. \A v \in CoderThreads : v # t => ~Writes(v)
  BY <1>6 DEF HoldInv
<1>8. \A v \in CoderThreads : v # t /\ Hold(v) => thread[v].bi # s0
  BY <1>6 DEF HoldInv
<1>9. ~p.ready[s0] /\ p.writeIndex = None
  BY <1>6 DEF HoldInv
<1>10. None \notin Slots
  BY SizeFacts DEF None, Slots, Typed
<1>11. (Hold(t)' <=> p.ready[wi]) /\ (Writes(t)' <=> p.ready[wi])
  BY <1>1, <1>2 DEF Hold, Writes
<1>12. p.ready[wi] => \A v \in CoderThreads : Hold(v) => thread[v].bi # wi
  BY DEF HoldInv
<1>13. HoldInv'
  <2>1. \A v, w \in CoderThreads : Hold(v)' /\ Hold(w)' /\ thread'[v].bi = thread'[w].bi => v = w
    BY <1>1, <1>5, <1>11, <1>12 DEF HoldInv
  <2>2. ASSUME NEW v \in CoderThreads, Hold(v)' PROVE ~p'.ready[thread'[v].bi]
    <3>1. CASE v = t
      BY <1>1, <3>1
    <3>2. CASE v # t
      <4>1. Hold(v) /\ thread'[v] = thread[v] /\ thread[v].bi \in Slots
        BY <1>5, <2>2, <3>2, ThreadTaken DEF ThreadFields
      <4> QED
        BY <1>1, <4>1 DEF HoldInv
    <3> QED
      BY <3>1, <3>2
  <2>3. \A v, w \in CoderThreads : Writes(v)' /\ Writes(w)' => v = w
    BY <1>5, <1>7
  <2>4. p'.writeIndex = None <=> \E v \in CoderThreads : Writes(v)'
    BY <1>1, <1>2, <1>5, <1>7, <1>9, <1>10, <1>11
  <2>5. p'.writeIndex # None => ~p'.ready[p'.writeIndex]
    BY <1>1, <1>9
  <2> QED
    BY <1>3, <2>1, <2>2, <2>3, <2>4, <2>5 DEF HoldInv
<1>14. \A s \in Slots : InUse(s)' <=> InUse(s) /\ s # s0
  <2> TAKE s \in Slots
  <2>1. CASE s = s0
    BY <1>1, <1>2, <1>3, <1>5, <1>8, <1>9, <2>1 DEF InUse
  <2>2. CASE s = wi
    BY <1>1, <1>2, <1>3, <1>5, <1>6, <1>11, <2>2 DEF InUse
  <2>3. CASE s # s0 /\ s # wi
    BY <1>1, <1>3, <1>5, <1>6, <2>3 DEF InUse
  <2> QED
    BY <2>1, <2>2, <2>3
<1>15. Cardinality(Releasing') = Cardinality(Releasing) + 1
  <2>1. Releasing' = Releasing \cup {t} /\ t \notin Releasing
    BY <1>1, <1>3, <1>5 DEF Releasing
  <2> QED
    BY <2>1, ReleasingFacts, FS_AddElement
<1>16. ASSUME NEW f \in Slots, NEW u \in 0 .. NumBlocksMax, SlotsAt(f, u)
       PROVE  u > 0 /\ f = s0 /\ SlotsAt(After(f), u - 1)'
  <2>1. NumBlocksMax \in Nat /\ NumBlocksMax >= 2 /\ u \in Nat
    BY SizeFacts DEF Typed
  <2>2. f = s0 /\ After(f) = wi
    BY <1>6, <1>16 DEF SlotsAt, wi
  <2>3. InUse(s0)
    BY <1>6 DEF InUse
  <2>4. \A s \in Slots : /\ Off(s0, s) \in 0 .. NumBlocksMax - 1
                         /\ Off(wi, s) = IF s = s0 THEN NumBlocksMax - 1 ELSE Off(s0, s) - 1
                         /\ Off(s0, s) = 0 => s = s0
    BY <1>2, OffFacts DEF Typed, wi
  <2>5. u > 0
    BY <1>16, <1>2, <2>1, <2>2, <2>3, <2>4, OffFacts DEF SlotsAt, Typed
  <2>6. \A s \in Slots : Off(wi, s) < u - 1 <=> InUse(s)'
    BY <1>14, <1>16, <2>1, <2>2, <2>4, <2>5 DEF SlotsAt
  <2>7. After(f)' = wi /\ \A s \in Slots : Off(After(f), s)' = Off(wi, s)
    <3>1. After(f)' = After(f)
      BY <1>3 DEF After
    <3> QED
      BY <1>3, <2>2, <3>1 DEF Off
  <2>8. (u - 1) + p'.sem + Cardinality(Releasing') = NumBlocksMax
    <3>1. Cardinality(Releasing) \in Nat /\ p.sem \in Nat
      BY ReleasingFacts, CoderTaken DEF CoderFields
    <3> QED
      BY <1>4, <1>15, <1>16, <2>1, <3>1 DEF SlotsAt
  <2>9. \A v \in CoderThreads : Writes(v)' => thread'[v].bi = wi
    BY <1>1, <1>5, <1>7
  <2>10. p'.writeIndex # None => p'.writeIndex = wi
    BY <1>1, <1>9
  <2>11. p.blockIndex = Behind(wi, u - 1)
    BY <1>16, <2>2, <2>5, BehindFacts DEF SlotsAt, Typed, Behind
  <2>12. p.blockIndex = IF wi + (u - 1) >= NumBlocksMax THEN wi + (u - 1) - NumBlocksMax ELSE wi + (u - 1)
    BY <2>11 DEF Behind
  <2>13. SlotsAt(After(f), u - 1)'
    BY <1>3, <1>4, <2>6, <2>7, <2>8, <2>9, <2>10, <2>12 DEF SlotsAt
  <2> QED
    BY <2>2, <2>5, <2>13
<1> QED
  BY <1>13, <1>16 DEF s0

\* The semaphore takes up the slot that was left.
LEMMA ReleaseLine ==
  ASSUME Typed, SlotsInv, HoldInv, NEW t \in CoderThreads, ReleaseSlot(t)
  PROVE  /\ HoldInv'
         /\ \A f \in Slots, u \in 0 .. NumBlocksMax : SlotsAt(f, u) => SlotsAt(f, u)'
<1>1. /\ CallerKept /\ OthersKept(t) /\ thread[t].pc = "release" /\ thread'[t].bi = thread[t].bi
      /\ p'.sem = p.sem + 1 /\ p'.blockIndex = p.blockIndex /\ LinePart(p') = LinePart(p)
      /\ thread[t].ready => thread'[t].pc = "write"
      /\ ~thread[t].ready => thread'[t].pc \in {"tail", "turn"}
  BY ReleaseStep DEF Leaves
<1>3. CoderThreads' = CoderThreads /\ Slots' = Slots /\ NumBlocksMax' = NumBlocksMax
  BY <1>1, SizesKept DEF CallerKept
<1>4. p'.writeIndex = p.writeIndex /\ p'.ready = p.ready
  BY <1>1 DEF LinePart
<1>5. \A v \in CoderThreads : (Hold(v)' <=> Hold(v)) /\ (Writes(v)' <=> Writes(v)) /\ thread'[v].bi = thread[v].bi
  BY <1>1 DEF Hold, Writes, OthersKept
<1>6. Cardinality(Releasing') + 1 = Cardinality(Releasing) /\ Cardinality(Releasing) \in Nat
  <2>1. Releasing' = Releasing \ {t} /\ t \in Releasing
    <3>1. thread'[t].pc # "release"
      BY <1>1, ThreadTaken DEF ThreadFields
    <3> QED
      BY <1>1, <1>3, <3>1 DEF Releasing, OthersKept
  <2>2. Cardinality(Releasing \ {t}) = Cardinality(Releasing) - 1
    BY <2>1, ReleasingFacts, FS_RemoveElement
  <2> QED
    BY <2>1, <2>2, ReleasingFacts
<1>7. HoldInv'
  BY <1>3, <1>4, <1>5 DEF HoldInv
<1>8. \A s \in Slots : InUse(s)' <=> InUse(s)
  BY <1>3, <1>4, <1>5 DEF InUse
<1>9. ASSUME NEW f \in Slots, NEW u \in 0 .. NumBlocksMax, SlotsAt(f, u) PROVE SlotsAt(f, u)'
  <2>1. \A s \in Slots : Off(f, s)' = Off(f, s)
    BY <1>3 DEF Off
  <2>2. u + p'.sem + Cardinality(Releasing') = NumBlocksMax
    <3>1. p.sem \in Nat /\ u \in Nat /\ NumBlocksMax \in Nat
      BY CoderTaken, SizeFacts DEF CoderFields, Typed
    <3>2. Cardinality(Releasing') = Cardinality(Releasing) - 1
      <4>1. Cardinality(Releasing') \in Int
        <5>1. Releasing' \subseteq Releasing
          BY <1>1, <1>3 DEF Releasing, OthersKept
        <5> QED
          BY <5>1, ReleasingFacts, FS_Subset, FS_CardinalityType
      <4> QED
        BY <1>6, <4>1
    <3> QED
      BY <1>1, <1>6, <1>9, <3>1, <3>2 DEF SlotsAt
  <2> QED
    BY <1>1, <1>3, <1>4, <1>5, <1>8, <1>9, <2>1, <2>2 DEF SlotsAt
<1> QED
  BY <1>7, <1>9
-----------------------------------------------------------------------------
(* The buffers                                                             *)

\* Each slot has at most one buffer.
LEMMA OneBuffer ==
  ASSUME HoldInv, NEW s \in Slots, NEW b, NEW c, Has(s, b), Has(s, c)
  PROVE  b = c
<1>1. \A t \in CoderThreads : \A d : HasIn(t, s, d) => Hold(t) /\ thread[t].bi = s
  BY DEF HasIn, Hold, Writes
<1>2. CASE p.ready[s]
  <2>1. \A t \in CoderThreads : ~(Hold(t) /\ thread[t].bi = s)
    BY <1>2 DEF HoldInv
  <2> QED
    BY <1>1, <2>1 DEF Has
<1>3. CASE ~p.ready[s]
  <2>1. PICK t \in CoderThreads : HasIn(t, s, b)
    BY <1>3 DEF Has
  <2>2. PICK v \in CoderThreads : HasIn(v, s, c)
    BY <1>3 DEF Has
  <2>3. t = v
    BY <1>1, <2>1, <2>2 DEF HoldInv
  <2> QED
    BY <2>1, <2>2, <2>3 DEF HasIn
<1> QED
  BY <1>2, <1>3

\* A step that moves no buffer from one slot to another or to those that are free.
SameBuffers ==
  /\ setup' = setup /\ p'.free = p.free
  /\ \A s \in Slots, b \in Buffers : Has(s, b)' <=> Has(s, b)
  /\ \A t \in CoderThreads : thread'[t].buf # NumBlocksMax
  /\ \A s \in Slots : p'.blocks[s].buf # NumBlocksMax

\* Such a step keeps what the buffers are.
LEMMA SameBuffersKeep ==
  ASSUME Typed, BufferInv, SameBuffers
  PROVE  BufferInv'
<1>1. CoderThreads' = CoderThreads /\ Slots' = Slots /\ Buffers' = Buffers /\ NumBlocksMax' = NumBlocksMax
  BY SizesKept DEF SameBuffers
<1>2. \A i \in 1 .. Len(p.free) : p.free[i] \in Buffers
  BY CoderTaken DEF CoderFields
<1>3. ASSUME NEW i \in 1 .. Len(p.free), NEW s \in Slots
      PROVE  ~Has(s, p.free[i])'
  <2>1. PICK b \in Buffers : b = p.free[i]
    BY <1>2
  <2>2. ~Has(s, b)' /\ p'.free[i] = b
    BY <2>1 DEF BufferInv, SameBuffers
  <2> QED
    BY <2>2 DEF Has, HasIn
<1>4. \A b \in Buffers, r, s \in Slots : Has(r, b)' /\ Has(s, b)' => r = s
  BY DEF BufferInv, SameBuffers
<1>5. \A b \in Buffers : (\E i \in 1 .. Len(p'.free) : p'.free[i] = b) \/ (\E s \in Slots : Has(s, b)')
  BY DEF BufferInv, SameBuffers
<1> QED
  BY <1>1, <1>3, <1>4, <1>5 DEF BufferInv, SameBuffers

\* Such is a step after which every thread has the buffer that it had.
LEMMA SameHolders ==
  ASSUME Typed, BufferInv, setup' = setup, p'.free = p.free, p'.ready = p.ready, p'.blocks = p.blocks,
         \A t \in CoderThreads : /\ \A s \in Slots, b \in Buffers : HasIn(t, s, b)' <=> HasIn(t, s, b)
                                 /\ thread'[t].buf # NumBlocksMax
  PROVE  BufferInv'
<1>1. CoderThreads' = CoderThreads
  BY SizesKept
<1>2. \A s \in Slots, b \in Buffers : Has(s, b)' <=> Has(s, b)
  BY <1>1 DEF Has
<1>3. SameBuffers
  BY <1>2 DEF SameBuffers, BufferInv
<1> QED
  BY <1>3, SameBuffersKeep

\* The steps of a thread that move no buffer, or only its own.
LEMMA BuffersOfThreads ==
  ASSUME Typed, QuietInv, CallInv, ReaderInv, BufferInv, NEW t \in CoderThreads,
         Wake(t) \/ Turn(t) \/ Read(t) \/ TakeSlot(t) \/ Code(t) \/ Write(t) \/ ReleaseSlot(t) \/ Count(t) \/ Compare(t)
  PROVE  BufferInv'
<1>n. NumBlocksMax \in Nat /\ NumBlocksMax >= 2 /\ None # NumBlocksMax /\ None \notin Buffers
  BY SizeFacts DEF Typed, None, Buffers
<1>b. \A v \in CoderThreads : thread[v].buf # NumBlocksMax
  BY DEF BufferInv
<1>1. CASE Wake(t)
  <2>1. /\ setup' = setup /\ p' = p /\ OthersKept(t) /\ thread[t].pc = "start" /\ thread'[t].pc \in {"absent", "turn"}
        /\ thread'[t].buf \in {None, thread[t].buf}
    BY <1>1, WakeStep DEF CallerKept, Absent
  <2>2. \A s \in Slots, b \in Buffers : ~HasIn(t, s, b)' /\ ~HasIn(t, s, b)
    BY <2>1 DEF HasIn
  <2> QED
    BY <1>n, <1>b, <2>1, <2>2, SameHolders DEF OthersKept, HasIn
<1>2. CASE Turn(t) \/ Read(t)
  <2>1. /\ setup' = setup /\ OthersKept(t) /\ LinePart(p') = LinePart(p) /\ p'.free = p.free
        /\ thread[t].pc \in {"turn", "read"} /\ thread'[t].pc \in {"tail", "read", "slot"}
        /\ thread'[t].buf = thread[t].buf
    BY <1>2, TurnStep, ReadStep DEF CallerKept, ReaderInv
  <2>2. \A s \in Slots, b \in Buffers : ~HasIn(t, s, b)' /\ ~HasIn(t, s, b)
    BY <2>1 DEF HasIn
  <2>3. p'.ready = p.ready /\ p'.blocks = p.blocks
    BY <2>1 DEF LinePart
  <2>4. \A v \in CoderThreads : v # t => \A s \in Slots, b \in Buffers : HasIn(v, s, b)' <=> HasIn(v, s, b)
    BY <2>1, <2>3 DEF OthersKept, HasIn
  <2> QED
    BY <1>b, <2>1, <2>2, <2>3, <2>4, SameHolders DEF OthersKept
<1>3. CASE TakeSlot(t)
  <2>1. thread[t].pc = "slot" /\ t < p.started /\ InCall /\ setup' = setup
    BY <1>3, WorkFacts DEF TakeSlot, Working
  <2>2. PICK fin \in BOOLEAN, r \in Codes :
          /\ HasTaken(t, thread'[t], fin, r) /\ SlotTaken(fin)
          /\ \/ OthersKept(t)
             \/ /\ p.started \in CoderThreads /\ thread'[p.started] = Started(thread[p.started])
                /\ \A u \in CoderThreads : u # t /\ u # p.started => thread'[u] = thread[u]
    BY <1>3, <2>1, TakeSlotStep
  <2>3. /\ thread'[t].pc \in {"buffer", "publish"} /\ thread'[t].buf = None
        /\ p'.free = p.free /\ p'.ready = p.ready /\ p'.blocks = p.blocks
    BY <2>2 DEF HasTaken, SlotTaken, LinePart
  <2>4. \A s \in Slots, b \in Buffers : ~HasIn(t, s, b)' /\ ~HasIn(t, s, b)
    BY <1>n, <2>1, <2>3 DEF HasIn
  <2>5. ASSUME NEW v \in CoderThreads, v # t
        PROVE  /\ \A s \in Slots, b \in Buffers : HasIn(v, s, b)' <=> HasIn(v, s, b)
               /\ thread'[v].buf = thread[v].buf
    <3>1. CASE thread'[v] = thread[v]
      BY <2>3, <3>1 DEF HasIn
    <3>2. CASE v = p.started /\ thread'[v] = Started(thread[v])
      <4>1. thread[v].pc \in {"absent", "start"}
        BY <2>1, <3>2, OverFacts DEF CallInv
      <4>2. thread'[v].pc = "start" /\ thread'[v].buf = thread[v].buf
        BY <3>2, <4>1, ThreadTaken DEF Started, ThreadRec
      <4> QED
        BY <4>1, <4>2 DEF HasIn
    <3> QED
      BY <2>2, <2>5, <3>1, <3>2 DEF OthersKept
  <2> QED
    BY <1>n, <1>b, <2>1, <2>3, <2>4, <2>5, SameHolders
<1>4. CASE Code(t) \/ Write(t)
  <2>1. /\ setup' = setup /\ OthersKept(t) /\ LinePart(p') = LinePart(p) /\ p'.free = p.free
        /\ thread[t].pc \in {"code", "write"} /\ thread'[t].pc \in {"publish", "advance"}
        /\ thread'[t].buf = thread[t].buf /\ thread'[t].bi = thread[t].bi
    BY <1>4, CodeStep, WriteStep DEF CallerKept
  <2>3. p'.ready = p.ready /\ p'.blocks = p.blocks
    BY <2>1 DEF LinePart
  <2>4. \A v \in CoderThreads : \A s \in Slots, b \in Buffers : HasIn(v, s, b)' <=> HasIn(v, s, b)
    BY <2>1, <2>3 DEF OthersKept, HasIn
  <2> QED
    BY <1>b, <2>1, <2>3, <2>4, SameHolders DEF OthersKept
<1>5. CASE ReleaseSlot(t)
  <2>1. /\ setup' = setup /\ OthersKept(t) /\ LinePart(p') = LinePart(p) /\ p'.free = p.free
        /\ thread[t].pc = "release" /\ thread'[t].bi = thread[t].bi
        /\ thread[t].ready => thread'[t].pc = "write" /\ thread'[t].buf = p.blocks[thread[t].bi].buf
        /\ ~thread[t].ready => thread'[t].pc \in {"tail", "turn"} /\ thread'[t].buf = thread[t].buf
    BY <1>5, ReleaseStep DEF CallerKept, Leaves
  <2>3. p'.ready = p.ready /\ p'.blocks = p.blocks
    BY <2>1 DEF LinePart
  <2>4. \A v \in CoderThreads : \A s \in Slots, b \in Buffers : HasIn(v, s, b)' <=> HasIn(v, s, b)
    BY <2>1, <2>3 DEF OthersKept, HasIn
  <2>5. thread'[t].buf # NumBlocksMax
    <3>1. thread[t].bi \in Slots
      BY ThreadTaken DEF ThreadFields
    <3> QED
      BY <2>1, <3>1 DEF BufferInv
  <2> QED
    BY <1>b, <2>1, <2>3, <2>4, <2>5, SameHolders DEF OthersKept
<1>6. CASE Count(t) \/ Compare(t)
  <2>1. /\ setup' = setup /\ OthersKept(t) /\ LinePart(p') = LinePart(p) /\ p'.free = p.free
        /\ thread[t].pc \in {"tail", "compare"} /\ thread'[t].pc \in {"compare", "start"}
        /\ thread'[t].buf \in {None, thread[t].buf}
    BY <1>6, CountStep, CompareStep DEF CallerKept
  <2>3. p'.ready = p.ready /\ p'.blocks = p.blocks
    BY <2>1 DEF LinePart
  <2>4. \A v \in CoderThreads : \A s \in Slots, b \in Buffers : HasIn(v, s, b)' <=> HasIn(v, s, b)
    BY <2>1, <2>3 DEF OthersKept, HasIn
  <2> QED
    BY <1>n, <1>b, <2>1, <2>3, <2>4, SameHolders DEF OthersKept
<1> QED
  BY <1>1, <1>2, <1>3, <1>4, <1>5, <1>6

\* A block that is entered keeps its buffer.
LEMMA BuffersOfPublish ==
  ASSUME Typed, HoldInv, BufferInv, NEW t \in CoderThreads, PublishBlock(t)
  PROVE  BufferInv'
<1>0. PICK s0 \in Slots : s0 = thread[t].bi
  BY ThreadTaken DEF ThreadFields
<1>1. /\ CallerKept /\ OthersKept(t) /\ thread[t].pc = "publish" /\ thread'[t].bi = s0 /\ thread'[t].buf = thread[t].buf
      /\ p'.free = p.free /\ p'.blocks[s0] = Entered(t)
      /\ \A s \in Slots : s # s0 => p'.blocks[s] = p.blocks[s] /\ p'.ready[s] = p.ready[s]
      /\ p.writeIndex = s0 => p'.ready = p.ready /\ thread'[t].pc = "write"
      /\ p.writeIndex # s0 => p'.ready[s0] /\ thread'[t].pc \in {"tail", "turn"}
  BY <1>0, PublishStep DEF Leaves
<1>2. Entered(t).buf = thread[t].buf
  BY DEF Entered
<1>3. CoderThreads' = CoderThreads
  BY <1>1, SizesKept DEF CallerKept
<1>4. Hold(t) /\ thread[t].bi = s0
  BY <1>0, <1>1 DEF Hold
<1>5. \A v \in CoderThreads : v # t /\ Hold(v) => thread[v].bi # s0
  BY <1>4 DEF HoldInv
<1>6. \A v \in CoderThreads : \A b : v # t => ~HasIn(v, s0, b)
  BY <1>5 DEF HasIn, Hold, Writes
<1>7. ~p.ready[s0]
  BY <1>4 DEF HoldInv
<1>8. \A b \in Buffers : Has(s0, b) <=> thread[t].buf = b
  BY <1>1, <1>4, <1>6, <1>7 DEF Has, HasIn
<1>9. \A v \in CoderThreads, b \in Buffers : v # t => ~HasIn(v, s0, b)'
  <2>1. \A v \in CoderThreads : v # t => thread'[v] = thread[v]
    BY <1>1 DEF OthersKept
  <2> QED
    BY <1>5, <2>1 DEF HasIn, Hold, Writes
<1>10. \A b \in Buffers : Has(s0, b)' <=> thread[t].buf = b
  <2>1. CASE p.writeIndex = s0
    BY <1>1, <1>3, <1>7, <1>9, <2>1 DEF Has, HasIn
  <2>2. CASE p.writeIndex # s0
    <3>1. \A b \in Buffers : ~HasIn(t, s0, b)'
      BY <1>1, <2>2 DEF HasIn
    <3> QED
      BY <1>1, <1>2, <1>3, <1>9, <2>2, <3>1 DEF Has
  <2> QED
    BY <2>1, <2>2
<1>11. ASSUME NEW s \in Slots, NEW b \in Buffers, s # s0 PROVE Has(s, b)' <=> Has(s, b)
  <2>1. \A v \in CoderThreads : HasIn(v, s, b)' <=> HasIn(v, s, b)
    <3> TAKE v \in CoderThreads
    <3>1. CASE v = t
      BY <1>1, <1>4, <1>11, <3>1 DEF HasIn
    <3>2. CASE v # t
      BY <1>1, <1>11, <3>2 DEF HasIn, OthersKept
    <3> QED
      BY <3>1, <3>2
  <2> QED
    BY <1>1, <1>3, <1>11, <2>1 DEF Has
<1>12. SameBuffers
  <2>1. \A s \in Slots, b \in Buffers : Has(s, b)' <=> Has(s, b)
    BY <1>8, <1>10, <1>11
  <2>2. \A v \in CoderThreads : thread'[v].buf # NumBlocksMax
    BY <1>1 DEF BufferInv, OthersKept
  <2>3. \A s \in Slots : p'.blocks[s].buf # NumBlocksMax
    BY <1>1, <1>2 DEF BufferInv
  <2> QED
    BY <1>1, <2>1, <2>2, <2>3 DEF SameBuffers, CallerKept
<1> QED
  BY <1>12, SameBuffersKeep

\* A thread that wants a buffer never gets the last one: each of the others would
\* be in a slot of its own, none of which is the slot of this thread.
LEMMA TwoAreFree ==
  ASSUME Typed, HoldInv, BufferInv, NEW t \in CoderThreads, thread[t].pc = "buffer"
  PROVE  /\ Len(p.free) \in Nat /\ Len(p.free) >= 2
         /\ \A b : ~Has(thread[t].bi, b)
<1> DEFINE s0 == thread[t].bi
           N == NumBlocksMax
           g == [b \in 0 .. N - 1 |-> CHOOSE s \in Slots : Has(s, b)]
<1>1. N \in Nat /\ N >= 2 /\ s0 \in Slots /\ p.free \in Seq(Buffers) /\ Len(p.free) \in Nat /\ BlocksMax = N + 1
  BY SizeFacts, CoderTaken, ThreadTaken DEF Typed, CoderFields, ThreadFields
<1>2. Hold(t)
  BY DEF Hold
<1>3. \A v \in CoderThreads : \A b : HasIn(v, s0, b) => Hold(v) /\ thread[v].bi = s0
  BY DEF HasIn, Hold, Writes
<1>4. \A b : ~Has(s0, b)
  <2>1. ~p.ready[s0]
    BY <1>2 DEF HoldInv
  <2>2. \A b : ~HasIn(t, s0, b)
    BY DEF HasIn
  <2>3. \A v \in CoderThreads : \A b : ~HasIn(v, s0, b)
    BY <1>2, <1>3, <2>2 DEF HoldInv
  <2> QED
    BY <2>1, <2>3 DEF Has
<1>5. ASSUME Len(p.free) < 2 PROVE FALSE
  <2>0. Len(p.free) # 0 /\ p.free[Len(p.free)] = N
    BY <1>1 DEF BufferInv
  <2>a. Len(p.free) = 1
    <3>1. PICK n \in Nat : n = Len(p.free)
      BY <1>1
    <3>2. n < 2 /\ n # 0
      BY <1>5, <2>0, <3>1
    <3>3. n = 1
      BY <3>2
    <3> QED
      BY <3>1, <3>3, Zenon
  <2>1. Len(p.free) = 1 /\ p.free[1] = N
    BY <2>0, <2>a
  <2>2. ASSUME NEW b \in 0 .. N - 1 PROVE \E s \in Slots : Has(s, b)
    <3>1. b \in Buffers
      BY <1>1 DEF Buffers
    <3>2. ~ \E i \in 1 .. Len(p.free) : p.free[i] = b
      BY <1>1, <2>1
    <3> QED
      BY <3>1, <3>2 DEF BufferInv
  <2>3. \A b \in 0 .. N - 1 : g[b] \in Slots \ {s0} /\ Has(g[b], b)
    <3> TAKE b \in 0 .. N - 1
    <3>1. g[b] \in Slots /\ Has(g[b], b)
      BY <2>2
    <3> QED
      BY <1>4, <3>1
  <2> HIDE DEF g
  <2>4. g \in [0 .. N - 1 -> Slots \ {s0}]
    BY <2>3 DEF g
  <2>5. IsFiniteSet(0 .. N - 1) /\ Cardinality(0 .. N - 1) = N
    BY <1>1, BelowFacts
  <2>6. IsFiniteSet(Slots) /\ Cardinality(Slots) = N
    BY <1>1, BelowFacts DEF Slots
  <2>7. IsFiniteSet(Slots \ {s0}) /\ Cardinality(Slots \ {s0}) = N - 1
    BY <1>1, <2>6, FS_RemoveElement
  <2>8. Cardinality(Slots \ {s0}) < Cardinality(0 .. N - 1)
    BY <1>1, <2>5, <2>7
  <2>e. PICK S, T : S = 0 .. N - 1 /\ T = Slots \ {s0}
    OBVIOUS
  <2>f. /\ IsFiniteSet(S) /\ IsFiniteSet(T) /\ Cardinality(T) < Cardinality(S) /\ g \in [S -> T]
    BY <2>4, <2>5, <2>7, <2>8, <2>e
  <2>g. \E x, y \in S : x # y /\ g[x] = g[y]
    BY <2>f, FS_PigeonHole
  <2>9. PICK b, c \in 0 .. N - 1 : b # c /\ g[b] = g[c]
    BY <2>e, <2>g
  <2>10. g[b] \in Slots /\ Has(g[b], b) /\ Has(g[b], c)
    BY <2>3, <2>9
  <2> QED
    BY <2>9, <2>10, OneBuffer
<1> QED
  BY <1>1, <1>4, <1>5

\* The block gets a buffer that nobody has.
LEMMA BuffersOfBuffer ==
  ASSUME Typed, HoldInv, BufferInv, NEW t \in CoderThreads, Buffer(t)
  PROVE  BufferInv'
<1> DEFINE s0 == thread[t].bi
           b0 == Head(p.free)
<1>1. /\ CallerKept /\ OthersKept(t) /\ thread[t].pc = "buffer" /\ thread'[t].pc = "code" /\ thread'[t].bi = s0
      /\ thread'[t].buf = b0 /\ b0 \in Buffers /\ p'.free = Tail(p.free) /\ LinePart(p') = LinePart(p)
  BY BufferStep DEF BufferInv
<1>2. s0 \in Slots /\ p.free \in Seq(Buffers) /\ Len(p.free) \in Nat /\ Len(p.free) >= 2 /\ \A b : ~Has(s0, b)
  BY <1>1, TwoAreFree, ThreadTaken, CoderTaken DEF ThreadFields, CoderFields
<1>3. b0 = p.free[1]
  BY <1>2
<1> HIDE DEF s0, b0
<1>4. CoderThreads' = CoderThreads /\ Slots' = Slots /\ Buffers' = Buffers /\ NumBlocksMax' = NumBlocksMax
  BY <1>1, SizesKept DEF CallerKept
<1>5. p'.ready = p.ready /\ p'.blocks = p.blocks
  BY <1>1 DEF LinePart
<1>6. \A s \in Slots, b \in Buffers : Has(s, b)' <=> Has(s, b) \/ (s = s0 /\ b = b0)
  <2>1. \A v \in CoderThreads, s \in Slots, b \in Buffers : v # t => (HasIn(v, s, b)' <=> HasIn(v, s, b))
    BY <1>1, <1>5 DEF HasIn, OthersKept
  <2>2. \A s \in Slots, b \in Buffers : ~HasIn(t, s, b) /\ (HasIn(t, s, b)' <=> s = s0 /\ b = b0)
    BY <1>1 DEF HasIn
  <2> QED
    BY <1>4, <1>5, <2>1, <2>2 DEF Has
<1>7. Len(p'.free) = Len(p.free) - 1 /\ \A i \in 1 .. Len(p'.free) : p'.free[i] = p.free[i + 1]
  BY <1>1, <1>2
<1>8. \A i \in 1 .. Len(p'.free) : i + 1 \in 1 .. Len(p.free) /\ p'.free[i] # b0
  BY <1>2, <1>3, <1>7 DEF BufferInv
<1>9. \A s \in Slots : ~Has(s, b0)
  BY <1>2, <1>3 DEF BufferInv
<1>10. \A i, j \in 1 .. Len(p'.free) : p'.free[i] = p'.free[j] => i = j
  <2> TAKE i, j \in 1 .. Len(p'.free)
  <2>1. i + 1 \in 1 .. Len(p.free) /\ j + 1 \in 1 .. Len(p.free) /\ p'.free[i] = p.free[i + 1] /\ p'.free[j] = p.free[j + 1]
    BY <1>7, <1>8
  <2>2. p.free[i + 1] = p.free[j + 1] => i + 1 = j + 1
    BY <2>1 DEF BufferInv
  <2> QED
    BY <1>2, <1>7, <2>1, <2>2
<1>11. ASSUME NEW i \in 1 .. Len(p'.free), NEW s \in Slots
       PROVE  \A b \in Buffers : b = p'.free[i] => ~Has(s, b)'
  BY <1>6, <1>7, <1>8 DEF BufferInv
<1>12. (\A i \in 1 .. Len(p.free), s \in Slots : ~Has(s, p.free[i]))'
  <2>1. \A i \in 1 .. Len(p'.free) : p'.free[i] \in Buffers
    BY <1>2, <1>7, <1>8
  <2> QED
    BY <1>4, <1>11, <2>1 DEF Has, HasIn
<1>13. \A b \in Buffers, r, s \in Slots : Has(r, b)' /\ Has(s, b)' => r = s
  BY <1>6, <1>9 DEF BufferInv
<1>14. ASSUME NEW b \in Buffers
       PROVE  (\E i \in 1 .. Len(p'.free) : p'.free[i] = b) \/ (\E s \in Slots : Has(s, b)')
  <2>1. CASE \E s \in Slots : Has(s, b)
    BY <1>6, <2>1
  <2>2. CASE b = b0
    BY <1>2, <1>6, <2>2
  <2>3. ASSUME NEW i \in 1 .. Len(p.free), p.free[i] = b, b # b0
        PROVE  \E j \in 1 .. Len(p'.free) : p'.free[j] = b
    <3>1. i # 1
      BY <1>3, <2>3
    <3>2. i - 1 \in 1 .. Len(p'.free)
      BY <1>2, <1>7, <3>1
    <3>3. p'.free[i - 1] = b
      BY <1>7, <2>3, <3>2
    <3> QED
      BY <3>2, <3>3
  <2> QED
    BY <2>1, <2>2, <2>3 DEF BufferInv
<1>15. p'.free # <<>> /\ p'.free[Len(p'.free)] = NumBlocksMax
  <2>1. Len(p'.free) \in 1 .. Len(p'.free)
    BY <1>2, <1>7
  <2>2. p'.free[Len(p'.free)] = p.free[Len(p.free)]
    BY <1>2, <1>7, <2>1
  <2> QED
    BY <2>1, <2>2 DEF BufferInv
<1>16. b0 # NumBlocksMax
  <2>1. 1 \in 1 .. Len(p.free) /\ Len(p.free) \in 1 .. Len(p.free)
    BY <1>2
  <2> QED
    BY <1>2, <1>3, <2>1 DEF BufferInv
<1>17. \A v \in CoderThreads : thread'[v].buf # NumBlocksMax
  BY <1>1, <1>16 DEF BufferInv, OthersKept
<1> QED
  BY <1>4, <1>5, <1>10, <1>12, <1>13, <1>14, <1>15, <1>17 DEF BufferInv

\* The writer gives back what its slot has.
LEMMA BuffersOfAdvance ==
  ASSUME Typed, HoldInv, BufferInv, NEW t \in CoderThreads, Advance(t)
  PROVE  BufferInv'
<1>0. PICK s0 \in Slots : s0 = thread[t].bi
  BY ThreadTaken DEF ThreadFields
<1>w. PICK wi \in Slots : wi = After(s0) /\ wi # s0
  BY AfterFacts, OffFacts DEF Typed
<1>b. PICK b0 \in Buffers \cup {None} : b0 = thread[t].buf
  BY ThreadTaken DEF ThreadFields
<1>1. /\ CallerKept /\ OthersKept(t) /\ thread[t].pc = "advance" /\ thread'[t].pc = "release" /\ thread'[t].bi = wi
      /\ thread'[t].buf = b0 /\ thread'[t].ready = p.ready[wi] /\ p'.blocks = p.blocks
      /\ p'.free = (IF b0 = None THEN p.free ELSE <<b0>> \o p.free)
      /\ \A s \in Slots : s # wi => p'.ready[s] = p.ready[s]
      /\ ~p'.ready[wi]
  BY <1>0, <1>w, <1>b, AdvanceStep
<1>2. Hold(t) /\ thread[t].bi = s0
  BY <1>0, <1>1 DEF Hold, Writes
<1>3. CoderThreads' = CoderThreads /\ Slots' = Slots /\ Buffers' = Buffers /\ NumBlocksMax' = NumBlocksMax
  BY <1>1, SizesKept DEF CallerKept
<1>4. \A v \in CoderThreads : v # t /\ Hold(v) => thread[v].bi # s0
  BY <1>2 DEF HoldInv
<1>5. ~p.ready[s0] /\ p.ready[wi] \in BOOLEAN
  BY <1>2, CoderTaken DEF HoldInv, CoderFields
<1>6. \A v \in CoderThreads : \A b : v # t => ~HasIn(v, s0, b)
  BY <1>4 DEF HasIn, Hold, Writes
<1>7. \A b \in Buffers : Has(s0, b) <=> b = b0
  BY <1>1, <1>2, <1>b, <1>5, <1>6 DEF Has, HasIn
<1>8. \A v \in CoderThreads, s \in Slots, b \in Buffers : v # t => (HasIn(v, s, b)' <=> HasIn(v, s, b))
  BY <1>1 DEF HasIn, OthersKept
<1>9. \A s \in Slots, b \in Buffers : HasIn(t, s, b)' <=> s = wi /\ p.ready[wi] /\ p.blocks[wi].buf = b
  BY <1>1, <1>5 DEF HasIn
<1>10. \A s \in Slots, b \in Buffers : HasIn(t, s, b) => s = s0
  BY <1>2 DEF HasIn
<1>11. ASSUME NEW s \in Slots, NEW b \in Buffers PROVE Has(s, b)' <=> Has(s, b) /\ s # s0
  <2>1. CASE s = s0
    BY <1>1, <1>w, <1>3, <1>5, <1>6, <1>8, <1>9, <2>1 DEF Has
  <2>2. CASE s = wi
    BY <1>1, <1>w, <1>3, <1>8, <1>9, <1>10, <2>2 DEF Has
  <2>3. CASE s # s0 /\ s # wi
    BY <1>1, <1>3, <1>8, <1>9, <1>10, <2>3 DEF Has
  <2> QED
    BY <2>1, <2>2, <2>3
<1>12. (\A v \in CoderThreads : thread'[v].buf # NumBlocksMax) /\ (\A s \in Slots : p'.blocks[s].buf # NumBlocksMax)
  BY <1>1, <1>b DEF BufferInv, OthersKept
<1>13. CASE b0 = None
  <2>1. b0 \notin Buffers
    BY <1>13, SizeFacts DEF None, Buffers, Typed
  <2>2. \A b \in Buffers : ~Has(s0, b)
    BY <1>7, <2>1
  <2>3. SameBuffers
    BY <1>1, <1>11, <1>12, <1>13, <2>2 DEF SameBuffers, CallerKept
  <2> QED
    BY <2>3, SameBuffersKeep
<1>14. CASE b0 # None
  <2>1. b0 \in Buffers /\ p.free \in Seq(Buffers) /\ Len(p.free) \in Nat /\ p'.free = <<b0>> \o p.free
    BY <1>b, <1>1, <1>14, CoderTaken DEF CoderFields
  <2>2. /\ Len(p'.free) = Len(p.free) + 1 /\ p'.free[1] = b0
        /\ \A i \in 1 .. Len(p.free) : p'.free[i + 1] = p.free[i]
    BY <2>1
  <2>3. ASSUME NEW i \in 1 .. Len(p'.free)
        PROVE  \/ i = 1 /\ p'.free[i] = b0
               \/ i - 1 \in 1 .. Len(p.free) /\ p'.free[i] = p.free[i - 1] /\ p'.free[i] \in Buffers /\ p'.free[i] # b0
    <3>1. CASE i = 1
      BY <2>2, <3>1
    <3>2. CASE i # 1
      <4>1. i - 1 \in 1 .. Len(p.free)
        BY <2>1, <2>2, <3>2
      <4>2. p'.free[i] = p.free[i - 1]
        BY <2>2, <4>1
      <4>3. p.free[i - 1] # b0
        <5>1. Has(s0, b0)
          BY <1>7, <2>1
        <5> QED
          BY <4>1, <5>1 DEF BufferInv
      <4> QED
        BY <2>1, <4>1, <4>2, <4>3
    <3> QED
      BY <3>1, <3>2
  <2>4. \A i, j \in 1 .. Len(p'.free) : p'.free[i] = p'.free[j] => i = j
    <3> TAKE i, j \in 1 .. Len(p'.free)
    <3>1. CASE i = 1 \/ j = 1
      BY <2>3, <3>1
    <3>2. CASE i # 1 /\ j # 1
      <4>1. /\ i - 1 \in 1 .. Len(p.free) /\ p'.free[i] = p.free[i - 1]
            /\ j - 1 \in 1 .. Len(p.free) /\ p'.free[j] = p.free[j - 1]
        BY <2>3, <3>2
      <4>2. p.free[i - 1] = p.free[j - 1] => i - 1 = j - 1
        BY <4>1 DEF BufferInv
      <4> QED
        BY <2>1, <2>2, <4>1, <4>2
    <3> QED
      BY <3>1, <3>2
  <2>5. ASSUME NEW i \in 1 .. Len(p'.free), NEW s \in Slots
        PROVE  \A b \in Buffers : b = p'.free[i] => ~Has(s, b)'
    <3>1. CASE p'.free[i] = b0
      BY <1>7, <1>11, <2>1, <3>1 DEF BufferInv
    <3>2. CASE i - 1 \in 1 .. Len(p.free) /\ p'.free[i] = p.free[i - 1]
      BY <1>11, <3>2 DEF BufferInv
    <3> QED
      BY <2>3, <3>1, <3>2
  <2>6. (\A i \in 1 .. Len(p.free), s \in Slots : ~Has(s, p.free[i]))'
    <3>1. \A i \in 1 .. Len(p'.free) : p'.free[i] \in Buffers
      BY <2>1, <2>3
    <3> QED
      BY <1>3, <2>5, <3>1 DEF Has, HasIn
  <2>7. \A b \in Buffers, r, s \in Slots : Has(r, b)' /\ Has(s, b)' => r = s
    BY <1>11 DEF BufferInv
  <2>8. ASSUME NEW b \in Buffers
        PROVE  (\E i \in 1 .. Len(p'.free) : p'.free[i] = b) \/ (\E s \in Slots : Has(s, b)')
    <3>1. CASE b = b0
      <4>1. 1 \in 1 .. Len(p'.free)
        BY <2>1, <2>2
      <4> QED
        BY <2>2, <3>1, <4>1
    <3>2. ASSUME b # b0, NEW s \in Slots, Has(s, b) PROVE Has(s, b)'
      BY <1>7, <1>11, <3>2
    <3>3. ASSUME NEW i \in 1 .. Len(p.free), p.free[i] = b PROVE \E j \in 1 .. Len(p'.free) : p'.free[j] = b
      <4>1. i + 1 \in 1 .. Len(p'.free)
        BY <2>1, <2>2
      <4> QED
        BY <2>2, <3>3, <4>1
    <3> QED
      BY <3>1, <3>2, <3>3 DEF BufferInv
  <2>9. p'.free # <<>> /\ p'.free[Len(p'.free)] = NumBlocksMax
    <3>1. p.free # <<>> /\ p.free[Len(p.free)] = NumBlocksMax
      BY DEF BufferInv
    <3>2. Len(p.free) \in 1 .. Len(p.free)
      BY <2>1, <3>1
    <3>3. p'.free[Len(p.free) + 1] = p.free[Len(p.free)]
      BY <2>2, <3>2
    <3>4. p'.free # <<>>
      BY <2>1
    <3> QED
      BY <2>2, <3>1, <3>3, <3>4
  <2> QED
    BY <1>3, <1>12, <2>4, <2>6, <2>7, <2>8, <2>9 DEF BufferInv
<1> QED
  BY <1>13, <1>14

\* When a call begins all buffers are free.
LEMMA AllFree ==
  ASSUME setup \in Setups, p.free = [i \in 1 .. BlocksMax |-> i - 1], \A s \in Slots : ~p.ready[s],
         \A s \in Slots : p.blocks[s].buf # NumBlocksMax,
         \A t \in CoderThreads : thread[t].pc \in {"absent", "start", "compare"} /\ thread[t].buf # NumBlocksMax
  PROVE  BufferInv
<1>1. NumBlocksMax \in Nat /\ BlocksMax = NumBlocksMax + 1
  BY SizeFacts
<1>2. Len(p.free) = NumBlocksMax + 1 /\ \A i \in 1 .. NumBlocksMax + 1 : p.free[i] = i - 1
  BY <1>1
<1>3. \A s \in Slots : \A b : ~Has(s, b)
  BY DEF Has, HasIn
<1>4. \A b \in Buffers : b + 1 \in 1 .. NumBlocksMax + 1 /\ p.free[b + 1] = b
  BY <1>1, <1>2 DEF Buffers
<1>5. p.free # <<>> /\ p.free[Len(p.free)] = NumBlocksMax
  <2>1. NumBlocksMax + 1 \in 1 .. NumBlocksMax + 1
    BY <1>1
  <2>2. p.free[NumBlocksMax + 1] = NumBlocksMax
    BY <1>1, <1>2, <2>1
  <2>3. p.free # <<>>
    BY <1>1, <1>2
  <2> QED
    BY <1>2, <2>2, <2>3
<1>6. \A i, j \in 1 .. Len(p.free) : p.free[i] = p.free[j] => i = j
  BY <1>1, <1>2
<1> QED
  BY <1>2, <1>3, <1>4, <1>5, <1>6 DEF BufferInv

\* The steps of the caller; a call begins with all buffers free.
LEMMA BuffersOfCaller ==
  ASSUME Typed, QuietInv, BufferInv,
         CodeBegin \/ CodeOpen \/ CodeEnd \/ Destruct \/ Freed \/ (\E t \in CoderThreads : StopThread(t))
           \/ UNCHANGED coderVars
  PROVE  BufferInv'
<1>1. CASE CodeBegin
  <2>1. setup' = setup /\ p' = Fresh
    BY <1>1 DEF CodeBegin
  <2>2. NumBlocksMax' = NumBlocksMax /\ BlocksMax' = BlocksMax /\ Slots' = Slots /\ CoderThreads' = CoderThreads
    BY <2>1, SizesKept
  <2>3. None # NumBlocksMax
    BY SizeFacts DEF None, Typed
  <2>4. /\ p'.free = [i \in 1 .. BlocksMax |-> i - 1] /\ \A s \in Slots : ~p'.ready[s]
        /\ \A s \in Slots : p'.blocks[s].buf # NumBlocksMax
    BY <2>1, <2>3 DEF Fresh
  <2>5. \A t \in CoderThreads : thread'[t].pc \in {"absent", "start", "compare"} /\ thread'[t].buf # NumBlocksMax
    BY <1>1, BeginThreads DEF BufferInv
  <2>6. (/\ setup \in Setups /\ p.free = [i \in 1 .. BlocksMax |-> i - 1] /\ \A s \in Slots : ~p.ready[s]
         /\ \A s \in Slots : p.blocks[s].buf # NumBlocksMax
         /\ \A t \in CoderThreads : thread[t].pc \in {"absent", "start", "compare"} /\ thread[t].buf # NumBlocksMax)'
    BY <2>1, <2>2, <2>4, <2>5 DEF Typed
  <2> QED
    BY <2>6, AllFree, PTL
<1>2. CASE CodeOpen \/ CodeEnd
  <2>1. setup' = setup /\ thread' = thread /\ LinePart(p') = LinePart(p) /\ p'.free = p.free
    BY <1>2 DEF CodeOpen, CodeEnd, Typed, CoderRec, LinePart
  <2>2. p'.ready = p.ready /\ p'.blocks = p.blocks
    BY <2>1 DEF LinePart
  <2> QED
    BY <2>1, <2>2, SameHolders DEF HasIn, BufferInv
<1>3. CASE Destruct \/ Freed \/ UNCHANGED coderVars
  <2>1. setup' = setup /\ thread' = thread /\ p' = p
    BY <1>3 DEF Destruct, Freed, coderVars
  <2> QED
    BY <2>1, SameHolders DEF HasIn, BufferInv
<1>4. ASSUME NEW t \in CoderThreads, StopThread(t)
      PROVE  BufferInv'
  <2>1. /\ thread' = [thread EXCEPT ![t] = [thread[t] EXCEPT !.stop = TRUE, !.start = TRUE]] /\ p' = p
        /\ setup' = setup
    BY <1>4 DEF StopThread
  <2>2. \A u \in CoderThreads : /\ thread'[u].pc = thread[u].pc /\ thread'[u].bi = thread[u].bi
                                /\ thread'[u].ready = thread[u].ready /\ thread'[u].buf = thread[u].buf
    BY <2>1, ThreadTaken DEF Typed, ThreadRec
  <2>3. \A v \in CoderThreads : \A s \in Slots, b \in Buffers : HasIn(v, s, b)' <=> HasIn(v, s, b)
    BY <2>1, <2>2 DEF HasIn
  <2> QED
    BY <2>1, <2>2, <2>3, SameHolders DEF BufferInv
<1> QED
  BY <1>1, <1>2, <1>3, <1>4
-----------------------------------------------------------------------------
(* The invariant of the control, and what follows from it                  *)

\* Initially, all of it holds.
LEMMA InitControl == CoderInit => ControlInv
<1> SUFFICES ASSUME CoderInit PROVE ControlInv
  OBVIOUS
<1>1. Typed
  BY InitTyped
<1>2. setup \in Setups /\ p = Fresh /\ main.pc = "idle" /\ main.calls = 0
  BY DEF CoderInit
<1>3. \A t \in CoderThreads : thread[t].pc = "absent" /\ ~thread[t].start /\ ~thread[t].stop /\ thread[t].buf = None
  BY DEF CoderInit, Absent
<1>4. NumThreads \in Nat \ {0} /\ NumBlocksMax \in Nat /\ setup.size \in Nat /\ None # NumBlocksMax
  BY <1>2, SizeFacts DEF None
<1>5. QuietInv
  BY <1>2, <1>3 DEF QuietInv
<1>6. CallInv
  BY <1>2, <1>4 DEF CallInv, InCall, Fresh
<1>7. ReaderInv
  BY <1>2, <1>3, <1>4 DEF ReaderInv, Reads, Fresh
<1>8. FreshSlots
  BY <1>2, FreshFacts DEF FreshSlots
<1>9. HoldInv /\ 0 \in Slots /\ SlotsAt(0, 0)
  BY <1>2, <1>3, <1>8, NoneHeld
<1>10. SlotsInv
  BY <1>4, <1>9 DEF SlotsInv
<1>11. /\ p.free = [i \in 1 .. BlocksMax |-> i - 1] /\ \A s \in Slots : ~p.ready[s]
       /\ \A s \in Slots : p.blocks[s].buf # NumBlocksMax
  BY <1>2, <1>4 DEF Fresh
<1>12. BufferInv
  BY <1>2, <1>3, <1>4, <1>11, AllFree
<1> QED
  BY <1>1, <1>5, <1>6, <1>7, <1>9, <1>10, <1>12 DEF ControlInv

\* Every step of a patient caller and of the threads keeps all of it.
LEMMA ControlStep ==
  ASSUME ControlInv, [PatientNext]_coderVars
  PROVE  ControlInv'
<1> USE DEF ControlInv
<1>1. [CoderNext]_coderVars /\ setup' = setup
  BY SetupKept DEF PatientNext, CoderNext
<1>2. Typed'
  BY <1>1, TypedStep
<1>3. QuietInv' /\ CallInv'
  <2>1. CASE UNCHANGED coderVars
    <3>1. CoderThreads' = CoderThreads /\ NumThreads' = NumThreads
      BY <1>1, SizesKept
    <3>2. Threads_Over' = Threads_Over
      BY <2>1, <3>1 DEF Threads_Over, Over, coderVars
    <3> QED
      BY <2>1, <3>1, <3>2 DEF coderVars, QuietInv, CallInv, InCall
  <2>2. ASSUME NEW t \in CoderThreads, ThreadStep(t) PROVE QuietInv' /\ CallInv'
    BY <2>2, ThreadKeepsCalls
  <2>3. CASE (Rested /\ CodeBegin) \/ Destruct \/ MainStep
    BY <2>3, CallerKeepsCalls DEF MainStep
  <2> QED
    BY <2>1, <2>2, <2>3 DEF PatientNext, CoderStep, Gone
<1>4. ReaderInv'
  BY ReadingStep
<1>5. Slots' = Slots /\ NumBlocksMax' = NumBlocksMax /\ NumBlocksMax \in Nat
  BY <1>1, SizesKept, SizeFacts DEF Typed
<1>6. HoldInv' /\ BufferInv' /\ SlotsInv'
  <2>0. PICK f \in Slots, u \in 0 .. NumBlocksMax : SlotsAt(f, u)
    BY DEF SlotsInv
  <2>1. CASE SameLine
    <3>1. HoldInv' /\ SlotsAt(f, u)'
      BY <2>0, <2>1, SameLineKeeps
    <3>2. SlotsInv'
      BY <1>5, <3>1 DEF SlotsInv
    <3>3. CASE CodeOpen \/ CodeEnd \/ Destruct \/ Freed \/ (\E t \in CoderThreads : StopThread(t)) \/ UNCHANGED coderVars
      BY <3>1, <3>2, <3>3, BuffersOfCaller
    <3>4. CASE CodeBegin
      BY <3>1, <3>2, <3>4, BuffersOfCaller
    <3>5. ASSUME NEW t \in CoderThreads, ThreadStep(t) PROVE BufferInv'
      BY <3>5, BuffersOfThreads, BuffersOfPublish, BuffersOfBuffer, BuffersOfAdvance DEF ThreadStep
    <3> QED
      BY <3>1, <3>2, <3>3, <3>4, <3>5 DEF PatientNext, CoderStep, MainStep, Gone
  <2>2. CASE CodeBegin
    <3>1. HoldInv' /\ 0 \in Slots' /\ SlotsAt(0, 0)' /\ BufferInv'
      BY <2>2, BeginLine, BuffersOfCaller
    <3> QED
      BY <1>5, <3>1 DEF SlotsInv
  <2>3. ASSUME NEW t \in CoderThreads, TakeSlot(t) PROVE HoldInv' /\ BufferInv' /\ SlotsInv'
    <3>1. HoldInv' /\ u < NumBlocksMax /\ SlotsAt(f, u + 1)'
      BY <2>0, <2>3, TakeLine
    <3>2. SlotsInv'
      <4>1. u + 1 \in 0 .. NumBlocksMax
        BY <1>5, <3>1
      <4> QED
        BY <1>5, <3>1, <4>1 DEF SlotsInv
    <3> QED
      BY <2>3, <3>1, <3>2, BuffersOfThreads
  <2>4. ASSUME NEW t \in CoderThreads, Advance(t) PROVE HoldInv' /\ BufferInv' /\ SlotsInv'
    <3>1. HoldInv' /\ u > 0 /\ SlotsAt(After(f), u - 1)'
      BY <2>0, <2>4, AdvanceLine
    <3>2. SlotsInv'
      <4>1. u - 1 \in 0 .. NumBlocksMax /\ After(f) \in Slots
        BY <1>5, <3>1, AfterFacts DEF Typed
      <4>2. After(f)' = After(f)
        BY <1>5 DEF After
      <4>3. PICK g \in Slots : g = After(f) /\ SlotsAt(g, u - 1)'
        BY <3>1, <4>1, <4>2 DEF SlotsAt, Off
      <4> QED
        BY <1>5, <4>1, <4>3 DEF SlotsInv
    <3> QED
      BY <2>4, <3>1, <3>2, BuffersOfAdvance
  <2>5. ASSUME NEW t \in CoderThreads, PublishBlock(t) \/ ReleaseSlot(t) PROVE HoldInv' /\ BufferInv' /\ SlotsInv'
    <3>1. HoldInv' /\ SlotsAt(f, u)'
      BY <2>0, <2>5, PublishLine, ReleaseLine
    <3>2. SlotsInv'
      BY <1>5, <3>1 DEF SlotsInv
    <3> QED
      BY <2>5, <3>1, <3>2, BuffersOfPublish, BuffersOfThreads
  <2> QED
    BY <2>1, <2>2, <2>3, <2>4, <2>5, SameLineCaller, SameLineThreads DEF PatientNext, CoderStep, MainStep, ThreadStep, Gone
<1> QED
  BY <1>2, <1>3, <1>4, <1>6

\* What it says of the types, of a call that has returned, and of the number of buffers.
LEMMA ControlTypes == ControlInv => CoderTypeOK /\ ReturnedMeansQuiet /\ BuffersBounded
<1> SUFFICES ASSUME ControlInv PROVE CoderTypeOK /\ ReturnedMeansQuiet /\ BuffersBounded
  OBVIOUS
<1> USE DEF ControlInv
<1>1. NumThreads \in Nat \ {0} /\ NumBlocksMax \in Nat /\ NumBlocksMax >= 2 /\ BlocksMax = NumBlocksMax + 1
  BY SizeFacts DEF Typed
<1>2. CoderFields(p) /\ \A t \in CoderThreads : ThreadFields(thread[t])
  BY CoderTaken, ThreadTaken
<1>3. p.sem <= NumBlocksMax
  <2>1. PICK f \in Slots, u \in 0 .. NumBlocksMax : SlotsAt(f, u)
    BY DEF SlotsInv
  <2>2. Cardinality(Releasing) \in Nat /\ p.sem \in Nat
    BY <1>2, ReleasingFacts DEF CoderFields
  <2> QED
    BY <1>1, <2>1, <2>2 DEF SlotsAt
<1>4. p.started \in 1 .. NumThreads /\ p.finished <= p.started /\ p.processed <= setup.size
  BY DEF CallInv, ReaderInv
<1>5. CoderTypeOK
  <2>1. p.finished \in 0 .. NumThreads /\ p.processed \in 0 .. setup.size /\ p.sem \in 0 .. NumBlocksMax
    BY <1>1, <1>2, <1>3, <1>4, SizeFacts DEF CoderFields, Typed
  <2>2. main.pc \in {"idle", "open", "wait", "free", "gone"} /\ main.result \in Codes \cup {"none"}
    BY DEF Typed, MainRec
  <2> QED
    BY <1>2, <1>4, <2>1, <2>2 DEF CoderTypeOK, CoderFields, ThreadFields, Typed
<1>6. ReturnedMeansQuiet
  BY DEF ReturnedMeansQuiet, QuietInv, InCall, InWork
<1>7. BuffersBounded
  <2> SUFFICES ASSUME NEW t \in CoderThreads PROVE thread[t].buf < NumBlocksMax
    BY DEF BuffersBounded
  <2>1. thread[t].buf \in Buffers \cup {None} /\ thread[t].buf # NumBlocksMax
    BY <1>2 DEF BufferInv, ThreadFields
  <2> QED
    BY <1>1, <2>1 DEF Buffers, None
<1> QED
  BY <1>5, <1>6, <1>7

\* One thread writes exactly when the line has no next slot.
LEMMA ControlWriter == ControlInv => OneWriter
<1> SUFFICES ASSUME ControlInv PROVE OneWriter
  OBVIOUS
<1>1. HoldInv
  BY DEF ControlInv
<1> DEFINE writing == {t \in CoderThreads : \/ thread[t].pc \in {"write", "advance"}
                                            \/ thread[t].pc = "release" /\ thread[t].ready}
<1>2. writing = {t \in CoderThreads : Writes(t)}
  BY DEF Writes
<1>3. CASE p.writeIndex = None
  <2>1. PICK t \in CoderThreads : Writes(t)
    BY <1>1, <1>3 DEF HoldInv
  <2>2. writing = {t}
    BY <1>1, <1>2, <2>1 DEF HoldInv
  <2>3. Cardinality(writing) = 1
    BY <2>2, FS_Singleton
  <2> QED
    BY <1>3, <2>3 DEF OneWriter
<1>4. CASE p.writeIndex # None
  <2>1. writing = {}
    BY <1>1, <1>2, <1>4 DEF HoldInv
  <2>2. Cardinality(writing) = 0
    BY <2>1, FS_EmptySet
  <2> QED
    BY <1>4, <2>2 DEF OneWriter
<1> QED
  BY <1>3, <1>4

\* The four places of a buffer, counted.
LEMMA ControlOwner == ControlInv => BufferHasOneOwner
<1> SUFFICES ASSUME ControlInv PROVE BufferHasOneOwner
  OBVIOUS
<1> DEFINE Holders(b) == {t \in CoderThreads : thread[t].pc \in {"code", "publish", "write", "advance"} /\ thread[t].buf = b}
           Waiting(b) == {s \in Slots : p.ready[s] /\ p.blocks[s].buf = b}
           Taken(b)   == {t \in CoderThreads : thread[t].pc = "release" /\ thread[t].ready /\ p.blocks[thread[t].bi].buf = b}
           Free(b)    == {i \in DOMAIN p.free : p.free[i] = b}
<1> SUFFICES ASSUME NEW b \in 0 .. BlocksMax - 1
             PROVE  Cardinality(Holders(b)) + Cardinality(Waiting(b)) + Cardinality(Taken(b)) + Cardinality(Free(b)) = 1
  BY DEF BufferHasOneOwner
<1>1. HoldInv /\ BufferInv /\ Typed /\ b \in Buffers /\ DOMAIN p.free = 1 .. Len(p.free)
  BY CoderTaken DEF ControlInv, Buffers, CoderFields
<1>2. \A t \in CoderThreads : thread[t].bi \in Slots
  BY <1>1, ThreadTaken DEF ThreadFields
<1>3. \A t \in CoderThreads : t \in Holders(b) \/ t \in Taken(b) <=> HasIn(t, thread[t].bi, b)
  BY DEF HasIn
<1>4. \A t \in CoderThreads : HasIn(t, thread[t].bi, b) => Hold(t) /\ Has(thread[t].bi, b) /\ ~p.ready[thread[t].bi]
  BY <1>1 DEF HasIn, Has, Hold, Writes, HoldInv
<1>5. \A s \in Waiting(b) : Has(s, b)
  BY DEF Has
<1>6. \A t \in CoderThreads : ~(t \in Holders(b) /\ t \in Taken(b))
  OBVIOUS
<1>7. Holders(b) \subseteq CoderThreads /\ Taken(b) \subseteq CoderThreads /\ Waiting(b) \subseteq Slots
      /\ \A s \in Waiting(b) : p.ready[s]
  OBVIOUS
<1>8. Free(b) \subseteq 1 .. Len(p.free) /\ \A i \in 1 .. Len(p.free) : i \in Free(b) <=> p.free[i] = b
  BY <1>1
<1>w. \A s \in Slots : s \in Waiting(b) <=> p.ready[s] /\ p.blocks[s].buf = b
  OBVIOUS
<1>f. \A s \in Slots : Has(s, b) => s \in Waiting(b) \/ \E t \in CoderThreads : thread[t].bi = s /\ (t \in Holders(b) \/ t \in Taken(b))
  BY DEF Has, HasIn
<1> HIDE DEF Holders, Waiting, Taken, Free
<1>9. CASE \E i \in 1 .. Len(p.free) : p.free[i] = b
  <2>1. PICK i \in 1 .. Len(p.free) : p.free[i] = b
    BY <1>9
  <2>2. \A s \in Slots : ~Has(s, b)
    BY <1>1, <2>1 DEF BufferInv
  <2>3. Holders(b) = {} /\ Taken(b) = {} /\ Waiting(b) = {}
    BY <1>2, <1>3, <1>4, <1>5, <1>7, <2>2
  <2>4. Free(b) = {i}
    BY <1>1, <1>8, <2>1 DEF BufferInv
  <2>5. Cardinality(Holders(b)) = 0 /\ Cardinality(Taken(b)) = 0 /\ Cardinality(Waiting(b)) = 0
    BY <2>3, FS_EmptySet, Zenon
  <2>6. Cardinality(Free(b)) = 1
    BY <2>4, FS_Singleton
  <2> QED
    BY <2>5, <2>6
<1>10. ASSUME NEW s \in Slots, Has(s, b)
       PROVE  Cardinality(Holders(b)) + Cardinality(Waiting(b)) + Cardinality(Taken(b)) + Cardinality(Free(b)) = 1
  <2>1. Free(b) = {}
    BY <1>1, <1>8, <1>10 DEF BufferInv
  <2>2. \A r \in Slots : Has(r, b) => r = s
    BY <1>1, <1>10 DEF BufferInv
  <2>3. \A t \in CoderThreads : t \in Holders(b) \/ t \in Taken(b) => Hold(t) /\ thread[t].bi = s /\ ~p.ready[s]
    BY <1>2, <1>3, <1>4, <2>2
  <2>4. Waiting(b) \subseteq {s}
    BY <1>5, <1>7, <2>2
  <2>5. CASE s \in Waiting(b)
    <3>1. Waiting(b) = {s} /\ Holders(b) = {} /\ Taken(b) = {}
      BY <1>7, <2>3, <2>4, <2>5
    <3>2. Cardinality(Holders(b)) = 0 /\ Cardinality(Taken(b)) = 0 /\ Cardinality(Free(b)) = 0
      BY <2>1, <3>1, FS_EmptySet, Zenon
    <3>3. Cardinality(Waiting(b)) = 1
      BY <3>1, FS_Singleton
    <3> QED
      BY <3>2, <3>3
  <2>6. ASSUME NEW t \in CoderThreads, t \in Holders(b) \/ t \in Taken(b)
        PROVE  Cardinality(Holders(b)) + Cardinality(Waiting(b)) + Cardinality(Taken(b)) + Cardinality(Free(b)) = 1
    <3>1. \A v \in CoderThreads : v \in Holders(b) \/ v \in Taken(b) => v = t
      BY <1>1, <2>3, <2>6 DEF HoldInv
    <3>2. Waiting(b) = {}
      BY <1>7, <2>3, <2>4, <2>6
    <3>3. (Holders(b) = {t} /\ Taken(b) = {}) \/ (Holders(b) = {} /\ Taken(b) = {t})
      BY <1>6, <1>7, <2>6, <3>1
    <3>4. Cardinality(Waiting(b)) = 0 /\ Cardinality(Free(b)) = 0
      BY <2>1, <3>2, FS_EmptySet, Zenon
    <3>5. \/ Cardinality(Holders(b)) = 1 /\ Cardinality(Taken(b)) = 0
          \/ Cardinality(Holders(b)) = 0 /\ Cardinality(Taken(b)) = 1
      BY <3>3, FS_EmptySet, FS_Singleton, Zenon
    <3> QED
      BY <3>4, <3>5
  <2> QED
    BY <1>f, <1>10, <2>5, <2>6
<1> QED
  BY <1>1, <1>9, <1>10 DEF BufferInv
-----------------------------------------------------------------------------
(* The data: what the threads and the slots know of their blocks           *)

Clean == p.progressRes = "ok"     \* no call has failed

\* A block that was entered: it is in a buffer if it was coded, and if it is the
\* last one then reading is over.
SlotData(s) ==
  /\ p.blocks[s].res = "ok" => p.blocks[s].buf # None
  /\ p.blocks[s].finished => p.stopReading
  /\ Clean => p.blocks[s].res = "ok"

\* The same of the block that a thread works on.  Without an error a thread that
\* leaves the call knows that reading is over.
ThreadData(t) ==
  /\ thread[t].pc = "code" => thread[t].buf # None
  /\ thread[t].pc = "publish" /\ thread[t].res = "ok" =>
       thread[t].buf # None /\ outBuf[thread[t].buf] = Content(thread[t])
  /\ thread[t].pc = "write" /\ thread[t].res = "ok" => thread[t].buf # None
  /\ thread[t].pc = "release" /\ thread[t].ready => SlotData(thread[t].bi)
  /\ thread[t].pc \in {"buffer", "code", "publish", "write", "advance", "release"} /\ thread[t].finished =>
       p.stopReading
  /\ Clean =>
       /\ thread[t].pc \in {"slot", "buffer", "code", "publish", "write", "advance", "release"} =>
            thread[t].res = "ok"
       /\ thread[t].pc \in {"tail", "compare"} /\ InCall => p.stopReading
       /\ InCall /\ t < p.started /\ thread[t].pc = "start" /\ ~thread[t].start => p.stopReading
       /\ thread[t].pc = "slot" =>
            thread[t].to = p.processed /\ (thread[t].finished => thread[t].to = setup.size)

LocalInv ==
  /\ \A t \in CoderThreads : ThreadData(t)
  /\ \A s \in Slots : p.ready[s] => SlotData(s)
  /\ Clean => p.readRes = "ok" /\ p.writeRes = "ok"
-----------------------------------------------------------------------------
(* The data: from what is written to what is not read yet                  *)

End(w) == IF w = <<>> THEN 0 ELSE w[Len(w)].to

\* Slot s holds block c, which is not written yet.
HoldsIn(t, s, c) ==
  /\ thread[t].bi = s
  /\ \/ thread[t].pc \in {"buffer", "code", "publish"} /\ c = Content(thread[t])
     \/ thread[t].pc = "write" /\ thread[t].res = "ok" /\ c = outBuf[thread[t].buf]
     \/ /\ thread[t].pc = "release" /\ thread[t].ready
        /\ p.blocks[s].res = "ok" /\ c = outBuf[p.blocks[s].buf]
Holds(s, c) == \/ p.ready[s] /\ p.blocks[s].res = "ok" /\ c = outBuf[p.blocks[s].buf]
               \/ \E t \in CoderThreads : HoldsIn(t, s, c)

\* The slots end at e: there begins what a thread has read and has no slot for
\* yet, or else what is not read yet.
EdgeAt(e) ==
  /\ \A t \in CoderThreads : thread[t].pc = "slot" =>
       thread[t].from = e /\ e <= thread[t].to /\ thread[t].to <= p.processed
  /\ (\A t \in CoderThreads : thread[t].pc # "slot") => p.processed = e
  /\ e <= p.processed

\* The blocks lie in the order of their slots, behind what is written.
OrderAt(f, e) ==
  /\ End(written) <= e
  /\ \A i \in 1 .. Len(written) - 1 : written[i].to <= written[i + 1].from
  /\ \A s \in Slots : \A c \in Piece : Holds(s, c) => End(written) <= c.from /\ c.from <= c.to /\ c.to <= e
  /\ \A r, s \in Slots : \A c, d \in Piece :
       Holds(r, c) /\ Holds(s, d) /\ Off(f, r) < Off(f, s) => c.to <= d.from

\* The first slot in use is that of a block that has just been written.
Spent == IF \E t \in CoderThreads : thread[t].pc = "advance" THEN 1 ELSE 0

\* Without an error the blocks leave no gap, and only the last is told that it is
\* the last.
ChainAt(f, u, e) ==
  /\ \A s \in Slots : \A c \in Piece : Holds(s, c) =>
       /\ Off(f, s) = Spent => c.from = End(written)
       /\ Off(f, s) = u - 1 => c.to = e
       /\ c.finished <=> p.stopReading /\ Off(f, s) = u - 1
       /\ c.finished => c.to = setup.size
  /\ \A r, s \in Slots : \A c, d \in Piece :
       Holds(r, c) /\ Holds(s, d) /\ Off(f, s) = Off(f, r) + 1 => c.to = d.from
  /\ u = Spent => End(written) = e
  /\ written # <<>> =>
       /\ written[1].from = 0 /\ (written[Len(written)].finished <=> u = Spent /\ p.stopReading)
       /\ written[Len(written)].finished => written[Len(written)].to = setup.size
  /\ \A i \in 1 .. Len(written) - 1 : ~written[i].finished /\ written[i].to = written[i + 1].from
  /\ u = Spent /\ p.stopReading => written # <<>>

FlowAt(f, u, e) == EdgeAt(e) /\ OrderAt(f, e) /\ (Clean => ChainAt(f, u, e))
FlowInv == \E f \in Slots, u \in 0 .. NumBlocksMax, e \in Nat : SlotsAt(f, u) /\ FlowAt(f, u, e)

\* What a call returns.
DoneInv == (InCall => main.result = "none") /\ (main.result = "ok" => Clean) /\ OkIsComplete

DataInv == LocalInv /\ FlowInv /\ DoneInv
-----------------------------------------------------------------------------
(* What threads and slots know of their blocks stays true                  *)

\* What ThreadData and SlotData depend on is the same.
DataKept(u) ==
  /\ thread'[u] = thread[u] /\ (u < p'.started => u < p.started)
  /\ thread[u].pc = "slot" => p'.processed = p.processed
  /\ thread[u].pc = "publish" /\ thread[u].buf # None => outBuf'[thread[u].buf] = outBuf[thread[u].buf]
  /\ thread[u].pc = "release" /\ thread[u].ready => p'.blocks[thread[u].bi] = p.blocks[thread[u].bi]
EntryKept(s) == p.ready[s] /\ p'.blocks[s] = p.blocks[s]

\* Reading that is over stays so, and an error is not forgotten.
LaterInCall ==
  /\ setup' = setup /\ (InCall' => InCall) /\ (p.stopReading => p'.stopReading)
  /\ p'.progressRes = "ok" => p.progressRes = "ok" /\ p'.readRes = p.readRes /\ p'.writeRes = p.writeRes

\* An entry that stays says the same later in the call.
LEMMA EntryKeeps ==
  ASSUME LaterInCall, NEW s \in Slots, p'.blocks[s] = p.blocks[s], SlotData(s)
  PROVE  SlotData(s)'
  BY DEF LaterInCall, SlotData, Clean

\* ... and so does a thread that does not step.
LEMMA ThreadKeeps ==
  ASSUME LaterInCall, NEW u \in CoderThreads, thread[u].bi \in Slots, DataKept(u), ThreadData(u)
  PROVE  ThreadData(u)'
<1>1. thread'[u] = thread[u] /\ (u < p'.started => u < p.started)
  BY DEF DataKept
<1>2. /\ thread[u].pc = "slot" => p'.processed = p.processed
      /\ thread[u].pc = "publish" /\ thread[u].buf # None => outBuf'[thread[u].buf] = outBuf[thread[u].buf]
  BY DEF DataKept
<1>3. thread[u].pc = "release" /\ thread[u].ready => SlotData(thread[u].bi)'
  <2> SUFFICES ASSUME thread[u].pc = "release" /\ thread[u].ready
               PROVE  SlotData(thread[u].bi)'
    OBVIOUS
  <2>1. PICK s \in Slots : s = thread[u].bi
    OBVIOUS
  <2>2. SlotData(s) /\ p'.blocks[s] = p.blocks[s] /\ thread'[u].bi = s
    BY <1>1, <2>1 DEF ThreadData, DataKept
  <2>3. SlotData(s)'
    BY <2>2, EntryKeeps
  <2> QED
    BY <2>2, <2>3 DEF SlotData
<1>4. setup' = setup /\ (InCall' => InCall) /\ (p.stopReading => p'.stopReading) /\ (Clean' => Clean)
  BY DEF LaterInCall, Clean
<1>5. Content(thread[u])' = Content(thread[u])
  BY <1>1 DEF Content
<1>6. /\ thread'[u].pc = "code" => thread'[u].buf # None
      /\ thread'[u].pc = "publish" /\ thread'[u].res = "ok" =>
           thread'[u].buf # None /\ outBuf'[thread'[u].buf] = Content(thread[u])'
      /\ thread'[u].pc = "write" /\ thread'[u].res = "ok" => thread'[u].buf # None
      /\ thread'[u].pc \in {"buffer", "code", "publish", "write", "advance", "release"} /\ thread'[u].finished =>
           p'.stopReading
  BY <1>1, <1>2, <1>4, <1>5 DEF ThreadData
<1>7. Clean' =>
       /\ thread'[u].pc \in {"slot", "buffer", "code", "publish", "write", "advance", "release"} =>
            thread'[u].res = "ok"
       /\ thread'[u].pc \in {"tail", "compare"} /\ InCall' => p'.stopReading
       /\ InCall' /\ u < p'.started /\ thread'[u].pc = "start" /\ ~thread'[u].start => p'.stopReading
       /\ thread'[u].pc = "slot" =>
            thread'[u].to = p'.processed /\ (thread'[u].finished => thread'[u].to = setup'.size)
  BY <1>1, <1>2, <1>4 DEF ThreadData
<1>8. thread'[u].pc = "release" /\ thread'[u].ready => SlotData(thread[u].bi)'
  BY <1>1, <1>3
<1> QED
  BY <1>6, <1>7, <1>8 DEF ThreadData

\* All of them do, if the one that steps does.
LEMMA LocalKeeps ==
  ASSUME Typed, LocalInv, LaterInCall,
         \A u \in CoderThreads : DataKept(u) \/ ThreadData(u)',
         \A s \in Slots : ~p'.ready[s] \/ EntryKept(s) \/ SlotData(s)'
  PROVE  LocalInv'
<1>1. CoderThreads' = CoderThreads /\ Slots' = Slots
  BY SizesKept DEF LaterInCall
<1>2. \A u \in CoderThreads : thread[u].bi \in Slots
  BY ThreadTaken DEF ThreadFields
<1>3. \A u \in CoderThreads : ThreadData(u)'
  BY <1>2, ThreadKeeps DEF LocalInv
<1>4. \A s \in Slots : p'.ready[s] => SlotData(s)'
  BY EntryKeeps DEF LocalInv, EntryKept
<1>5. Clean' => p'.readRes = "ok" /\ p'.writeRes = "ok"
  BY DEF LaterInCall, LocalInv, Clean
<1> QED
  BY <1>1, <1>3, <1>4, <1>5 DEF LocalInv

\* A thread whose step touches no entry and no coded block.
LEMMA LocalOfOne ==
  ASSUME Typed, LocalInv, NEW t \in CoderThreads, OthersKept(t), CallerKept, LinePart(p') = LinePart(p),
         p'.started = p.started, p'.stopReading = p.stopReading,
         p'.progressRes = "ok" => p.progressRes = "ok" /\ p'.readRes = p.readRes /\ p'.writeRes = p.writeRes,
         \A u \in CoderThreads : u # t /\ thread[u].pc = "slot" => p'.processed = p.processed,
         \A u \in CoderThreads : u # t /\ thread[u].pc = "publish" /\ thread[u].buf # None => outBuf'[thread[u].buf] = outBuf[thread[u].buf],
         ThreadData(t)'
  PROVE  LocalInv'
<1>1. LaterInCall
  BY DEF LaterInCall, CallerKept, InCall
<1>2. p'.ready = p.ready /\ p'.blocks = p.blocks
  BY DEF LinePart
<1>3. \A u \in CoderThreads : u # t => DataKept(u)
  BY <1>2 DEF DataKept, OthersKept
<1>4. \A s \in Slots : p'.ready[s] => EntryKept(s)
  BY <1>2 DEF EntryKept
<1> QED
  BY <1>1, <1>3, <1>4, LocalKeeps

\* Steps that neither code, publish nor write a block.
LEMMA LocalOfQuietThreads ==
  ASSUME Typed, QuietInv, CallInv, ReaderInv, BufferInv, LocalInv, NEW t \in CoderThreads,
         Wake(t) \/ Turn(t) \/ Buffer(t) \/ Count(t) \/ Compare(t)
  PROVE  LocalInv'
<1>0. ThreadData(t) /\ ThreadFields(thread[t])
  BY ThreadTaken DEF LocalInv
<1>1. CASE Wake(t)
  <2>1. OthersKept(t) /\ CallerKept /\ p' = p /\ outBuf' = outBuf
        /\ (thread'[t] = Absent \/ thread'[t].pc = "turn")
    BY <1>1, WakeStep
  <2>2. thread'[t].pc \in {"absent", "turn"}
    BY <2>1 DEF Absent
  <2>3. ThreadData(t)'
    BY <2>2 DEF ThreadData
  <2> QED
    BY <2>1, <2>3, LocalOfOne DEF LinePart
<1>2. CASE Turn(t)
  <2>1. /\ OthersKept(t) /\ CallerKept /\ p'.stopReading = p.stopReading /\ p'.processed = p.processed
        /\ p'.readRes = p.readRes /\ LinePart(p') = LinePart(p) /\ CountPart(p') = CountPart(p)
        /\ ErrorPart(p') = ErrorPart(p) /\ outBuf' = outBuf
        /\ thread'[t].pc = (IF p.stopReading THEN "tail" ELSE "read")
    BY <1>2, TurnStep
  <2>2. ThreadData(t)'
    BY <2>1 DEF ThreadData
  <2> QED
    BY <2>1, <2>2, LocalOfOne DEF CountPart, ErrorPart
<1>3. CASE Buffer(t)
  <2>1. /\ OthersKept(t) /\ CallerKept /\ outBuf' = outBuf
        /\ thread[t].pc = "buffer" /\ thread'[t].pc = "code"
        /\ thread'[t].buf = Head(p.free) /\ Head(p.free) \in Buffers
        /\ thread'[t].res = thread[t].res /\ BlockPart(thread'[t]) = BlockPart(thread[t])
        /\ ReadPart(p') = ReadPart(p) /\ LinePart(p') = LinePart(p) /\ CountPart(p') = CountPart(p)
        /\ ErrorPart(p') = ErrorPart(p)
    BY <1>3, BufferStep DEF BufferInv
  <2>2. None \notin Buffers
    BY DEF None, Buffers
  <2>3. p'.stopReading = p.stopReading /\ (Clean' => Clean) /\ thread'[t].finished = thread[t].finished
    BY <2>1 DEF ReadPart, ErrorPart, Clean, BlockPart
  <2>4. ThreadData(t)'
    BY <1>0, <2>1, <2>2, <2>3 DEF ThreadData
  <2> QED
    BY <2>1, <2>4, LocalOfOne DEF CountPart, ErrorPart, ReadPart
<1>4. CASE Count(t)
  <2>1. /\ OthersKept(t) /\ CallerKept /\ outBuf' = outBuf
        /\ thread[t].pc = "tail" /\ thread'[t].pc = "compare" /\ p'.started = p.started
        /\ ReadPart(p') = ReadPart(p) /\ LinePart(p') = LinePart(p) /\ ErrorPart(p') = ErrorPart(p)
    BY <1>4, CountStep
  <2>2. p'.stopReading = p.stopReading /\ (Clean' => Clean) /\ (InCall' => InCall)
    BY <2>1 DEF ReadPart, ErrorPart, Clean, InCall, CallerKept
  <2>3. ThreadData(t)'
    BY <1>0, <2>1, <2>2 DEF ThreadData
  <2> QED
    BY <2>1, <2>3, LocalOfOne DEF ErrorPart, ReadPart
<1>5. CASE Compare(t)
  <2>1. /\ OthersKept(t) /\ CallerKept /\ outBuf' = outBuf
        /\ thread[t].pc = "compare" /\ thread'[t].pc = "start" /\ p'.started = p.started
        /\ ReadPart(p') = ReadPart(p) /\ LinePart(p') = LinePart(p) /\ ErrorPart(p') = ErrorPart(p)
    BY <1>5, CompareStep
  <2>2. p'.stopReading = p.stopReading /\ (Clean' => Clean) /\ (InCall' => InCall)
    BY <2>1 DEF ReadPart, ErrorPart, Clean, InCall, CallerKept
  <2>3. ThreadData(t)'
    BY <1>0, <2>1, <2>2 DEF ThreadData
  <2> QED
    BY <2>1, <2>3, LocalOfOne DEF ErrorPart, ReadPart
<1> QED
  BY <1>1, <1>2, <1>3, <1>4, <1>5

\* Two slots never have the same buffer, so that Code disturbs no other block.
LEMMA OthersBuffers ==
  ASSUME Typed, HoldInv, BufferInv, NEW t \in CoderThreads, thread[t].pc = "code", NEW s \in Slots, NEW b \in Buffers,
         Has(s, b), b = thread[t].buf
  PROVE  s = thread[t].bi
<1>1. thread[t].bi \in Slots
  BY ThreadTaken DEF ThreadFields
<1>2. Has(thread[t].bi, b)
  BY DEF Has, HasIn
<1> QED
  BY <1>1, <1>2 DEF BufferInv

\* A block that is coded is in its buffer; a failure is recorded.
LEMMA LocalOfCode ==
  ASSUME Typed, HoldInv, BufferInv, LocalInv, NEW t \in CoderThreads, Code(t)
  PROVE  LocalInv'
<1>1. /\ OthersKept(t) /\ CallerKept /\ thread[t].pc = "code" /\ thread'[t].pc = "publish"
      /\ thread'[t].bi = thread[t].bi /\ thread'[t].buf = thread[t].buf
      /\ BlockPart(thread'[t]) = BlockPart(thread[t])
      /\ ReadPart(p') = ReadPart(p) /\ LinePart(p') = LinePart(p) /\ CountPart(p') = CountPart(p)
      /\ p'.writeRes = p.writeRes
  BY CodeStep
<1>2. \/ /\ p' = p /\ thread'[t].res = thread[t].res
         /\ outBuf' = [outBuf EXCEPT ![thread[t].buf] = Content(thread[t])]
      \/ p'.progressRes # "ok" /\ outBuf' = outBuf /\ thread'[t].res = "code"
  BY CodeStep
<1>3. ThreadData(t) /\ ThreadFields(thread[t]) /\ thread[t].buf # None
  BY <1>1, ThreadTaken DEF LocalInv, ThreadData
<1>4. PICK b \in Buffers : b = thread[t].buf
  BY <1>3 DEF ThreadFields
<1>5. Content(thread[t])' = Content(thread[t])
  BY <1>1 DEF Content, BlockPart
<1>6. outBuf \in [Buffers -> Piece] /\ DOMAIN outBuf = Buffers
  BY DEF Typed
<1>7. p'.stopReading = p.stopReading /\ thread'[t].finished = thread[t].finished
      /\ (InCall' => InCall) /\ p'.readRes = p.readRes /\ p'.processed = p.processed
  BY <1>1 DEF ReadPart, BlockPart, InCall, CallerKept
<1>8. ThreadData(t)'
  <2>1. CASE p' = p /\ thread'[t].res = thread[t].res /\ outBuf' = [outBuf EXCEPT ![thread[t].buf] = Content(thread[t])]
    <3>1. outBuf'[b] = Content(thread[t])'
      BY <1>4, <1>5, <1>6, <2>1
    <3>2. thread'[t].buf # None /\ outBuf'[thread'[t].buf] = Content(thread[t])' /\ (Clean' => Clean)
      BY <1>1, <1>3, <1>4, <2>1, <3>1 DEF Clean
    <3> QED
      BY <1>1, <1>3, <1>7, <2>1, <3>2 DEF ThreadData
  <2>2. CASE p'.progressRes # "ok" /\ thread'[t].res = "code"
    BY <1>1, <1>3, <1>7, <2>2 DEF ThreadData, Clean
  <2> QED
    BY <1>2, <2>1, <2>2
<1>9. ASSUME NEW u \in CoderThreads, u # t, thread[u].pc = "publish", thread[u].buf # None
      PROVE  outBuf'[thread[u].buf] = outBuf[thread[u].buf]
  <2>1. Hold(t) /\ Hold(u) /\ ThreadFields(thread[u])
    BY <1>1, <1>9, ThreadTaken DEF Hold
  <2>2. PICK s \in Slots : s = thread[u].bi
    BY <2>1 DEF ThreadFields
  <2>3. s # thread[t].bi
    BY <1>9, <2>1, <2>2 DEF HoldInv
  <2>4. ASSUME thread[u].buf = b PROVE FALSE
    <3>1. Has(s, b)
      BY <1>9, <2>2, <2>4 DEF Has, HasIn
    <3> QED
      BY <1>1, <1>4, <2>3, <3>1, OthersBuffers
  <2>5. CASE outBuf' = outBuf
    BY <2>5
  <2>6. CASE outBuf' = [outBuf EXCEPT ![b] = Content(thread[t])]
    <3>1. thread[u].buf \in Buffers
      BY <1>9, <2>1 DEF ThreadFields
    <3> QED
      BY <1>6, <2>4, <2>6, <3>1
  <2> QED
    BY <1>2, <1>4, <2>5, <2>6
<1>10. p'.progressRes = "ok" => p.progressRes = "ok" /\ p'.readRes = p.readRes /\ p'.writeRes = p.writeRes
  BY <1>1, <1>2, <1>7
<1> QED
  BY <1>1, <1>7, <1>8, <1>9, <1>10, LocalOfOne DEF CountPart

\* Without an error a block that is read ends where reading goes on.
LEMMA LocalOfRead ==
  ASSUME Typed, ReaderInv, LocalInv, NEW t \in CoderThreads, Read(t)
  PROVE  LocalInv'
<1>1. /\ OthersKept(t) /\ CallerKept /\ outBuf' = outBuf /\ thread[t].pc = "read" /\ thread'[t].pc = "slot"
      /\ thread'[t].to = p'.processed /\ p'.stopReading = p.stopReading
      /\ LinePart(p') = LinePart(p) /\ CountPart(p') = CountPart(p) /\ p'.writeRes = p.writeRes
      /\ p'.progressRes = "ok" =>
           /\ p.progressRes = "ok" /\ p'.readRes = p.readRes /\ thread'[t].res = "ok"
           /\ thread'[t].finished => thread'[t].to = setup.size
  BY ReadStep DEF ReaderInv
<1>2. \A u \in CoderThreads : u # t => thread[u].pc # "slot"
  BY <1>1 DEF ReaderInv, Reads
<1>3. ThreadData(t)'
  BY <1>1 DEF ThreadData, Clean, CallerKept
<1> QED
  BY <1>1, <1>2, <1>3, LocalOfOne DEF CountPart

\* The last block ends the reading.
LEMMA LocalOfTakeSlot ==
  ASSUME Typed, QuietInv, CallInv, ReaderInv, LocalInv, NEW t \in CoderThreads, TakeSlot(t)
  PROVE  LocalInv'
<1>0. thread[t].pc = "slot"
  BY DEF TakeSlot
<1>1. t < p.started /\ InCall
  BY <1>0, WorkFacts DEF Working
<1>2. PICK f \in BOOLEAN, r \in Codes :
        /\ HasTaken(t, thread'[t], f, r) /\ SlotTaken(f) /\ (r # "ok" => f)
        /\ p.progressRes = "ok" /\ thread[t].res = "ok" /\ p'.progressRes = "ok" =>
             r = "ok" /\ f = thread[t].finished
        /\ \/ OthersKept(t) /\ p'.started = p.started /\ p'.progressRes = p.progressRes
           \/ OthersKept(t) /\ p'.started = p.started /\ p'.progressRes # "ok"
           \/ /\ p'.started = p.started + 1 /\ p.started \in CoderThreads
              /\ p'.progressRes = p.progressRes
              /\ thread'[p.started] = Started(thread[p.started])
              /\ \A u \in CoderThreads : u # t /\ u # p.started => thread'[u] = thread[u]
  BY <1>1, TakeSlotStep
<1>3. CallerKept /\ outBuf' = outBuf
  BY <1>1, TakeSlotStep
<1>4. p'.ready = p.ready /\ p'.blocks = p.blocks /\ p'.readRes = p.readRes /\ p'.writeRes = p.writeRes
      /\ p'.stopReading = f /\ ~p.stopReading /\ p'.processed = p.processed
  BY <1>0, <1>2 DEF SlotTaken, LinePart, ReaderInv, Reads
<1>5. Clean' => Clean
  BY <1>2 DEF Clean
<1>6. LaterInCall
  BY <1>3, <1>4, <1>5 DEF LaterInCall, Clean, CallerKept, InCall
<1>7. ThreadData(t)'
  <2>1. Clean' => r = "ok"
    <3>1. Clean => thread[t].res = "ok"
      BY <1>0 DEF LocalInv, ThreadData
    <3> QED
      BY <1>2, <1>5, <3>1 DEF Clean
  <2>2. /\ thread'[t].pc \in {"buffer", "publish"} /\ thread'[t].res = r /\ thread'[t].finished = f
        /\ thread'[t].pc = "publish" => r # "ok"
    BY <1>2 DEF HasTaken
  <2> QED
    BY <1>4, <2>1, <2>2 DEF ThreadData
<1>8. ASSUME NEW u \in CoderThreads, u # t
      PROVE  DataKept(u) \/ ThreadData(u)'
  <2>1. CASE OthersKept(t) /\ p'.started = p.started
    BY <1>3, <1>4, <1>8, <2>1 DEF DataKept, OthersKept
  <2>2. CASE /\ p'.started = p.started + 1 /\ p.started \in CoderThreads
             /\ thread'[p.started] = Started(thread[p.started])
             /\ \A v \in CoderThreads : v # t /\ v # p.started => thread'[v] = thread[v]
    <3>1. CASE u = p.started
      <4>1. thread[u].pc \in {"absent", "start"} /\ thread[u] \in ThreadRec
        BY <1>1, <3>1, OverFacts, ThreadTaken DEF CallInv, CoderThreads
      <4>2. thread'[u].pc = "start" /\ thread'[u].start
        BY <2>2, <3>1, <4>1 DEF Started, ThreadRec
      <4> QED
        BY <4>2 DEF ThreadData
    <3>2. CASE u # p.started
      <4>1. thread'[u] = thread[u]
        BY <1>8, <2>2, <3>2
      <4>2. u \in Int /\ p.started \in Int
        BY OverFacts DEF CoderThreads
      <4>3. u < p'.started => u < p.started
        BY <2>2, <3>2, <4>2
      <4> QED
        BY <1>3, <1>4, <4>1, <4>3 DEF DataKept
    <3> QED
      BY <3>1, <3>2
  <2> QED
    BY <1>2, <2>1, <2>2
<1>9. \A s \in Slots : p'.ready[s] => EntryKept(s)
  BY <1>4 DEF EntryKept
<1> QED
  BY <1>6, <1>7, <1>8, <1>9, LocalKeeps

\* The entry says what the thread knows of the block.
LEMMA LocalOfPublish ==
  ASSUME Typed, HoldInv, LocalInv, NEW t \in CoderThreads, PublishBlock(t)
  PROVE  LocalInv'
<1>0. ThreadFields(thread[t]) /\ ThreadData(t)
  BY ThreadTaken DEF LocalInv
<1>1. PICK s0 \in Slots : s0 = thread[t].bi
  BY <1>0 DEF ThreadFields
<1>2. /\ OthersKept(t) /\ CallerKept /\ outBuf' = outBuf
      /\ thread[t].pc = "publish" /\ thread'[t].bi = s0 /\ thread'[t].buf = thread[t].buf
      /\ BlockPart(thread'[t]) = BlockPart(thread[t])
      /\ ReadPart(p') = ReadPart(p) /\ CountPart(p') = CountPart(p) /\ ErrorPart(p') = ErrorPart(p)
      /\ p'.blocks[s0] = Entered(t)
      /\ \A s \in Slots : s # s0 => p'.blocks[s] = p.blocks[s] /\ p'.ready[s] = p.ready[s]
  BY <1>1, PublishStep
<1>3. /\ p.writeIndex = s0 =>
           thread'[t].pc = "write" /\ thread'[t].res = (IF p.writeRes # "ok" THEN p.writeRes ELSE thread[t].res)
      /\ p.writeIndex # s0 =>
           thread'[t].pc = Leaves(thread[t].finished, thread[t].res) /\ thread'[t].res = thread[t].res
  BY <1>1, PublishStep
<1>4. p'.stopReading = p.stopReading /\ p'.processed = p.processed /\ p'.readRes = p.readRes
      /\ p'.progressRes = p.progressRes /\ p'.writeRes = p.writeRes /\ p'.started = p.started
      /\ thread'[t].finished = thread[t].finished
  BY <1>2 DEF ReadPart, ErrorPart, CountPart, BlockPart
<1>5. LaterInCall
  BY <1>2, <1>4 DEF LaterInCall, CallerKept, InCall
<1>6. ThreadData(t)'
  <2>1. CASE p.writeIndex = s0
    <3>1. Clean' => thread'[t].res = "ok"
      BY <1>0, <1>2, <1>3, <1>4, <2>1 DEF ThreadData, LocalInv, Clean
    <3>2. thread'[t].res = "ok" => thread'[t].buf # None
      BY <1>0, <1>2, <1>3, <2>1 DEF ThreadData
    <3> QED
      BY <1>0, <1>2, <1>3, <1>4, <2>1, <3>1, <3>2 DEF ThreadData
  <2>2. CASE p.writeIndex # s0
    <3>1. thread'[t].pc \in {"tail", "turn"}
      BY <1>3, <2>2 DEF Leaves
    <3>2. Clean' /\ thread'[t].pc = "tail" => p'.stopReading
      BY <1>0, <1>2, <1>3, <1>4, <2>2 DEF ThreadData, Clean, Leaves
    <3> QED
      BY <3>1, <3>2 DEF ThreadData
  <2> QED
    BY <2>1, <2>2
<1>7. ASSUME NEW u \in CoderThreads, u # t
      PROVE  DataKept(u)
  <2>1. ASSUME thread[u].pc = "release", thread[u].ready
        PROVE  p'.blocks[thread[u].bi] = p.blocks[thread[u].bi]
    <3>1. Hold(u) /\ Hold(t) /\ thread[u].bi \in Slots
      BY <1>2, <2>1, ThreadTaken DEF Hold, Writes, ThreadFields
    <3>2. thread[u].bi # s0
      BY <1>1, <1>7, <3>1 DEF HoldInv
    <3> QED
      BY <1>2, <3>1, <3>2
  <2> QED
    BY <1>2, <1>4, <1>7, <2>1 DEF DataKept, OthersKept
<1>8. SlotData(s0)'
  BY <1>0, <1>2, <1>4 DEF SlotData, ThreadData, Entered, Clean
<1>9. \A s \in Slots : s # s0 /\ p'.ready[s] => EntryKept(s)
  BY <1>2 DEF EntryKept
<1> QED
  BY <1>5, <1>6, <1>7, <1>8, <1>9, LocalKeeps

\* A failure to write is recorded.
LEMMA LocalOfWrite ==
  ASSUME Typed, LocalInv, NEW t \in CoderThreads, Write(t)
  PROVE  LocalInv'
<1>0. ThreadData(t)
  BY DEF LocalInv
<1>1. /\ OthersKept(t) /\ CallerKept /\ outBuf' = outBuf /\ thread[t].pc = "write" /\ thread'[t].pc = "advance"
      /\ BlockPart(thread'[t]) = BlockPart(thread[t])
      /\ ReadPart(p') = ReadPart(p) /\ LinePart(p') = LinePart(p) /\ CountPart(p') = CountPart(p)
      /\ (p' = p /\ thread'[t].res = thread[t].res) \/ p'.progressRes # "ok"
  BY WriteStep
<1>2. p'.stopReading = p.stopReading /\ p'.processed = p.processed /\ p'.readRes = p.readRes
      /\ p'.started = p.started /\ thread'[t].finished = thread[t].finished
  BY <1>1 DEF ReadPart, CountPart, BlockPart
<1>3. ThreadData(t)'
  BY <1>0, <1>1, <1>2 DEF ThreadData, Clean
<1>4. p'.progressRes = "ok" => p.progressRes = "ok" /\ p'.readRes = p.readRes /\ p'.writeRes = p.writeRes
  BY <1>1, <1>2
<1> QED
  BY <1>1, <1>2, <1>3, <1>4, LocalOfOne

\* The thread takes over what the next entry says.
LEMMA LocalOfAdvance ==
  ASSUME Typed, LocalInv, NEW t \in CoderThreads, Advance(t)
  PROVE  LocalInv'
<1>0. ThreadData(t) /\ thread[t].bi \in Slots
  BY ThreadTaken DEF LocalInv, ThreadFields
<1>1. PICK w \in Slots : w = After(thread[t].bi)
  BY <1>0, AfterFacts DEF Typed
<1>2. /\ OthersKept(t) /\ CallerKept /\ outBuf' = outBuf /\ thread[t].pc = "advance" /\ thread'[t].pc = "release"
      /\ thread'[t].bi = w /\ thread'[t].res = thread[t].res /\ thread'[t].ready = p.ready[w]
      /\ BlockPart(thread'[t]) = BlockPart(thread[t])
      /\ ReadPart(p') = ReadPart(p) /\ CountPart(p') = CountPart(p) /\ ErrorPart(p') = ErrorPart(p)
      /\ p'.blocks = p.blocks /\ ~p'.ready[w] /\ \A s \in Slots : s # w => p'.ready[s] = p.ready[s]
  BY <1>1, AdvanceStep
<1>3. p'.stopReading = p.stopReading /\ p'.processed = p.processed /\ p'.readRes = p.readRes
      /\ p'.progressRes = p.progressRes /\ p'.writeRes = p.writeRes /\ p'.started = p.started
      /\ thread'[t].finished = thread[t].finished
  BY <1>2 DEF ReadPart, ErrorPart, CountPart, BlockPart
<1>4. LaterInCall
  BY <1>2, <1>3 DEF LaterInCall, CallerKept, InCall
<1>5. ThreadData(t)'
  <2>1. p.ready[w] => SlotData(w)'
    BY <1>2, <1>4, EntryKeeps DEF LocalInv
  <2>2. thread'[t].pc = "release" /\ thread'[t].ready => SlotData(thread[t].bi)'
    BY <1>2, <2>1 DEF SlotData
  <2> QED
    BY <1>0, <1>2, <1>3, <2>2 DEF ThreadData, Clean
<1>6. \A u \in CoderThreads : u # t => DataKept(u)
  BY <1>2, <1>3 DEF DataKept, OthersKept
<1>7. \A s \in Slots : p'.ready[s] => EntryKept(s)
  BY <1>2 DEF EntryKept
<1> QED
  BY <1>4, <1>5, <1>6, <1>7, LocalKeeps

\* ... and goes on with it.
LEMMA LocalOfRelease ==
  ASSUME Typed, LocalInv, NEW t \in CoderThreads, ReleaseSlot(t)
  PROVE  LocalInv'
<1>0. ThreadData(t) /\ thread[t].bi \in Slots
  BY ThreadTaken DEF LocalInv, ThreadFields
<1>1. PICK w \in Slots : w = thread[t].bi
  BY <1>0
<1>2. /\ OthersKept(t) /\ CallerKept /\ outBuf' = outBuf /\ thread[t].pc = "release" /\ thread'[t].bi = w
      /\ ReadPart(p') = ReadPart(p) /\ LinePart(p') = LinePart(p)
      /\ CountPart(p') = CountPart(p) /\ ErrorPart(p') = ErrorPart(p)
      /\ thread[t].ready =>
           /\ thread'[t].pc = "write" /\ thread'[t].buf = p.blocks[w].buf
           /\ thread'[t].finished = p.blocks[w].finished
           /\ thread'[t].res = (IF thread[t].res = "ok" THEN p.blocks[w].res ELSE thread[t].res)
      /\ ~thread[t].ready => thread'[t].pc = Leaves(thread[t].finished, thread[t].res)
  BY <1>1, ReleaseStep
<1>3. p'.stopReading = p.stopReading /\ p'.processed = p.processed /\ p'.readRes = p.readRes
      /\ p'.progressRes = p.progressRes /\ p'.writeRes = p.writeRes /\ p'.started = p.started
  BY <1>2 DEF ReadPart, ErrorPart, CountPart
<1>4. ThreadData(t)'
  <2>1. CASE thread[t].ready
    <3>1. SlotData(w)
      BY <1>0, <1>1, <1>2, <2>1 DEF ThreadData
    <3>2. /\ thread'[t].res = "ok" => p.blocks[w].res = "ok" /\ thread'[t].buf # None
          /\ thread'[t].finished => p'.stopReading
      BY <1>2, <1>3, <2>1, <3>1 DEF SlotData
    <3>3. Clean' => thread'[t].res = "ok"
      BY <1>0, <1>2, <1>3, <2>1, <3>1 DEF SlotData, ThreadData, Clean
    <3> QED
      BY <1>2, <2>1, <3>2, <3>3 DEF ThreadData
  <2>2. CASE ~thread[t].ready
    <3>1. thread'[t].pc \in {"tail", "turn"}
      BY <1>2, <2>2 DEF Leaves
    <3>2. Clean' /\ thread'[t].pc = "tail" => p'.stopReading
      BY <1>0, <1>2, <1>3, <2>2 DEF ThreadData, Clean, Leaves
    <3> QED
      BY <3>1, <3>2 DEF ThreadData
  <2> QED
    BY <2>1, <2>2
<1> QED
  BY <1>2, <1>3, <1>4, LocalOfOne

\* A call begins without blocks.
LEMMA LocalOfCaller ==
  ASSUME Typed, QuietInv, LocalInv,
         (Rested /\ CodeBegin) \/ CodeOpen \/ CodeEnd \/ Destruct \/ Freed \/ (\E t \in CoderThreads : StopThread(t))
           \/ UNCHANGED coderVars
  PROVE  LocalInv'
<1>1. CASE Rested /\ CodeBegin
  <2>1. /\ p' = Fresh /\ setup' = setup /\ main.pc = "idle"
        /\ \/ thread' = [thread EXCEPT ![0] = Started(@)]
           \/ thread' = thread /\ main'.pc = "idle"
    BY <1>1 DEF CodeBegin, Typed, MainRec
  <2>2. CoderThreads' = CoderThreads /\ Slots' = Slots
    BY <2>1, SizesKept
  <2>3. \A u \in CoderThreads : thread[u] \in ThreadRec /\ thread[u].pc \in {"absent", "start"}
    BY <1>1, <2>1, ThreadTaken DEF QuietInv, InCall, Rested
  <2>4. ASSUME NEW u \in CoderThreads
        PROVE  /\ thread'[u].pc \in {"absent", "start"}
               /\ InCall' /\ u < p'.started => thread'[u].start
    <3>1. p'.started = 1 /\ u \in Nat
      BY <2>1, SizeFacts DEF Fresh, CoderThreads, Typed
    <3>2. CASE thread' = [thread EXCEPT ![0] = Started(@)]
      <4>1. CASE u = 0
        <5>1. thread'[u] = Started(thread[u])
          BY <3>2, <4>1 DEF Typed
        <5>2. thread'[u].start /\ thread'[u].pc = "start"
          BY <2>3, <5>1 DEF Started, ThreadRec
        <5> QED
          BY <5>2
      <4>2. CASE u # 0
        <5>1. thread'[u] = thread[u] /\ ~(u < p'.started)
          BY <3>1, <3>2, <4>2 DEF Typed
        <5> QED
          BY <2>3, <5>1
      <4> QED
        BY <4>1, <4>2
    <3>3. CASE thread' = thread /\ main'.pc = "idle"
      BY <2>3, <3>3 DEF InCall
    <3> QED
      BY <2>1, <3>2, <3>3
  <2>5. \A u \in CoderThreads : ThreadData(u)'
    BY <2>4 DEF ThreadData
  <2>6. (\A s \in Slots : ~p'.ready[s]) /\ p'.readRes = "ok" /\ p'.writeRes = "ok"
    BY <2>1 DEF Fresh
  <2> QED
    BY <2>2, <2>5, <2>6 DEF LocalInv
<1>2. CASE CodeOpen \/ CodeEnd \/ Destruct \/ Freed \/ UNCHANGED coderVars
  <2>1. thread' = thread /\ outBuf' = outBuf /\ setup' = setup /\ (InCall' => InCall)
    BY <1>2 DEF CodeOpen, CodeEnd, Destruct, Freed, coderVars, InCall, Typed, MainRec
  <2>2. /\ p'.ready = p.ready /\ p'.blocks = p.blocks /\ p'.readRes = p.readRes /\ p'.writeRes = p.writeRes
        /\ p'.progressRes = p.progressRes /\ p'.stopReading = p.stopReading /\ p'.processed = p.processed
        /\ p'.started = p.started
    BY <1>2 DEF CodeOpen, CodeEnd, Destruct, Freed, coderVars, Typed, CoderRec
  <2>3. LaterInCall
    BY <2>1, <2>2 DEF LaterInCall
  <2>4. \A u \in CoderThreads : DataKept(u)
    BY <2>1, <2>2 DEF DataKept
  <2>5. \A s \in Slots : p'.ready[s] => EntryKept(s)
    BY <2>2 DEF EntryKept
  <2> QED
    BY <2>3, <2>4, <2>5, LocalKeeps
<1>3. ASSUME NEW t \in CoderThreads, StopThread(t)
      PROVE  LocalInv'
  <2>1. p' = p /\ outBuf' = outBuf /\ setup' = setup /\ main' = main /\ main.pc = "free"
        /\ thread' = [thread EXCEPT ![t] = [@ EXCEPT !.stop = TRUE, !.start = TRUE]]
    BY <1>3 DEF StopThread
  <2>2. ~InCall /\ ~InCall'
    BY <2>1 DEF InCall
  <2>3. thread[t].pc \in {"absent", "start", "compare"}
    BY <2>2 DEF QuietInv
  <2>4. thread'[t].pc \in {"absent", "start", "compare"}
    BY <2>1, <2>3, ThreadTaken DEF Typed, ThreadRec
  <2>5. ThreadData(t)'
    BY <2>2, <2>4 DEF ThreadData
  <2>6. \A u \in CoderThreads : u # t => DataKept(u)
    BY <2>1 DEF DataKept, Typed
  <2>7. LaterInCall
    BY <2>1, <2>2 DEF LaterInCall
  <2>8. \A s \in Slots : p'.ready[s] => EntryKept(s)
    BY <2>1 DEF EntryKept
  <2> QED
    BY <2>5, <2>6, <2>7, <2>8, LocalKeeps
<1> QED
  BY <1>1, <1>2, <1>3
-----------------------------------------------------------------------------
(* The order of the blocks: steps that move none                           *)

FlowKept ==
  /\ setup' = setup /\ written' = written /\ p'.processed = p.processed /\ p'.stopReading = p.stopReading
  /\ p'.progressRes = "ok" => p.progressRes = "ok"
  /\ \A t \in CoderThreads :
       /\ thread'[t].pc = "slot" <=> thread[t].pc = "slot"
       /\ thread[t].pc = "slot" => thread'[t].from = thread[t].from /\ thread'[t].to = thread[t].to
       /\ thread'[t].pc = "advance" <=> thread[t].pc = "advance"
  /\ \A s \in Slots : \A c \in Piece : Holds(s, c)' => Holds(s, c)

\* Such a step keeps the order.
LEMMA FlowKeeps ==
  ASSUME FlowKept, NEW f \in Slots, NEW u \in 0 .. NumBlocksMax, NEW e \in Nat, FlowAt(f, u, e)
  PROVE  FlowAt(f, u, e)'
<1>1. NumBlocksMax' = NumBlocksMax /\ CoderThreads' = CoderThreads /\ Slots' = Slots /\ setup' = setup
  BY SizesKept DEF FlowKept
<1>2. \A s \in Slots : Off(f, s)' = Off(f, s)
  BY <1>1 DEF Off
<1>3. Spent' = Spent
  BY <1>1 DEF Spent, FlowKept
<1>4. written' = written /\ End(written)' = End(written) /\ p'.stopReading = p.stopReading
  BY DEF FlowKept, End
<1>5. EdgeAt(e)'
  BY <1>1 DEF FlowAt, EdgeAt, FlowKept
<1>6. OrderAt(f, e)'
  BY <1>1, <1>2, <1>4 DEF FlowAt, OrderAt, FlowKept
<1>7. Clean' => ChainAt(f, u, e)
  BY DEF FlowAt, FlowKept, Clean
<1>8. ChainAt(f, u, e) => ChainAt(f, u, e)'
  BY <1>1, <1>2, <1>3, <1>4 DEF ChainAt, FlowKept
<1> QED
  BY <1>5, <1>6, <1>7, <1>8 DEF FlowAt

\* A step of one thread that changes no entry and no buffer.
LEMMA FlowOfOne ==
  ASSUME Typed, NEW t \in CoderThreads, OthersKept(t), CallerKept, written' = written, outBuf' = outBuf,
         p'.ready = p.ready, p'.blocks = p.blocks, p'.processed = p.processed, p'.stopReading = p.stopReading,
         p'.progressRes = "ok" => p.progressRes = "ok",
         thread[t].pc \notin {"slot", "advance"}, thread'[t].pc \notin {"slot", "advance"},
         \A s \in Slots : \A c \in Piece : HoldsIn(t, s, c)' => Holds(s, c)
  PROVE  FlowKept
<1>1. setup' = setup /\ CoderThreads' = CoderThreads
  BY SizesKept DEF CallerKept
<1>2. \A u \in CoderThreads : u # t => thread'[u] = thread[u]
  BY DEF OthersKept
<1>3. ASSUME NEW s \in Slots, NEW c \in Piece, Holds(s, c)'
      PROVE  Holds(s, c)
  <2>1. \A u \in CoderThreads : u # t /\ HoldsIn(u, s, c)' => HoldsIn(u, s, c)
    BY <1>2 DEF HoldsIn, Content
  <2> QED
    BY <1>1, <1>3, <2>1 DEF Holds
<1> QED
  BY <1>1, <1>2, <1>3 DEF FlowKept

\* Steps that neither code, publish, write nor pass on a block.
LEMMA FlowOfQuietThreads ==
  ASSUME Typed, QuietInv, CallInv, ReaderInv, BufferInv, NEW t \in CoderThreads,
         Wake(t) \/ Turn(t) \/ Buffer(t) \/ Count(t) \/ Compare(t)
  PROVE  FlowKept
<1>1. CASE Wake(t) \/ Turn(t) \/ Count(t) \/ Compare(t)
  <2>1. /\ OthersKept(t) /\ CallerKept /\ outBuf' = outBuf /\ written' = written
        /\ thread[t].pc \in {"start", "turn", "tail", "compare"}
        /\ p'.processed = p.processed /\ p'.stopReading = p.stopReading
        /\ LinePart(p') = LinePart(p) /\ ErrorPart(p') = ErrorPart(p)
    <3>1. CASE Wake(t)
      BY <3>1, WakeStep DEF LinePart, ErrorPart
    <3>2. CASE Turn(t)
      BY <3>2, TurnStep
    <3>3. CASE Count(t)
      BY <3>3, CountStep DEF ReadPart
    <3>4. CASE Compare(t)
      BY <3>4, CompareStep DEF ReadPart
    <3> QED
      BY <1>1, <3>1, <3>2, <3>3, <3>4
  <2>2. thread'[t].pc \in {"absent", "turn", "tail", "read", "compare", "start"}
    <3>1. CASE Wake(t)
      BY <3>1, WakeStep DEF Absent
    <3>2. CASE Turn(t)
      BY <3>2, TurnStep
    <3>3. CASE Count(t) \/ Compare(t)
      BY <3>3, CountStep, CompareStep
    <3> QED
      BY <1>1, <3>1, <3>2, <3>3
  <2>3. \A s \in Slots : \A c \in Piece : ~HoldsIn(t, s, c)'
    BY <2>2 DEF HoldsIn
  <2> QED
    BY <2>1, <2>2, <2>3, FlowOfOne DEF LinePart, ErrorPart
<1>2. CASE Buffer(t)
  <2>1. /\ OthersKept(t) /\ CallerKept /\ outBuf' = outBuf /\ written' = written
        /\ thread[t].pc = "buffer" /\ thread'[t].pc = "code" /\ thread'[t].bi = thread[t].bi
        /\ BlockPart(thread'[t]) = BlockPart(thread[t])
        /\ ReadPart(p') = ReadPart(p) /\ LinePart(p') = LinePart(p) /\ ErrorPart(p') = ErrorPart(p)
    BY <1>2, BufferStep DEF BufferInv
  <2>2. \A s \in Slots : \A c \in Piece : HoldsIn(t, s, c)' => HoldsIn(t, s, c)
    BY <2>1 DEF HoldsIn, Content, BlockPart
  <2>3. \A s \in Slots : \A c \in Piece : HoldsIn(t, s, c)' => Holds(s, c)
    BY <2>2 DEF Holds
  <2> QED
    BY <2>1, <2>3, FlowOfOne DEF LinePart, ErrorPart, ReadPart
<1> QED
  BY <1>1, <1>2

\* The thread that took over an entry holds the same block.
LEMMA FlowOfRelease ==
  ASSUME Typed, NEW t \in CoderThreads, ReleaseSlot(t)
  PROVE  FlowKept
<1>0. thread[t].bi \in Slots
  BY ThreadTaken DEF ThreadFields
<1>1. PICK w \in Slots : w = thread[t].bi
  BY <1>0
<1>2. /\ OthersKept(t) /\ CallerKept /\ outBuf' = outBuf /\ written' = written
      /\ thread[t].pc = "release" /\ thread'[t].bi = w
      /\ ReadPart(p') = ReadPart(p) /\ LinePart(p') = LinePart(p) /\ ErrorPart(p') = ErrorPart(p)
      /\ thread[t].ready =>
           /\ thread'[t].pc = "write" /\ thread'[t].buf = p.blocks[w].buf
           /\ thread'[t].res = (IF thread[t].res = "ok" THEN p.blocks[w].res ELSE thread[t].res)
      /\ ~thread[t].ready => thread'[t].pc = Leaves(thread[t].finished, thread[t].res)
  BY <1>1, ReleaseStep
<1>3. thread'[t].pc \in {"write", "tail", "turn"}
  BY <1>2 DEF Leaves
<1>4. \A s \in Slots : \A c \in Piece : HoldsIn(t, s, c)' => HoldsIn(t, s, c)
  <2>1. CASE thread[t].ready
    BY <1>1, <1>2, <2>1 DEF HoldsIn
  <2>2. CASE ~thread[t].ready
    <3>1. thread'[t].pc \in {"tail", "turn"}
      BY <1>2, <2>2 DEF Leaves
    <3> QED
      BY <3>1 DEF HoldsIn
  <2> QED
    BY <2>1, <2>2
<1>5. \A s \in Slots : \A c \in Piece : HoldsIn(t, s, c)' => Holds(s, c)
  BY <1>4 DEF Holds
<1> QED
  BY <1>2, <1>3, <1>5, FlowOfOne DEF LinePart, ErrorPart, ReadPart

\* A block is entered as it was coded.
LEMMA FlowOfPublish ==
  ASSUME Typed, HoldInv, LocalInv, NEW t \in CoderThreads, PublishBlock(t)
  PROVE  FlowKept
<1>0. ThreadFields(thread[t]) /\ ThreadData(t)
  BY ThreadTaken DEF LocalInv
<1>1. PICK s0 \in Slots : s0 = thread[t].bi
  BY <1>0 DEF ThreadFields
<1>2. /\ OthersKept(t) /\ CallerKept /\ outBuf' = outBuf /\ written' = written
      /\ thread[t].pc = "publish" /\ thread'[t].bi = s0 /\ thread'[t].buf = thread[t].buf
      /\ ReadPart(p') = ReadPart(p) /\ ErrorPart(p') = ErrorPart(p)
      /\ p'.blocks[s0] = Entered(t)
      /\ \A s \in Slots : s # s0 => p'.blocks[s] = p.blocks[s] /\ p'.ready[s] = p.ready[s]
  BY <1>1, PublishStep
<1>3. /\ p.writeIndex = s0 =>
           thread'[t].pc = "write" /\ thread'[t].res = (IF p.writeRes # "ok" THEN p.writeRes ELSE thread[t].res)
      /\ p.writeIndex # s0 => thread'[t].pc = Leaves(thread[t].finished, thread[t].res)
  BY <1>1, PublishStep
<1>4. setup' = setup /\ CoderThreads' = CoderThreads
  BY <1>2, SizesKept DEF CallerKept
<1>5. \A v \in CoderThreads : v # t => thread'[v] = thread[v]
  BY <1>2 DEF OthersKept
<1>6. thread'[t].pc \in {"write", "tail", "turn"}
  BY <1>3 DEF Leaves
<1>7. \A c \in Piece : thread[t].res = "ok" /\ c = outBuf[thread[t].buf] => HoldsIn(t, s0, c)
  BY <1>0, <1>1, <1>2 DEF HoldsIn, ThreadData
<1>8. ASSUME NEW s \in Slots, NEW c \in Piece, HoldsIn(t, s, c)'
      PROVE  Holds(s, c)
  <2>1. s = s0 /\ thread'[t].pc = "write" /\ thread'[t].res = "ok" /\ c = outBuf[thread[t].buf]
    BY <1>2, <1>6, <1>8 DEF HoldsIn
  <2>2. thread[t].res = "ok"
    BY <1>3, <2>1 DEF Leaves
  <2> QED
    BY <1>7, <2>1, <2>2 DEF Holds
<1>9. ASSUME NEW v \in CoderThreads, v # t, NEW s \in Slots, NEW c \in Piece, HoldsIn(v, s, c)'
      PROVE  Holds(s, c)
  <2>1. thread[v].bi = s /\ thread'[v] = thread[v]
    BY <1>5, <1>9 DEF HoldsIn
  <2>2. CASE s # s0
    <3>1. HoldsIn(v, s, c)
      BY <1>2, <1>9, <2>1, <2>2 DEF HoldsIn, Content
    <3> QED
      BY <3>1 DEF Holds
  <2>3. CASE s = s0
    <3>1. Hold(t) /\ Hold(v)
      BY <1>2, <1>9, <2>1 DEF Hold, Writes, HoldsIn
    <3> QED
      BY <1>1, <1>9, <2>1, <2>3, <3>1 DEF HoldInv
  <2> QED
    BY <2>2, <2>3
<1>10. ASSUME NEW s \in Slots, NEW c \in Piece, p'.ready[s], p'.blocks[s].res = "ok", c = outBuf[p'.blocks[s].buf]
       PROVE  Holds(s, c)
  <2>1. CASE s # s0
    BY <1>2, <1>10, <2>1 DEF Holds
  <2>2. CASE s = s0
    BY <1>2, <1>7, <1>10, <2>2 DEF Holds, Entered
  <2> QED
    BY <2>1, <2>2
<1>11. \A s \in Slots : \A c \in Piece : Holds(s, c)' => Holds(s, c)
  BY <1>2, <1>4, <1>8, <1>9, <1>10 DEF Holds
<1> QED
  BY <1>2, <1>4, <1>5, <1>6, <1>11 DEF FlowKept, ReadPart, ErrorPart

\* A block is coded into a buffer that no other slot has.
LEMMA FlowOfCode ==
  ASSUME Typed, HoldInv, BufferInv, LocalInv, NEW t \in CoderThreads, Code(t)
  PROVE  FlowKept
<1>1. /\ OthersKept(t) /\ CallerKept /\ thread[t].pc = "code" /\ thread'[t].pc = "publish" /\ written' = written
      /\ thread'[t].bi = thread[t].bi /\ thread'[t].buf = thread[t].buf
      /\ BlockPart(thread'[t]) = BlockPart(thread[t])
      /\ ReadPart(p') = ReadPart(p) /\ LinePart(p') = LinePart(p)
  BY CodeStep
<1>2. \/ p' = p /\ outBuf' = [outBuf EXCEPT ![thread[t].buf] = Content(thread[t])]
      \/ p'.progressRes # "ok" /\ outBuf' = outBuf
  BY CodeStep
<1>3. ThreadData(t) /\ ThreadFields(thread[t]) /\ thread[t].buf # None
  BY <1>1, ThreadTaken DEF LocalInv, ThreadData
<1>4. PICK b \in Buffers : b = thread[t].buf
  BY <1>3 DEF ThreadFields
<1>5. PICK s0 \in Slots : s0 = thread[t].bi
  BY <1>3 DEF ThreadFields
<1>6. setup' = setup /\ CoderThreads' = CoderThreads /\ p'.ready = p.ready /\ p'.blocks = p.blocks
  BY <1>1, SizesKept DEF CallerKept, LinePart
<1>7. \A v \in CoderThreads : v # t => thread'[v] = thread[v]
  BY <1>1 DEF OthersKept
<1>8. \A d \in Buffers : d # b => outBuf'[d] = outBuf[d]
  BY <1>2, <1>4 DEF Typed
<1>9. \A s \in Slots, d \in Buffers : s # s0 /\ Has(s, d) => d # b
  BY <1>1, <1>4, <1>5, OthersBuffers
<1>10. Hold(t)
  BY <1>1 DEF Hold
<1>11. ASSUME NEW s \in Slots, NEW c \in Piece, p.ready[s], p.blocks[s].res = "ok", c = outBuf'[p.blocks[s].buf]
       PROVE  Holds(s, c)
  <2>1. s # s0
    BY <1>5, <1>10, <1>11 DEF HoldInv
  <2>2. p.blocks[s].buf \in Buffers
    <3>1. p.blocks[s].buf # None
      BY <1>11 DEF LocalInv, SlotData
    <3>2. p.blocks[s].buf \in Buffers \cup {None}
      BY CoderTaken DEF CoderFields, BlockRec
    <3> QED
      BY <3>1, <3>2
  <2>3. Has(s, p.blocks[s].buf)
    BY <1>11 DEF Has
  <2>4. outBuf'[p.blocks[s].buf] = outBuf[p.blocks[s].buf]
    BY <1>8, <1>9, <2>1, <2>2, <2>3
  <2> QED
    BY <1>11, <2>4 DEF Holds
<1>12. ASSUME NEW v \in CoderThreads, v # t, NEW s \in Slots, NEW c \in Piece, HoldsIn(v, s, c)'
       PROVE  Holds(s, c)
  <2>1. thread[v].bi = s /\ thread'[v] = thread[v] /\ ThreadData(v) /\ ThreadFields(thread[v])
    BY <1>7, <1>12, ThreadTaken DEF HoldsIn, LocalInv
  <2>2. s # s0
    <3>1. Hold(v)
      BY <1>12, <2>1 DEF Hold, Writes, HoldsIn
    <3> QED
      BY <1>5, <1>10, <1>12, <2>1, <3>1 DEF HoldInv
  <2>3. CASE thread[v].pc \in {"buffer", "code", "publish"}
    <3>1. HoldsIn(v, s, c)
      BY <1>12, <2>1, <2>3 DEF HoldsIn, Content
    <3> QED
      BY <3>1 DEF Holds
  <2>4. CASE thread[v].pc = "write" /\ thread[v].res = "ok" /\ c = outBuf'[thread[v].buf]
    <3>1. thread[v].buf \in Buffers
      BY <2>1, <2>4 DEF ThreadData, ThreadFields
    <3>2. Has(s, thread[v].buf)
      BY <2>1, <2>4 DEF Has, HasIn
    <3>3. outBuf'[thread[v].buf] = outBuf[thread[v].buf]
      BY <1>8, <1>9, <2>2, <3>1, <3>2
    <3>4. HoldsIn(v, s, c)
      BY <2>1, <2>4, <3>3 DEF HoldsIn
    <3> QED
      BY <3>4 DEF Holds
  <2>5. CASE thread[v].pc = "release" /\ thread[v].ready /\ p.blocks[s].res = "ok" /\ c = outBuf'[p.blocks[s].buf]
    <3>1. p.blocks[s].buf # None
      BY <2>1, <2>5 DEF ThreadData, SlotData
    <3>2. p.blocks[s].buf \in Buffers
      BY <3>1, CoderTaken DEF CoderFields, BlockRec
    <3>3. Has(s, p.blocks[s].buf)
      BY <2>1, <2>5 DEF Has, HasIn
    <3>4. outBuf'[p.blocks[s].buf] = outBuf[p.blocks[s].buf]
      BY <1>8, <1>9, <2>2, <3>2, <3>3
    <3>5. HoldsIn(v, s, c)
      BY <2>1, <2>5, <3>4 DEF HoldsIn
    <3> QED
      BY <3>5 DEF Holds
  <2> QED
    BY <1>6, <1>12, <2>1, <2>3, <2>4, <2>5 DEF HoldsIn
<1>13. ASSUME NEW s \in Slots, NEW c \in Piece, HoldsIn(t, s, c)'
       PROVE  Holds(s, c)
  <2>1. HoldsIn(t, s, c)
    BY <1>1, <1>13 DEF HoldsIn, Content, BlockPart
  <2> QED
    BY <2>1 DEF Holds
<1>14. \A s \in Slots : \A c \in Piece : Holds(s, c)' => Holds(s, c)
  BY <1>6, <1>11, <1>12, <1>13 DEF Holds
<1> QED
  BY <1>1, <1>2, <1>6, <1>7, <1>14 DEF FlowKept, ReadPart

\* The steps of the caller in a call and after it.
LEMMA FlowOfCaller ==
  ASSUME Typed, QuietInv,
         CodeOpen \/ CodeEnd \/ Destruct \/ Freed \/ (\E t \in CoderThreads : StopThread(t)) \/ UNCHANGED coderVars
  PROVE  FlowKept
<1>1. CASE CodeOpen \/ CodeEnd \/ Destruct \/ Freed \/ UNCHANGED coderVars
  <2>1. thread' = thread /\ outBuf' = outBuf /\ setup' = setup /\ written' = written
    BY <1>1 DEF CodeOpen, CodeEnd, Destruct, Freed, coderVars
  <2>2. /\ p'.ready = p.ready /\ p'.blocks = p.blocks /\ p'.stopReading = p.stopReading
        /\ p'.processed = p.processed /\ p'.progressRes = p.progressRes
    BY <1>1 DEF CodeOpen, CodeEnd, Destruct, Freed, coderVars, Typed, CoderRec
  <2>3. CoderThreads' = CoderThreads
    BY <2>1, SizesKept
  <2>4. \A s \in Slots : \A c \in Piece : Holds(s, c)' => Holds(s, c)
    BY <2>1, <2>2, <2>3 DEF Holds, HoldsIn, Content
  <2> QED
    BY <2>1, <2>2, <2>4 DEF FlowKept
<1>2. ASSUME NEW t \in CoderThreads, StopThread(t)
      PROVE  FlowKept
  <2>1. p' = p /\ outBuf' = outBuf /\ setup' = setup /\ main' = main /\ main.pc = "free" /\ written' = written
        /\ thread' = [thread EXCEPT ![t] = [@ EXCEPT !.stop = TRUE, !.start = TRUE]]
    BY <1>2 DEF StopThread
  <2>2. thread[t].pc \in {"absent", "start", "compare"}
    BY <2>1 DEF QuietInv, InCall
  <2>3. thread'[t].pc \in {"absent", "start", "compare"} /\ OthersKept(t)
    BY <2>1, <2>2, ThreadTaken DEF Typed, ThreadRec, OthersKept
  <2>4. \A s \in Slots : \A c \in Piece : ~HoldsIn(t, s, c)'
    BY <2>3 DEF HoldsIn
  <2> QED
    BY <2>1, <2>2, <2>3, <2>4, FlowOfOne DEF CallerKept
<1> QED
  BY <1>1, <1>2
-----------------------------------------------------------------------------
(* The order of the blocks: steps that move one                            *)

\* A slot that holds a block is in use; the one that is written is the first.
LEMMA HoldsFacts ==
  ASSUME Typed, NEW f \in Slots, NEW u \in 0 .. NumBlocksMax, SlotsAt(f, u)
  PROVE  /\ \A s \in Slots : \A c : Holds(s, c) => Off(f, s) < u
         /\ Spent \in 0 .. 1 /\ Spent <= u
<1>1. \A s \in Slots : \A c : Holds(s, c) => InUse(s)
  BY DEF Holds, HoldsIn, InUse, Hold, Writes
<1>2. \A s \in Slots : \A c : Holds(s, c) => Off(f, s) < u
  BY <1>1 DEF SlotsAt
<1>3. ASSUME NEW t \in CoderThreads, thread[t].pc = "advance"
      PROVE  u > 0
  <2>1. Writes(t) /\ Hold(t)
    BY <1>3 DEF Writes, Hold
  <2>2. thread[t].bi = f
    BY <2>1 DEF SlotsAt
  <2>3. InUse(f)
    BY <2>1, <2>2 DEF InUse
  <2>4. Off(f, f) < u
    BY <2>3 DEF SlotsAt
  <2> QED
    BY <2>4, OffFacts DEF Typed
<1>4. CASE \E t \in CoderThreads : thread[t].pc = "advance"
  BY <1>2, <1>3, <1>4 DEF Spent
<1>5. CASE ~\E t \in CoderThreads : thread[t].pc = "advance"
  BY <1>2, <1>5 DEF Spent
<1> QED
  BY <1>4, <1>5

\* A call begins with nothing written and nothing read.
LEMMA FlowOfBegin ==
  ASSUME Typed, QuietInv, CodeBegin
  PROVE  0 \in Slots /\ FlowAt(0, 0, 0)'
<1>1. p' = Fresh /\ setup' = setup /\ written' = <<>>
  BY DEF CodeBegin
<1>2. CoderThreads' = CoderThreads /\ Slots' = Slots
  BY <1>1, SizesKept
<1>3. \A t \in CoderThreads : thread'[t].pc \in {"absent", "start", "compare"}
  BY BeginThreads
<1>4. p'.processed = 0 /\ p'.stopReading = FALSE /\ \A s \in Slots : ~p'.ready[s]
  BY <1>1 DEF Fresh
<1>5. \A s \in Slots : \A c \in Piece : ~Holds(s, c)'
  BY <1>2, <1>3, <1>4 DEF Holds, HoldsIn
<1>6. End(written)' = 0 /\ Spent' = 0
  BY <1>1, <1>2, <1>3 DEF End, Spent
<1>7. EdgeAt(0)'
  BY <1>2, <1>3, <1>4 DEF EdgeAt
<1>8. OrderAt(0, 0)'
  BY <1>1, <1>2, <1>5, <1>6 DEF OrderAt
<1>9. ChainAt(0, 0, 0)'
  BY <1>1, <1>2, <1>4, <1>5, <1>6 DEF ChainAt
<1>10. 0 \in Slots
  BY SizeFacts DEF Slots, Typed
<1> QED
  BY <1>7, <1>8, <1>9, <1>10 DEF FlowAt

\* What is read comes behind the slots in use.
LEMMA FlowOfRead ==
  ASSUME Typed, ReaderInv, NEW t \in CoderThreads, Read(t),
         NEW f \in Slots, NEW u \in 0 .. NumBlocksMax, NEW e \in Nat, FlowAt(f, u, e)
  PROVE  FlowAt(f, u, e)'
<1>1. /\ OthersKept(t) /\ CallerKept /\ outBuf' = outBuf /\ written' = written
      /\ thread[t].pc = "read" /\ thread'[t].pc = "slot" /\ thread'[t].from = p.processed
      /\ thread'[t].to = p'.processed /\ p.processed <= p'.processed /\ p'.stopReading = p.stopReading
      /\ LinePart(p') = LinePart(p)
      /\ p'.progressRes = "ok" => p.progressRes = "ok"
  BY ReadStep DEF ReaderInv
<1>2. \A v \in CoderThreads : thread[v].pc # "slot"
  BY <1>1 DEF ReaderInv, Reads
<1>3. NumBlocksMax' = NumBlocksMax /\ CoderThreads' = CoderThreads /\ Slots' = Slots /\ setup' = setup
  BY <1>1, SizesKept DEF CallerKept
<1>4. \A v \in CoderThreads : v # t => thread'[v] = thread[v]
  BY <1>1 DEF OthersKept
<1>5. p.processed = e
  BY <1>2 DEF FlowAt, EdgeAt
<1>6. EdgeAt(e)'
  <2>1. \A v \in CoderThreads : thread'[v].pc = "slot" => v = t
    BY <1>2, <1>4
  <2>2. p'.processed \in Nat
    BY ReadStep, CoderTaken DEF ReaderInv, CoderRec
  <2>3. thread'[t].from = e /\ e <= thread'[t].to /\ thread'[t].to <= p'.processed /\ e <= p'.processed
    BY <1>1, <1>5, <2>2
  <2> QED
    BY <1>1, <1>3, <2>1, <2>3 DEF EdgeAt
<1>7. \A s \in Slots : \A c \in Piece : Holds(s, c)' => Holds(s, c)
  <2>1. \A s \in Slots : \A c \in Piece : ~HoldsIn(t, s, c)'
    BY <1>1 DEF HoldsIn
  <2>2. \A v \in CoderThreads, s \in Slots : \A c \in Piece : v # t /\ HoldsIn(v, s, c)' => HoldsIn(v, s, c)
    BY <1>1, <1>4 DEF HoldsIn, Content, LinePart
  <2> QED
    BY <1>1, <1>3, <2>1, <2>2 DEF Holds, LinePart
<1>8. \A s \in Slots : Off(f, s)' = Off(f, s)
  BY <1>3 DEF Off
<1>9. Spent' = Spent
  <2>1. \A v \in CoderThreads : thread'[v].pc = "advance" <=> thread[v].pc = "advance"
    BY <1>1, <1>4
  <2> QED
    BY <1>3, <2>1 DEF Spent
<1>10. End(written)' = End(written)
  BY <1>1 DEF End
<1>11. OrderAt(f, e)'
  BY <1>1, <1>3, <1>7, <1>8, <1>10 DEF FlowAt, OrderAt
<1>12. Clean' => ChainAt(f, u, e)
  BY <1>1 DEF FlowAt, Clean
<1>13. ChainAt(f, u, e) => ChainAt(f, u, e)'
  BY <1>1, <1>3, <1>7, <1>8, <1>9, <1>10 DEF ChainAt
<1> QED
  BY <1>6, <1>11, <1>12, <1>13 DEF FlowAt

\* Positions are numbers.
LEMMA EndTyped ==
  ASSUME Typed
  PROVE  End(written) \in Nat /\ \A c \in Piece : c.from \in Nat /\ c.to \in Nat
<1>1. \A c \in Piece : c.from \in Nat /\ c.to \in Nat
  BY DEF Piece
<1>2. CASE written = <<>>
  BY <1>1, <1>2 DEF End
<1>3. CASE written # <<>>
  <2>1. written[Len(written)] \in Piece
    BY <1>3 DEF Typed
  <2> QED
    BY <1>1, <1>3, <2>1 DEF End
<1> QED
  BY <1>2, <1>3

\* The block that was read takes the slot behind the others.
LEMMA FlowOfTakeSlot ==
  ASSUME Typed, QuietInv, CallInv, ReaderInv, SlotsInv, HoldInv, LocalInv, NEW t \in CoderThreads, TakeSlot(t),
         NEW f \in Slots, NEW u \in 0 .. NumBlocksMax - 1, NEW e \in Nat, SlotsAt(f, u), FlowAt(f, u, e),
         NEW g \in Nat, g = p.processed
  PROVE  FlowAt(f, u + 1, g)'
<1>0. thread[t].pc = "slot" /\ ThreadFields(thread[t]) /\ ThreadData(t) /\ setup \in Setups
  BY ThreadTaken DEF TakeSlot, LocalInv, Typed
<1>1. t < p.started /\ InCall /\ p.started \in Nat
  BY <1>0, WorkFacts, OverFacts DEF Working
<1>2. PICK fin \in BOOLEAN, res \in Codes :
        /\ HasTaken(t, thread'[t], fin, res) /\ SlotTaken(fin) /\ (res # "ok" => fin)
        /\ p.progressRes = "ok" /\ thread[t].res = "ok" /\ p'.progressRes = "ok" =>
             res = "ok" /\ fin = thread[t].finished
        /\ \/ OthersKept(t) /\ p'.started = p.started /\ p'.progressRes = p.progressRes
           \/ OthersKept(t) /\ p'.started = p.started /\ p'.progressRes # "ok"
           \/ /\ p'.started = p.started + 1 /\ p.started \in CoderThreads
              /\ p'.progressRes = p.progressRes
              /\ thread'[p.started] = Started(thread[p.started])
              /\ \A v \in CoderThreads : v # t /\ v # p.started => thread'[v] = thread[v]
  BY <1>1, TakeSlotStep
<1>3. CallerKept /\ outBuf' = outBuf /\ written' = written
  BY <1>1, TakeSlotStep
<1>4. p'.ready = p.ready /\ p'.blocks = p.blocks /\ p'.stopReading = fin /\ ~p.stopReading /\ p'.processed = g
  BY <1>0, <1>2 DEF SlotTaken, LinePart, ReaderInv, Reads
<1>5. Clean' => Clean
  BY <1>2 DEF Clean
<1>6. NumBlocksMax' = NumBlocksMax /\ CoderThreads' = CoderThreads /\ Slots' = Slots /\ setup' = setup
  BY <1>3, SizesKept DEF CallerKept
<1>7. ASSUME NEW v \in CoderThreads, v # t
      PROVE  thread[v].pc # "slot" /\ (thread'[v] = thread[v] \/ (thread[v].pc \in {"absent", "start"} /\ thread'[v].pc = "start"))
  <2>1. thread[v].pc # "slot"
    BY <1>0, <1>7 DEF ReaderInv, Reads
  <2>2. CASE thread'[v] # thread[v]
    <3>1. v = p.started /\ thread'[v] = Started(thread[v])
      BY <1>2, <1>7, <2>2 DEF OthersKept
    <3>2. thread[v].pc \in {"absent", "start"} /\ thread[v] \in ThreadRec
      BY <1>1, <3>1, ThreadTaken DEF CallInv
    <3>3. thread'[v].pc = "start"
      BY <3>1, <3>2 DEF Started, ThreadRec
    <3> QED
      BY <2>1, <3>2, <3>3
  <2> QED
    BY <2>1, <2>2
<1>8. PICK w \in Slots : w = p.blockIndex
  BY CoderTaken DEF CoderFields
<1>n. NumBlocksMax \in Nat /\ f \in Nat /\ u \in Nat
  BY <1>0, SizeFacts DEF Slots
<1>9. \A s \in Slots : Off(f, s) = u <=> s = w
  <2>1. w = Behind(f, u)
    BY <1>8 DEF SlotsAt, Behind
  <2>2. u \in 0 .. NumBlocksMax /\ u < NumBlocksMax
    BY <1>n
  <2> QED
    BY <1>0, <2>1, <2>2, BehindFacts
<1>10. \A s \in Slots : Off(f, s) \in Nat
  BY <1>0, OffFacts
<1>11. (\A s \in Slots : \A c : Holds(s, c) => Off(f, s) < u) /\ Spent \in 0 .. 1 /\ Spent <= u
  BY <1>n, HoldsFacts
<1>12. /\ thread'[t].bi = w /\ thread'[t].pc \in {"buffer", "publish"}
       /\ thread'[t].from = thread[t].from /\ thread'[t].to = thread[t].to /\ thread'[t].finished = fin
  BY <1>2, <1>8 DEF HasTaken
<1>13. PICK b \in Piece : b = [from |-> thread[t].from, to |-> thread[t].to, finished |-> fin]
  BY <1>0 DEF Piece, ThreadFields
<1>14. \A s \in Slots : \A c \in Piece : Holds(s, c)' => Holds(s, c) \/ (s = w /\ c = b)
  <2>1. \A s \in Slots : \A c \in Piece : HoldsIn(t, s, c)' => s = w /\ c = b
    BY <1>12, <1>13 DEF HoldsIn, Content
  <2>2. \A v \in CoderThreads, s \in Slots : \A c \in Piece : v # t /\ HoldsIn(v, s, c)' => HoldsIn(v, s, c)
    BY <1>3, <1>4, <1>7 DEF HoldsIn, Content
  <2> QED
    BY <1>3, <1>4, <1>6, <2>1, <2>2 DEF Holds
<1>15. EdgeAt(g)'
  <2>1. \A v \in CoderThreads : thread'[v].pc # "slot"
    BY <1>7, <1>12
  <2> QED
    BY <1>4, <1>6, <2>1 DEF EdgeAt
<1>16. b.from = e /\ e <= b.to /\ b.to <= g /\ b.finished = fin /\ b.from \in Nat /\ b.to \in Nat /\ e <= g
  BY <1>0, <1>13 DEF FlowAt, EdgeAt, ThreadFields
<1>17. End(written)' = End(written) /\ \A s \in Slots : Off(f, s)' = Off(f, s)
  BY <1>3, <1>6 DEF End, Off
<1>18. Spent' = Spent
  <2>1. \A v \in CoderThreads : thread'[v].pc = "advance" <=> thread[v].pc = "advance"
    BY <1>0, <1>7, <1>12
  <2> QED
    BY <1>6, <2>1 DEF Spent
<1>o. /\ End(written) <= e
      /\ \A i \in 1 .. Len(written) - 1 : written[i].to <= written[i + 1].from
      /\ \A s \in Slots : \A c \in Piece : Holds(s, c) => End(written) <= c.from /\ c.from <= c.to /\ c.to <= e
      /\ \A r, s \in Slots : \A c, d \in Piece :
           Holds(r, c) /\ Holds(s, d) /\ Off(f, r) < Off(f, s) => c.to <= d.from
  BY DEF FlowAt, OrderAt
<1>t. End(written) \in Nat /\ \A c \in Piece : c.from \in Nat /\ c.to \in Nat
  BY EndTyped
<1>19. OrderAt(f, g)'
  <2>1. End(written) <= g
    BY <1>o, <1>16, <1>t
  <2>2. ASSUME NEW s \in Slots, NEW c \in Piece, Holds(s, c)'
        PROVE  End(written) <= c.from /\ c.from <= c.to /\ c.to <= g
    <3>1. CASE Holds(s, c)
      BY <1>o, <1>16, <1>t, <3>1
    <3>2. CASE c = b
      BY <1>o, <1>16, <1>t, <3>2
    <3> QED
      BY <1>14, <2>2, <3>1, <3>2
  <2>3. ASSUME NEW r \in Slots, NEW s \in Slots, NEW c \in Piece, NEW d \in Piece,
               Holds(r, c)', Holds(s, d)', Off(f, r) < Off(f, s)
        PROVE  c.to <= d.from
    <3>1. Holds(r, c)
      <4>1. CASE r = w
        <5>1. Off(f, r) = u /\ Off(f, s) # u
          BY <1>9, <1>10, <2>3, <4>1
        <5>2. Holds(s, d)
          BY <1>9, <1>14, <2>3, <5>1
        <5>3. Off(f, s) < u
          BY <1>11, <5>2
        <5> QED
          BY <1>n, <1>10, <2>3, <5>1, <5>3
      <4> QED
        BY <1>14, <2>3, <4>1
    <3>2. CASE Holds(s, d)
      BY <1>o, <2>3, <3>1, <3>2
    <3>3. CASE d = b
      BY <1>o, <1>16, <3>1, <3>3
    <3> QED
      BY <1>14, <2>3, <3>2, <3>3
  <2> QED
    BY <1>o, <1>3, <1>6, <1>17, <2>1, <2>2, <2>3 DEF OrderAt
<1>20. ASSUME Clean'
       PROVE  ChainAt(f, u + 1, g)'
  <2>0. ChainAt(f, u, e) /\ Clean
    BY <1>5, <1>20 DEF FlowAt
  <2>1. b.to = g /\ (b.finished => b.to = setup.size)
    <3>1. /\ thread[t].to = p.processed /\ (thread[t].finished => thread[t].to = setup.size) /\ thread[t].res = "ok"
      BY <1>0, <2>0 DEF ThreadData
    <3>2. fin = thread[t].finished
      BY <1>2, <1>20, <2>0, <3>1 DEF Clean
    <3> QED
      BY <1>13, <3>1, <3>2
  <2>2. ASSUME NEW s \in Slots, NEW c \in Piece, Holds(s, c)
        PROVE  ~c.finished /\ (Off(f, s) = Spent => c.from = End(written)) /\ Off(f, s) # u
    <3>1. Off(f, s) # u
      BY <1>10, <1>11, <1>n, <2>2
    <3> QED
      BY <1>4, <2>0, <2>2, <3>1 DEF ChainAt
  <2>3. u = Spent => End(written) = e
    BY <2>0 DEF ChainAt
  <2>4. ASSUME NEW s \in Slots, NEW c \in Piece, Holds(s, c)'
        PROVE  /\ Off(f, s) = Spent => c.from = End(written)
               /\ Off(f, s) = u + 1 - 1 => c.to = g
               /\ c.finished <=> fin /\ Off(f, s) = u + 1 - 1
               /\ c.finished => c.to = setup.size
    <3>1. CASE Holds(s, c)
      BY <1>n, <1>10, <1>11, <2>2, <3>1, <1>4, <2>0 DEF ChainAt
    <3>2. CASE s = w /\ c = b
      BY <1>n, <1>9, <1>16, <2>1, <2>3, <3>2
    <3> QED
      BY <1>14, <2>4, <3>1, <3>2
  <2>5. ASSUME NEW r \in Slots, NEW s \in Slots, NEW c \in Piece, NEW d \in Piece,
               Holds(r, c)', Holds(s, d)', Off(f, s) = Off(f, r) + 1
        PROVE  c.to = d.from
    <3>1. Holds(r, c)
      <4>1. CASE r = w
        <5>1. Off(f, r) = u /\ Off(f, s) # u
          BY <1>9, <1>10, <2>5, <4>1
        <5>2. Holds(s, d)
          BY <1>9, <1>14, <2>5, <5>1
        <5>3. Off(f, s) < u
          BY <1>11, <5>2
        <5> QED
          BY <1>n, <1>10, <2>5, <5>1, <5>3
      <4> QED
        BY <1>14, <2>5, <4>1
    <3>2. CASE Holds(s, d)
      BY <2>0, <2>5, <3>1, <3>2 DEF ChainAt
    <3>3. CASE s = w /\ d = b
      <4>0. Off(f, s) = u /\ Off(f, r) \in Nat
        BY <1>9, <1>10, <3>3
      <4>1. Off(f, r) = u - 1
        BY <1>n, <2>5, <4>0
      <4>2. c.to = e
        BY <2>0, <3>1, <4>1 DEF ChainAt
      <4> QED
        BY <1>16, <3>3, <4>2
    <3> QED
      BY <1>14, <2>5, <3>2, <3>3
  <2>6. u + 1 # Spent
    BY <1>n, <1>11
  <2>7. written # <<>> => written[1].from = 0 /\ ~written[Len(written)].finished
    BY <1>4, <2>0 DEF ChainAt
  <2>8. \A i \in 1 .. Len(written) - 1 : ~written[i].finished /\ written[i].to = written[i + 1].from
    BY <2>0 DEF ChainAt
  <2> QED
    BY <1>3, <1>4, <1>6, <1>17, <1>18, <2>4, <2>5, <2>6, <2>7, <2>8 DEF ChainAt
<1> QED
  BY <1>15, <1>19, <1>20 DEF FlowAt

\* The block of the first slot is written.
LEMMA FlowOfWrite ==
  ASSUME Typed, SlotsInv, HoldInv, LocalInv, NEW t \in CoderThreads, Write(t),
         NEW f \in Slots, NEW u \in 0 .. NumBlocksMax, NEW e \in Nat, SlotsAt(f, u), FlowAt(f, u, e)
  PROVE  FlowAt(f, u, e)'
<1>0. ThreadFields(thread[t]) /\ ThreadData(t) /\ setup \in Setups /\ f \in Nat /\ u \in Nat
  BY ThreadTaken, SizeFacts DEF LocalInv, Typed, Slots
<1>1. /\ OthersKept(t) /\ CallerKept /\ outBuf' = outBuf
      /\ thread[t].pc = "write" /\ thread'[t].pc = "advance" /\ thread'[t].bi = thread[t].bi
      /\ ReadPart(p') = ReadPart(p) /\ LinePart(p') = LinePart(p)
      /\ \/ /\ p' = p /\ thread[t].res = "ok" /\ thread[t].buf # None
            /\ outBuf[thread[t].buf] \in Piece /\ written' = Append(written, outBuf[thread[t].buf])
         \/ p'.progressRes # "ok" /\ written' = written
         \/ p' = p /\ written' = written /\ (thread[t].res # "ok" \/ thread[t].buf = None)
  BY WriteStep
<1>2. NumBlocksMax' = NumBlocksMax /\ CoderThreads' = CoderThreads /\ Slots' = Slots /\ setup' = setup
  BY <1>1, SizesKept DEF CallerKept
<1>3. \A v \in CoderThreads : v # t => thread'[v] = thread[v]
  BY <1>1 DEF OthersKept
<1>4. p'.processed = p.processed /\ p'.stopReading = p.stopReading /\ p'.ready = p.ready /\ p'.blocks = p.blocks
  BY <1>1 DEF ReadPart, LinePart
<1>5. Hold(t) /\ Writes(t) /\ thread[t].bi = f
  <2>1. Hold(t) /\ Writes(t)
    BY <1>1 DEF Hold, Writes
  <2> QED
    BY <2>1 DEF SlotsAt
<1>6. ~p.ready[f] /\ \A v \in CoderThreads : v # t /\ Hold(v) => thread[v].bi # f
  BY <1>5 DEF HoldInv
<1>7. ASSUME NEW s \in Slots, NEW c \in Piece, Holds(s, c)'
      PROVE  Holds(s, c) /\ s # f
  <2>1. ~HoldsIn(t, s, c)'
    BY <1>1 DEF HoldsIn
  <2>2. \A v \in CoderThreads : v # t /\ HoldsIn(v, s, c)' => HoldsIn(v, s, c)
    BY <1>1, <1>3, <1>4 DEF HoldsIn, Content
  <2>3. \A v \in CoderThreads : HoldsIn(v, s, c) => Hold(v) /\ thread[v].bi = s
    BY DEF HoldsIn, Hold, Writes
  <2>4. CASE p.ready[s] /\ p.blocks[s].res = "ok" /\ c = outBuf[p.blocks[s].buf]
    BY <1>6, <2>4 DEF Holds
  <2>5. ASSUME NEW v \in CoderThreads, v # t, HoldsIn(v, s, c)
        PROVE  Holds(s, c) /\ s # f
    BY <1>6, <2>3, <2>5 DEF Holds
  <2> QED
    BY <1>1, <1>2, <1>4, <1>7, <2>1, <2>2, <2>4, <2>5 DEF Holds
<1>8. EdgeAt(e)'
  <2>1. \A v \in CoderThreads : thread'[v].pc = "slot" => thread[v].pc = "slot" /\ thread'[v] = thread[v]
    BY <1>1, <1>3
  <2>2. \A v \in CoderThreads : thread[v].pc = "slot" => thread'[v].pc = "slot"
    BY <1>1, <1>3
  <2> QED
    BY <1>2, <1>4, <2>1, <2>2 DEF FlowAt, EdgeAt
<1>9. Spent = 0 /\ Spent' = 1
  <2>1. \A v \in CoderThreads : thread[v].pc # "advance"
    <3>1. \A v \in CoderThreads : thread[v].pc = "advance" => Writes(v)
      BY DEF Writes
    <3> QED
      BY <1>1, <1>5, <3>1 DEF HoldInv
  <2> QED
    BY <1>1, <1>2, <2>1 DEF Spent
<1>10. \A s \in Slots : Off(f, s)' = Off(f, s) /\ Off(f, s) \in Nat /\ (Off(f, s) = 0 => s = f)
  BY <1>0, <1>2, OffFacts DEF Off
<1>11. Off(f, f) = 0 /\ u > 0
  <2>1. Off(f, f) = 0
    BY <1>0, OffFacts
  <2>2. InUse(f)
    BY <1>5 DEF InUse
  <2> QED
    BY <1>0, <2>1, <2>2 DEF SlotsAt
<1>t. End(written) \in Nat /\ \A c \in Piece : c.from \in Nat /\ c.to \in Nat
  BY EndTyped
<1>o. /\ End(written) <= e
      /\ \A i \in 1 .. Len(written) - 1 : written[i].to <= written[i + 1].from
      /\ \A s \in Slots : \A c \in Piece : Holds(s, c) => End(written) <= c.from /\ c.from <= c.to /\ c.to <= e
      /\ \A r, s \in Slots : \A c, d \in Piece :
           Holds(r, c) /\ Holds(s, d) /\ Off(f, r) < Off(f, s) => c.to <= d.from
  BY DEF FlowAt, OrderAt
<1>12. CASE /\ p' = p /\ thread[t].res = "ok" /\ thread[t].buf # None
            /\ outBuf[thread[t].buf] \in Piece /\ written' = Append(written, outBuf[thread[t].buf])
  <2>1. PICK b \in Piece : b = outBuf[thread[t].buf]
    BY <1>12
  <2>2. Holds(f, b)
    <3>1. HoldsIn(t, f, b)
      BY <1>1, <1>5, <1>12, <2>1 DEF HoldsIn
    <3> QED
      BY <3>1 DEF Holds
  <2>3. PICK n \in Nat : n = Len(written)
    BY DEF Typed
  <2>4. /\ written' = Append(written, b) /\ Len(written') = n + 1 /\ written'[n + 1] = b /\ written' # <<>>
        /\ \A i \in 1 .. n : written'[i] = written[i]
    BY <1>12, <2>1, <2>3 DEF Typed
  <2>5. End(written)' = b.to
    BY <2>4 DEF End
  <2>6. End(written) <= b.from /\ b.from <= b.to /\ b.to <= e
    BY <1>o, <2>2
  <2>7. n > 0 => End(written) = written[n].to
    BY <2>3 DEF End
  <2>8. n = 0 => End(written) = 0 /\ written = <<>>
    <3>1. written \in Seq(Piece)
      BY DEF Typed
    <3>2. Len(written) = 0 => written = <<>>
      BY <3>1
    <3> QED
      BY <2>3, <3>2 DEF End
  <2>9. OrderAt(f, e)'
    <3>1. \A s \in Slots : \A c \in Piece : Holds(s, c)' => b.to <= c.from /\ c.from <= c.to /\ c.to <= e
      <4> SUFFICES ASSUME NEW s \in Slots, NEW c \in Piece, Holds(s, c)'
                   PROVE  b.to <= c.from /\ c.from <= c.to /\ c.to <= e
        OBVIOUS
      <4>1. Holds(s, c) /\ s # f
        BY <1>7
      <4>2. Off(f, f) < Off(f, s)
        BY <1>10, <1>11, <4>1
      <4> QED
        BY <1>o, <2>2, <4>1, <4>2
    <3>2. \A r, s \in Slots : \A c, d \in Piece :
            Holds(r, c)' /\ Holds(s, d)' /\ Off(f, r) < Off(f, s) => c.to <= d.from
      BY <1>o, <1>7
    <3>3. \A i \in 1 .. n : written'[i].to <= written'[i + 1].from
      <4> SUFFICES ASSUME NEW i \in 1 .. n PROVE written'[i].to <= written'[i + 1].from
        OBVIOUS
      <4>1. CASE i = n
        BY <2>3, <2>4, <2>6, <2>7, <4>1
      <4>2. CASE i # n
        <5>1. i \in 1 .. n - 1 /\ i + 1 \in 1 .. n
          BY <2>3, <4>2
        <5>2. written[i].to <= written[i + 1].from
          BY <1>o, <2>3, <5>1
        <5>3. written'[i] = written[i] /\ written'[i + 1] = written[i + 1]
          BY <2>4, <5>1
        <5> QED
          BY <5>2, <5>3
      <4> QED
        BY <4>1, <4>2
    <3>4. 1 .. Len(written') - 1 = 1 .. n
      BY <2>3, <2>4
    <3> QED
      BY <1>2, <1>10, <2>5, <2>6, <3>1, <3>2, <3>3, <3>4 DEF OrderAt
  <2>10. ASSUME Clean'
         PROVE  ChainAt(f, u, e)'
    <3>1. ChainAt(f, u, e)
      BY <1>12, <2>10 DEF FlowAt, Clean
    <3>2. /\ b.from = End(written) /\ (0 = u - 1 => b.to = e)
          /\ (b.finished <=> p.stopReading /\ 0 = u - 1) /\ (b.finished => b.to = setup.size)
      BY <1>9, <1>11, <2>2, <3>1 DEF ChainAt
    <3>3. ASSUME NEW s \in Slots, NEW c \in Piece, Holds(s, c)'
          PROVE  /\ Off(f, s) = 1 => c.from = b.to
                 /\ Off(f, s) = u - 1 => c.to = e
                 /\ c.finished <=> p.stopReading /\ Off(f, s) = u - 1
                 /\ c.finished => c.to = setup.size
      <4>1. Holds(s, c)
        BY <1>7, <3>3
      <4>2. Off(f, s) = 1 => Off(f, s) = Off(f, f) + 1
        BY <1>11
      <4> QED
        BY <2>2, <3>1, <4>1, <4>2 DEF ChainAt
    <3>4. \A r, s \in Slots : \A c, d \in Piece :
            Holds(r, c)' /\ Holds(s, d)' /\ Off(f, s) = Off(f, r) + 1 => c.to = d.from
      BY <1>7, <3>1 DEF ChainAt
    <3>5. u = 1 => b.to = e
      BY <3>2
    <3>6. written'[1].from = 0
      <4>1. CASE n = 0
        BY <2>4, <2>8, <3>2, <4>1
      <4>2. CASE n > 0
        <5>1. 1 \in 1 .. n /\ written # <<>>
          BY <2>3, <4>2
        <5>2. written[1].from = 0
          BY <3>1, <5>1 DEF ChainAt
        <5> QED
          BY <2>4, <5>1, <5>2
      <4> QED
        BY <2>3, <4>1, <4>2
    <3>7. /\ written'[Len(written')].finished <=> u = 1 /\ p.stopReading
          /\ written'[Len(written')].finished => written'[Len(written')].to = setup.size
      BY <1>0, <2>4, <3>2
    <3>8. ASSUME NEW i \in 1 .. n
          PROVE  ~written'[i].finished /\ written'[i].to = written'[i + 1].from
      <4>1. CASE i = n
        <5>1. written # <<>> /\ n > 0 /\ written'[i] = written[n] /\ written'[i + 1] = b
          BY <2>3, <2>4, <4>1
        <5>2. ~written[n].finished
          BY <1>9, <1>11, <2>3, <3>1, <5>1 DEF ChainAt
        <5> QED
          BY <2>7, <3>2, <5>1, <5>2
      <4>2. CASE i # n
        <5>1. i \in 1 .. n - 1 /\ i + 1 \in 1 .. n
          BY <2>3, <4>2
        <5>2. ~written[i].finished /\ written[i].to = written[i + 1].from
          BY <2>3, <3>1, <5>1 DEF ChainAt
        <5>3. written'[i] = written[i] /\ written'[i + 1] = written[i + 1]
          BY <2>4, <5>1
        <5> QED
          BY <5>2, <5>3
      <4> QED
        BY <4>1, <4>2
    <3>9. 1 .. Len(written') - 1 = 1 .. n
      BY <2>3, <2>4
    <3> QED
      BY <1>2, <1>4, <1>9, <1>10, <2>4, <2>5, <3>3, <3>4, <3>5, <3>6, <3>7, <3>8, <3>9 DEF ChainAt
  <2> QED
    BY <1>8, <2>9, <2>10 DEF FlowAt
<1>13. CASE written' = written /\ ~Clean'
  <2>1. End(written)' = End(written)
    BY <1>13 DEF End
  <2>2. OrderAt(f, e)'
    BY <1>2, <1>7, <1>10, <1>13, <1>o, <2>1 DEF OrderAt
  <2> QED
    BY <1>8, <1>13, <2>2 DEF FlowAt
<1>14. (p'.progressRes # "ok" /\ written' = written)
         \/ (p' = p /\ written' = written /\ (thread[t].res # "ok" \/ thread[t].buf = None)) => written' = written /\ ~Clean'
  BY <1>0, <1>1 DEF ThreadData, Clean
<1> QED
  BY <1>1, <1>12, <1>13, <1>14

\* The next slot is the first now.
LEMMA FlowOfAdvance ==
  ASSUME Typed, SlotsInv, HoldInv, NEW t \in CoderThreads, Advance(t),
         NEW f \in Slots, NEW u \in 1 .. NumBlocksMax, NEW e \in Nat, SlotsAt(f, u), FlowAt(f, u, e),
         NEW g \in Slots, g = After(f), NEW v \in Nat, v = u - 1
  PROVE  FlowAt(g, v, e)'
<1>0. ThreadFields(thread[t]) /\ setup \in Setups /\ f \in Nat /\ u \in Nat
  BY ThreadTaken, SizeFacts DEF Typed, Slots
<1>1. thread[t].pc = "advance" /\ Hold(t) /\ Writes(t) /\ thread[t].bi = f
  <2>1. thread[t].pc = "advance"
    BY DEF Advance
  <2>2. Hold(t) /\ Writes(t)
    BY <2>1 DEF Hold, Writes
  <2> QED
    BY <2>1, <2>2 DEF SlotsAt
<1>2. /\ OthersKept(t) /\ CallerKept /\ outBuf' = outBuf /\ written' = written
      /\ thread'[t].pc = "release" /\ thread'[t].bi = g /\ thread'[t].ready = p.ready[g]
      /\ ReadPart(p') = ReadPart(p) /\ ErrorPart(p') = ErrorPart(p) /\ p'.blocks = p.blocks
      /\ ~p'.ready[g] /\ \A s \in Slots : s # g => p'.ready[s] = p.ready[s]
  BY <1>1, AdvanceStep
<1>3. NumBlocksMax' = NumBlocksMax /\ CoderThreads' = CoderThreads /\ Slots' = Slots /\ setup' = setup
  BY <1>2, SizesKept DEF CallerKept
<1>4. \A w \in CoderThreads : w # t => thread'[w] = thread[w]
  BY <1>2 DEF OthersKept
<1>5. p'.processed = p.processed /\ p'.stopReading = p.stopReading /\ (Clean' => Clean)
  BY <1>2 DEF ReadPart, ErrorPart, Clean
<1>6. ~p.ready[f] /\ \A w \in CoderThreads : w # t /\ Hold(w) => thread[w].bi # f
  BY <1>1 DEF HoldInv
<1>7. ASSUME NEW s \in Slots, NEW c \in Piece, Holds(s, c)
      PROVE  s # f
  <2>1. ~HoldsIn(t, s, c)
    BY <1>1 DEF HoldsIn
  <2>2. \A w \in CoderThreads : HoldsIn(w, s, c) => Hold(w) /\ thread[w].bi = s
    BY DEF HoldsIn, Hold, Writes
  <2> QED
    BY <1>6, <1>7, <2>1, <2>2 DEF Holds
<1>8. ASSUME NEW s \in Slots, NEW c \in Piece, Holds(s, c)'
      PROVE  Holds(s, c)
  <2>1. HoldsIn(t, s, c)' => s = g /\ p.ready[s] /\ p.blocks[s].res = "ok" /\ c = outBuf[p.blocks[s].buf]
    BY <1>2 DEF HoldsIn
  <2>2. \A w \in CoderThreads : w # t /\ HoldsIn(w, s, c)' => HoldsIn(w, s, c)
    BY <1>2, <1>4 DEF HoldsIn, Content
  <2>3. p'.ready[s] => p.ready[s]
    BY <1>2
  <2> QED
    BY <1>2, <1>3, <1>8, <2>1, <2>2, <2>3 DEF Holds
<1>9. EdgeAt(e)'
  <2>1. \A w \in CoderThreads : thread'[w].pc = "slot" => thread[w].pc = "slot" /\ thread'[w] = thread[w]
    BY <1>2, <1>4
  <2>2. \A w \in CoderThreads : thread[w].pc = "slot" => thread'[w].pc = "slot"
    BY <1>1, <1>4
  <2> QED
    BY <1>3, <1>5, <2>1, <2>2 DEF FlowAt, EdgeAt
<1>10. Spent = 1 /\ Spent' = 0
  <2>1. \A w \in CoderThreads : w # t => thread[w].pc # "advance"
    <3>1. \A w \in CoderThreads : thread[w].pc = "advance" => Writes(w)
      BY DEF Writes
    <3> QED
      BY <1>1, <3>1 DEF HoldInv
  <2> QED
    BY <1>1, <1>2, <1>3, <1>4, <2>1 DEF Spent
<1>11. \A s \in Slots : /\ Off(g, s)' = Off(g, s) /\ Off(f, s) \in Nat /\ Off(g, s) \in Nat
                        /\ s # f => Off(g, s) = Off(f, s) - 1
  BY <1>0, <1>3, OffFacts DEF Off
<1>12. End(written)' = End(written)
  BY <1>2 DEF End
<1>13. OrderAt(g, e)'
  <2>1. ASSUME NEW r \in Slots, NEW s \in Slots, NEW c \in Piece, NEW d \in Piece,
               Holds(r, c)', Holds(s, d)', Off(g, r) < Off(g, s)
        PROVE  c.to <= d.from
    <3>1. Holds(r, c) /\ Holds(s, d) /\ r # f /\ s # f
      BY <1>7, <1>8, <2>1
    <3>2. Off(f, r) < Off(f, s)
      BY <1>11, <2>1, <3>1
    <3> QED
      BY <3>1, <3>2 DEF FlowAt, OrderAt
  <2>2. \A s \in Slots : \A c \in Piece : Holds(s, c)' => End(written) <= c.from /\ c.from <= c.to /\ c.to <= e
    BY <1>8 DEF FlowAt, OrderAt
  <2>3. End(written) <= e /\ \A i \in 1 .. Len(written) - 1 : written[i].to <= written[i + 1].from
    BY DEF FlowAt, OrderAt
  <2> QED
    BY <1>2, <1>3, <1>11, <1>12, <2>1, <2>2, <2>3 DEF OrderAt
<1>14. ASSUME Clean'
       PROVE  ChainAt(g, v, e)'
  <2>0. ChainAt(f, u, e)
    BY <1>5, <1>14 DEF FlowAt
  <2>1. ASSUME NEW s \in Slots, NEW c \in Piece, Holds(s, c)'
        PROVE  /\ Off(g, s) = 0 => c.from = End(written)
               /\ Off(g, s) = v - 1 => c.to = e
               /\ c.finished <=> p.stopReading /\ Off(g, s) = v - 1
               /\ c.finished => c.to = setup.size
    <3>1. Holds(s, c) /\ s # f
      BY <1>7, <1>8, <2>1
    <3>2. (Off(g, s) = 0 <=> Off(f, s) = Spent) /\ (Off(g, s) = v - 1 <=> Off(f, s) = u - 1)
      BY <1>0, <1>10, <1>11, <3>1
    <3> QED
      BY <2>0, <3>1, <3>2 DEF ChainAt
  <2>2. ASSUME NEW r \in Slots, NEW s \in Slots, NEW c \in Piece, NEW d \in Piece,
               Holds(r, c)', Holds(s, d)', Off(g, s) = Off(g, r) + 1
        PROVE  c.to = d.from
    <3>1. Holds(r, c) /\ Holds(s, d) /\ r # f /\ s # f
      BY <1>7, <1>8, <2>2
    <3>2. Off(f, s) = Off(f, r) + 1
      BY <1>11, <2>2, <3>1
    <3> QED
      BY <2>0, <3>1, <3>2 DEF ChainAt
  <2>3. v = 0 <=> u = Spent
    BY <1>0, <1>10
  <2>4. /\ v = 0 => End(written) = e
        /\ written # <<>> =>
             /\ written[1].from = 0 /\ (written[Len(written)].finished <=> v = 0 /\ p.stopReading)
             /\ written[Len(written)].finished => written[Len(written)].to = setup.size
        /\ \A i \in 1 .. Len(written) - 1 : ~written[i].finished /\ written[i].to = written[i + 1].from
        /\ v = 0 /\ p.stopReading => written # <<>>
    BY <2>0, <2>3 DEF ChainAt
  <2> QED
    BY <1>2, <1>3, <1>5, <1>10, <1>11, <1>12, <2>1, <2>2, <2>4 DEF ChainAt
<1> QED
  BY <1>9, <1>13, <1>14 DEF FlowAt

\* One of the three: the slots keep their order, or one is taken, or one is given back.
LEMMA FlowStep ==
  ASSUME ControlInv, LocalInv, FlowInv, [PatientNext]_coderVars
  PROVE  FlowInv'
<1>0. Typed /\ QuietInv /\ CallInv /\ ReaderInv /\ SlotsInv /\ HoldInv /\ BufferInv
  BY DEF ControlInv
<1>1. PICK f \in Slots, u \in 0 .. NumBlocksMax, e \in Nat : SlotsAt(f, u) /\ FlowAt(f, u, e)
  BY DEF FlowInv
<1>2. [CoderNext]_coderVars
  BY DEF PatientNext, CoderNext
<1>3. Slots' = Slots /\ NumBlocksMax' = NumBlocksMax
  BY <1>2, SetupKept, SizesKept
<1>4. NumBlocksMax \in Nat /\ u \in Nat
  BY <1>0, SizeFacts DEF Typed
<1>5. CASE SlotsAt(f, u)' /\ FlowAt(f, u, e)'
  BY <1>3, <1>5 DEF FlowInv
<1>6. CASE CodeBegin
  <2>1. 0 \in Slots /\ SlotsAt(0, 0)' /\ FlowAt(0, 0, 0)'
    BY <1>0, <1>6, BeginLine, FlowOfBegin
  <2>2. 0 \in 0 .. NumBlocksMax
    BY <1>4
  <2> QED
    BY <1>3, <2>1, <2>2 DEF FlowInv
<1>7. CASE CodeOpen \/ CodeEnd \/ Destruct \/ Freed \/ (\E t \in CoderThreads : StopThread(t)) \/ UNCHANGED coderVars
  <2>1. SlotsAt(f, u)'
    BY <1>0, <1>1, <1>7, SameLineCaller, SameLineKeeps
  <2>2. FlowAt(f, u, e)'
    BY <1>0, <1>1, <1>7, FlowOfCaller, FlowKeeps
  <2> QED
    BY <1>5, <2>1, <2>2
<1>8. ASSUME NEW t \in CoderThreads, ThreadStep(t)
      PROVE  FlowInv'
  <2>1. CASE Wake(t) \/ Turn(t) \/ Buffer(t) \/ Count(t) \/ Compare(t)
    <3>1. SlotsAt(f, u)'
      BY <1>0, <1>1, <2>1, SameLineThreads, SameLineKeeps
    <3>2. FlowAt(f, u, e)'
      BY <1>0, <1>1, <2>1, FlowOfQuietThreads, FlowKeeps
    <3> QED
      BY <1>5, <3>1, <3>2
  <2>2. CASE Read(t)
    <3>1. SlotsAt(f, u)'
      BY <1>0, <1>1, <2>2, SameLineThreads, SameLineKeeps
    <3>2. FlowAt(f, u, e)'
      BY <1>0, <1>1, <2>2, FlowOfRead
    <3> QED
      BY <1>5, <3>1, <3>2
  <2>3. CASE Code(t)
    <3>1. SlotsAt(f, u)'
      BY <1>0, <1>1, <2>3, SameLineThreads, SameLineKeeps
    <3>2. FlowAt(f, u, e)'
      BY <1>0, <1>1, <2>3, FlowOfCode, FlowKeeps
    <3> QED
      BY <1>5, <3>1, <3>2
  <2>4. CASE Write(t)
    <3>1. SlotsAt(f, u)'
      BY <1>0, <1>1, <2>4, SameLineThreads, SameLineKeeps
    <3>2. FlowAt(f, u, e)'
      BY <1>0, <1>1, <2>4, FlowOfWrite
    <3> QED
      BY <1>5, <3>1, <3>2
  <2>5. CASE PublishBlock(t)
    <3>1. SlotsAt(f, u)'
      BY <1>0, <1>1, <2>5, PublishLine
    <3>2. FlowAt(f, u, e)'
      BY <1>0, <1>1, <2>5, FlowOfPublish, FlowKeeps
    <3> QED
      BY <1>5, <3>1, <3>2
  <2>6. CASE ReleaseSlot(t)
    <3>1. SlotsAt(f, u)'
      BY <1>0, <1>1, <2>6, ReleaseLine
    <3>2. FlowAt(f, u, e)'
      BY <1>0, <1>1, <2>6, FlowOfRelease, FlowKeeps
    <3> QED
      BY <1>5, <3>1, <3>2
  <2>7. CASE TakeSlot(t)
    <3>1. u < NumBlocksMax /\ SlotsAt(f, u + 1)'
      BY <1>0, <1>1, <2>7, TakeLine
    <3>2. u \in 0 .. NumBlocksMax - 1
      BY <1>4, <3>1
    <3>3. PICK g \in Nat : g = p.processed
      BY <1>0, CoderTaken DEF CoderFields
    <3>4. FlowAt(f, u + 1, g)'
      BY <1>0, <1>1, <2>7, <3>2, <3>3, FlowOfTakeSlot
    <3>5. PICK v \in 0 .. NumBlocksMax : v = u + 1
      BY <1>4, <3>2
    <3>6. SlotsAt(f, v)' /\ FlowAt(f, v, g)'
      BY <3>1, <3>4, <3>5
    <3> QED
      BY <1>3, <3>6 DEF FlowInv
  <2>8. CASE Advance(t)
    <3>1. u > 0 /\ f = thread[t].bi /\ SlotsAt(After(f), u - 1)'
      BY <1>0, <1>1, <2>8, AdvanceLine
    <3>2. PICK g \in Slots : g = After(f)
      BY <1>0, AfterFacts DEF Typed
    <3>3. PICK v \in 0 .. NumBlocksMax : v = u - 1
      BY <1>4, <3>1
    <3>4. u \in 1 .. NumBlocksMax /\ v \in Nat
      BY <1>4, <3>1
    <3>5. FlowAt(g, v, e)'
      BY <1>0, <1>1, <2>8, <3>2, <3>3, <3>4, FlowOfAdvance
    <3>6. After(f)' = After(f)
      BY <1>3 DEF After
    <3>7. SlotsAt(g, v)'
      BY <3>1, <3>2, <3>3, <3>6
    <3> QED
      BY <1>3, <3>5, <3>7 DEF FlowInv
  <2> QED
    BY <1>8, <2>1, <2>2, <2>3, <2>4, <2>5, <2>6, <2>7, <2>8 DEF ThreadStep
<1> QED
  BY <1>6, <1>7, <1>8 DEF PatientNext, CoderStep, MainStep, Gone
-----------------------------------------------------------------------------
(* What a call returns                                                     *)

\* When the last thread has counted itself no slot is in use, nothing is left to
\* read, and the last block is written.
LEMMA EndIsComplete ==
  ASSUME ControlInv, LocalInv, FlowInv, main.pc = "wait", p.finishedEvent, Clean
  PROVE  /\ written # <<>> /\ written[1].from = 0 /\ written[Len(written)].to = setup.size
         /\ \A i \in 1 .. Len(written) : written[i].finished <=> i = Len(written)
<1>0. Typed /\ QuietInv /\ CallInv /\ SlotsInv /\ HoldInv /\ InCall
  BY DEF ControlInv, InCall
<1>1. PICK f \in Slots, u \in 0 .. NumBlocksMax, e \in Nat : SlotsAt(f, u) /\ FlowAt(f, u, e)
  BY DEF FlowInv
<1>2. p.finished = p.started /\ 0 \in CoderThreads /\ 0 < p.started
  BY <1>0, OverFacts DEF CallInv, CoderThreads
<1>3. \A t \in CoderThreads : thread[t].pc \in {"absent", "start", "compare"}
  <2> SUFFICES ASSUME NEW t \in CoderThreads PROVE thread[t].pc \in {"absent", "start", "compare"}
    OBVIOUS
  <2>1. CASE t < p.started
    BY <1>0, <1>2, <2>1, OverFacts DEF Over
  <2>2. CASE t >= p.started
    BY <1>0, <2>2 DEF CallInv
  <2> QED
    BY <1>0, <2>1, <2>2, OverFacts DEF CoderThreads
<1>4. p.stopReading
  <2>1. Over(0) /\ ThreadData(0)
    BY <1>0, <1>2, OverFacts DEF LocalInv
  <2> QED
    BY <1>0, <1>2, <2>1 DEF Over, ThreadData
<1>5. \A t \in CoderThreads : ~Hold(t) /\ ~Writes(t) /\ thread[t].pc # "slot" /\ thread[t].pc # "advance"
  BY <1>3 DEF Hold, Writes
<1>6. ~InUse(f)
  <2>1. p.writeIndex # None
    BY <1>0, <1>5 DEF HoldInv
  <2>2. p.writeIndex = f /\ ~p.ready[f]
    BY <1>0, <1>1, <2>1 DEF SlotsAt, HoldInv
  <2> QED
    BY <1>5, <2>2 DEF InUse
<1>7. u = 0 /\ Spent = 0
  <2>1. ~(0 < u)
    BY <1>0, <1>1, <1>6, OffFacts DEF SlotsAt, Typed
  <2>2. u \in Nat
    BY <1>0, SizeFacts DEF Typed
  <2> QED
    BY <1>5, <2>1, <2>2 DEF Spent
<1>8. ChainAt(f, u, e)
  BY <1>1 DEF FlowAt
<1>9. /\ written # <<>> /\ written[1].from = 0 /\ written[Len(written)].finished
      /\ written[Len(written)].to = setup.size
      /\ \A i \in 1 .. Len(written) - 1 : ~written[i].finished
  BY <1>4, <1>7, <1>8 DEF ChainAt
<1>10. ASSUME NEW i \in 1 .. Len(written)
       PROVE  written[i].finished <=> i = Len(written)
  <2>1. Len(written) \in Nat
    BY <1>0 DEF Typed
  <2>2. i = Len(written) \/ i \in 1 .. Len(written) - 1
    BY <2>1
  <2>3. CASE i = Len(written)
    BY <1>9, <2>3
  <2>4. CASE i \in 1 .. Len(written) - 1
    BY <1>9, <2>1, <2>4
  <2> QED
    BY <2>2, <2>3, <2>4
<1> QED
  BY <1>9, <1>10

\* Every step keeps what was returned, and CodeEnd returns SZ_OK only after all of the input.
LEMMA DoneStep ==
  ASSUME ControlInv, LocalInv, FlowInv, DoneInv, [PatientNext]_coderVars
  PROVE  DoneInv'
<1>0. Typed /\ QuietInv /\ CallInv /\ ReaderInv /\ BufferInv /\ setup' = setup
  BY SetupKept DEF ControlInv, PatientNext, CoderNext
<1>1. CASE CodeBegin
  <2>1. main'.result \in {"none", "thread"} /\ (main'.pc \in {"open", "wait"} => main'.result = "none")
    <3>1. main \in MainRec /\ main.pc = "idle"
      BY <1>0, <1>1 DEF CodeBegin, Typed
    <3>2. CASE main' = [pc |-> "open", calls |-> main.calls + 1, result |-> "none"]
      BY <3>2
    <3>3. CASE main' = [main EXCEPT !.calls = @ + 1, !.result = "thread"]
      <4>1. main'.pc = main.pc /\ main'.result = "thread"
        BY <3>1, <3>3 DEF MainRec
      <4> QED
        BY <3>1, <4>1
    <3> QED
      BY <1>1, <3>2, <3>3 DEF CodeBegin
  <2> QED
    BY <2>1 DEF DoneInv, InCall, OkIsComplete
<1>2. CASE CodeOpen
  <2>1. main.pc = "open" /\ main'.pc = "wait" /\ main'.result = main.result
    BY <1>0, <1>2 DEF CodeOpen, Typed, MainRec
  <2>2. main'.result = "none"
    BY <2>1 DEF DoneInv, InCall
  <2> QED
    BY <2>2 DEF DoneInv, OkIsComplete
<1>3. CASE CodeEnd
  <2>1. main.pc = "wait" /\ p.finishedEvent /\ main'.pc \in {"idle", "free"} /\ main'.result = CodeResult
        /\ written' = written /\ p'.progressRes = p.progressRes
    BY <1>0, <1>3 DEF CodeEnd, Typed, MainRec, CoderRec
  <2>2. CASE CodeResult = "ok"
    <3>1. Clean
      BY <2>2 DEF CodeResult, Clean
    <3>2. /\ written # <<>> /\ written[1].from = 0 /\ written[Len(written)].to = setup.size
          /\ \A i \in 1 .. Len(written) : written[i].finished <=> i = Len(written)
      BY <2>1, <3>1, EndIsComplete
    <3> QED
      BY <1>0, <2>1, <3>1, <3>2 DEF DoneInv, InCall, OkIsComplete, Clean
  <2>3. CASE CodeResult # "ok"
    BY <2>1, <2>3 DEF DoneInv, InCall, OkIsComplete
  <2> QED
    BY <2>2, <2>3
<1>4. ASSUME ~InCall, ~InCall', main'.result = main.result, written' = written, p'.progressRes = p.progressRes
      PROVE  DoneInv'
  <2>1. main.pc \in {"idle", "free", "gone"}
    BY <1>0, <1>4 DEF Typed, MainRec, InCall
  <2> QED
    BY <1>0, <1>4, <2>1 DEF DoneInv, OkIsComplete, Clean
<1>5. CASE Destruct \/ Freed \/ (\E t \in CoderThreads : StopThread(t))
  <2>1. ~InCall /\ ~InCall' /\ main'.result = main.result /\ written' = written /\ p'.progressRes = p.progressRes
    BY <1>0, <1>5 DEF Destruct, Freed, StopThread, InCall, Typed, MainRec
  <2> QED
    BY <1>4, <2>1
<1>6. CASE UNCHANGED coderVars
  BY <1>6 DEF coderVars, DoneInv, InCall, OkIsComplete, Clean
<1>7. ASSUME NEW t \in CoderThreads, ThreadStep(t)
      PROVE  DoneInv'
  <2>1. CASE InCall
    <3>1. main' = main
      BY <1>7 DEF ThreadStep, Wake, Turn, Read, TakeSlot, Buffer, Code, PublishBlock, Write, Advance,
         ReleaseSlot, Count, Compare
    <3>2. main.result = "none"
      BY <2>1 DEF DoneInv
    <3> QED
      BY <3>1, <3>2 DEF DoneInv, OkIsComplete
  <2>2. CASE ~InCall
    <3>1. thread[t].pc \in {"absent", "start", "compare"}
      BY <1>0, <2>2 DEF QuietInv
    <3>2. Wake(t) \/ Compare(t)
      BY <1>7, <3>1 DEF ThreadStep, Turn, Read, TakeSlot, Buffer, Code, PublishBlock, Write, Advance,
         ReleaseSlot, Count
    <3>3. main' = main /\ written' = written /\ p'.progressRes = p.progressRes
      BY <1>0, <3>2, WakeStep, CompareStep DEF CallerKept, ErrorPart
    <3> QED
      BY <1>4, <2>2, <3>3 DEF InCall
  <2> QED
    BY <2>1, <2>2
<1> QED
  BY <1>1, <1>2, <1>3, <1>5, <1>6, <1>7 DEF PatientNext, CoderStep, MainStep, Gone

\* Every step keeps what threads and slots know of their blocks.
LEMMA LocalStep ==
  ASSUME ControlInv, LocalInv, [PatientNext]_coderVars
  PROVE  LocalInv'
<1>0. Typed /\ QuietInv /\ CallInv /\ ReaderInv /\ HoldInv /\ BufferInv
  BY DEF ControlInv
<1>1. CASE (Rested /\ CodeBegin) \/ CodeOpen \/ CodeEnd \/ Destruct \/ Freed
             \/ (\E t \in CoderThreads : StopThread(t)) \/ UNCHANGED coderVars
  BY <1>0, <1>1, LocalOfCaller
<1>2. ASSUME NEW t \in CoderThreads, ThreadStep(t)
      PROVE  LocalInv'
  <2>1. CASE Wake(t) \/ Turn(t) \/ Buffer(t) \/ Count(t) \/ Compare(t)
    BY <1>0, <2>1, LocalOfQuietThreads
  <2>2. CASE Read(t)
    BY <1>0, <2>2, LocalOfRead
  <2>3. CASE TakeSlot(t)
    BY <1>0, <2>3, LocalOfTakeSlot
  <2>4. CASE Code(t)
    BY <1>0, <2>4, LocalOfCode
  <2>5. CASE PublishBlock(t)
    BY <1>0, <2>5, LocalOfPublish
  <2>6. CASE Write(t)
    BY <1>0, <2>6, LocalOfWrite
  <2>7. CASE Advance(t)
    BY <1>0, <2>7, LocalOfAdvance
  <2>8. CASE ReleaseSlot(t)
    BY <1>0, <2>8, LocalOfRelease
  <2> QED
    BY <1>2, <2>1, <2>2, <2>3, <2>4, <2>5, <2>6, <2>7, <2>8 DEF ThreadStep
<1> QED
  BY <1>1, <1>2 DEF PatientNext, CoderStep, MainStep, Gone

\* Initially, all of it holds.
LEMMA DataInit == CoderInit => DataInv
<1> SUFFICES ASSUME CoderInit PROVE DataInv
  OBVIOUS
<1>1. Typed
  BY InitTyped
<1>2. /\ main.pc = "idle" /\ main.result = "none" /\ p = Fresh /\ written = <<>>
      /\ \A t \in CoderThreads : thread[t].pc = "absent"
  BY DEF CoderInit, Absent
<1>3. ControlInv
  BY InitControl
<1>4. p.processed = 0 /\ p.stopReading = FALSE /\ p.readRes = "ok" /\ p.writeRes = "ok" /\ \A s \in Slots : ~p.ready[s]
  BY <1>2 DEF Fresh
<1>5. LocalInv
  <2>1. \A t \in CoderThreads : ThreadData(t)
    BY <1>2 DEF ThreadData
  <2> QED
    BY <1>4, <2>1 DEF LocalInv
<1>6. FlowInv
  <2>1. 0 \in Slots /\ 0 \in 0 .. NumBlocksMax
    BY <1>1, SizeFacts DEF Slots, Typed
  <2>2. SlotsAt(0, 0)
    BY <1>1, <1>2, NoneHeld, FreshFacts DEF FreshSlots, Typed
  <2>3. \A s \in Slots : \A c \in Piece : ~Holds(s, c)
    BY <1>2, <1>4 DEF Holds, HoldsIn
  <2>4. End(written) = 0 /\ Spent = 0
    BY <1>2 DEF End, Spent
  <2>5. EdgeAt(0)
    BY <1>2, <1>4 DEF EdgeAt
  <2>6. OrderAt(0, 0)
    BY <1>2, <2>3, <2>4 DEF OrderAt
  <2>7. ChainAt(0, 0, 0)
    BY <1>2, <1>4, <2>3, <2>4 DEF ChainAt
  <2>8. FlowAt(0, 0, 0)
    BY <2>5, <2>6, <2>7 DEF FlowAt
  <2> QED
    BY <2>1, <2>2, <2>8 DEF FlowInv
<1>7. DoneInv
  BY <1>2 DEF DoneInv, InCall, OkIsComplete
<1> QED
  BY <1>5, <1>6, <1>7 DEF DataInv

\* The inductive invariant.
LEMMA DataHolds == PatientSpec => [](ControlInv /\ DataInv)
<1>1. CoderInit => ControlInv /\ DataInv
  BY InitControl, DataInit
<1>2. ControlInv /\ DataInv /\ [PatientNext]_coderVars => (ControlInv /\ DataInv)'
  BY ControlStep, LocalStep, FlowStep, DoneStep DEF DataInv
<1> QED
  BY <1>1, <1>2, PTL DEF PatientSpec

\* What it says of the blocks that are written.
LEMMA DataIsOrdered == DataInv => WrittenInOrder /\ OkIsComplete
<1> SUFFICES ASSUME DataInv PROVE WrittenInOrder /\ OkIsComplete
  OBVIOUS
<1>1. PICK f \in Slots, u \in 0 .. NumBlocksMax, e \in Nat : FlowAt(f, u, e)
  BY DEF DataInv, FlowInv
<1>2. WrittenInOrder
  BY <1>1 DEF WrittenInOrder, FlowAt, OrderAt, ChainAt, Clean
<1> QED
  BY <1>2 DEF DataInv, DoneInv
-----------------------------------------------------------------------------
(* The theorems                                                            *)

\* Whatever the number of threads, slots and blocks, and whichever calls fail, of a
\* caller who lets the threads of one MtCoder_Code come to rest before the next:
\* what is written is the input in its order, without a gap until something failed,
\* SZ_OK means all of it with exactly the last block told that it is the last, the
\* semaphore never exceeds the slots, each output buffer is in one hand, and no
\* thread works when the call has returned.
THEOREM CoderIsCorrect == PatientSpec => []BlocksAreWritten
<1>1. ControlInv => CoderTypeOK /\ ReturnedMeansQuiet /\ BuffersAreOwned
  BY ControlTypes, ControlWriter, ControlOwner DEF BuffersAreOwned
<1>2. ControlInv /\ DataInv => BlocksAreWritten
  BY <1>1, DataIsOrdered DEF BlocksAreWritten
<1> QED
  BY DataHolds, <1>2, PTL

\* The calls of a caller who need not be patient: they are counted.
Counted == "calls" \in DOMAIN main /\ main.calls \in Nat

\* Only CodeBegin counts.
LEMMA CallsCounted ==
  ASSUME Counted, [CoderNext]_coderVars
  PROVE  Counted' /\ IF CodeBegin THEN main'.calls = main.calls + 1 ELSE main'.calls = main.calls
<1>1. CASE CodeBegin
  <2>1. CASE main' = [pc |-> "open", calls |-> main.calls + 1, result |-> "none"]
    BY <1>1, <2>1 DEF Counted
  <2>2. CASE main' = [main EXCEPT !.calls = @ + 1, !.result = "thread"]
    <3>1. DOMAIN main' = DOMAIN main /\ main'.calls = main.calls + 1
      BY <2>2 DEF Counted
    <3> QED
      BY <1>1, <3>1 DEF Counted
  <2> QED
    BY <1>1, <2>1, <2>2 DEF CodeBegin
<1>2. CASE ~CodeBegin /\ (CodeOpen \/ CodeEnd \/ Destruct \/ Freed)
  <2>1. DOMAIN main' = DOMAIN main /\ main'.calls = main.calls
    BY <1>2 DEF CodeOpen, CodeEnd, Destruct, Freed, Counted
  <2> QED
    BY <1>2, <2>1 DEF Counted
<1>3. CASE ~CodeBegin /\ (UNCHANGED coderVars \/ \E t \in CoderThreads : StopThread(t) \/ ThreadStep(t))
  <2>1. main' = main
    BY <1>3 DEF coderVars, StopThread, ThreadStep, Wake, Turn, Read, TakeSlot, Buffer, Code, PublishBlock,
       Write, Advance, ReleaseSlot, Count, Compare
  <2> QED
    BY <1>3, <2>1 DEF Counted
<1> QED
  BY <1>1, <1>2, <1>3 DEF CoderNext, CoderStep, MainStep, Gone

\* The same of any caller in the first call with a CMtCoder: no thread is there
\* before it, so that it finds all of them at rest.
THEOREM FirstCallIsCorrect == CoderSpec => [](main.calls <= 1 => BlocksAreWritten)
<1>1. CoderInit => Counted /\ ControlInv /\ DataInv
  BY InitControl, DataInit DEF CoderInit, Counted
<1>2. ASSUME Counted, main.calls <= 1 => ControlInv /\ DataInv, [CoderNext]_coderVars, main'.calls <= 1
      PROVE  ControlInv' /\ DataInv'
  <2>1. main.calls <= 1 /\ (CodeBegin => main.calls = 0)
    BY <1>2, CallsCounted DEF Counted
  <2>2. ControlInv /\ DataInv
    BY <1>2, <2>1
  <2>4. CodeBegin => Rested
    BY <2>1, <2>2 DEF ControlInv, QuietInv, Rested
  <2>5. [PatientNext]_coderVars
    BY <1>2, <2>4 DEF CoderNext, PatientNext
  <2> QED
    BY <2>2, <2>5, ControlStep, LocalStep, FlowStep, DoneStep DEF DataInv
<1>3. Counted /\ (main.calls <= 1 => ControlInv /\ DataInv) /\ [CoderNext]_coderVars
        => (Counted /\ (main.calls <= 1 => ControlInv /\ DataInv))'
  BY <1>2, CallsCounted
<1>4. ControlInv /\ DataInv => BlocksAreWritten
  BY ControlTypes, ControlWriter, ControlOwner, DataIsOrdered DEF BuffersAreOwned, BlocksAreWritten
<1> QED
  BY <1>1, <1>3, <1>4, PTL DEF CoderSpec
=============================================================================
