------------------------------- MODULE Streams -------------------------------
(***************************************************************************)
(* The growing buffers of pylzma_streams.c: MemoryOutStream, to which the  *)
(* encoder writes and from which read() of compressfile takes, and         *)
(* MemoryInOutStream, to which input is appended and from which it is      *)
(* read.  Bytes are the numbers 1, 2, ... in the order they were written.  *)
(* One round of the loop that grows the buffer is one step.                *)
(***************************************************************************)
EXTENDS Naturals, Sequences, SequencesExt

CONSTANTS InitialBlock, MaxBlock,   \* INITIAL_BLOCKSIZE, MAX_BLOCKSIZE
          Pieces,                    \* of the pieces that are written and taken
          MaxBytes,                 \* bytes written in a behaviour
          GrowMayFail               \* may realloc fail?

ASSUME StreamsAssumption ==
  /\ InitialBlock \in Nat \ {0} /\ MaxBlock \in Nat \ {0}
  /\ Pieces \subseteq Nat /\ MaxBytes \in Nat /\ GrowMayFail \in BOOLEAN

VARIABLES
  data,     \* the bytes in the buffer, up to size
  avail,    \* the size of the buffer
  writing,  \* the bytes of the running write
  result,   \* what the last write said: "ok", "failed"
  written,  \* bytes of the writes that succeeded or run
  taken     \* what was taken from the front

streamVars == <<data, avail, writing, result, written, taken>>

StreamsInit ==
  /\ data = <<>> /\ avail = InitialBlock /\ writing = <<>> /\ result = "ok"
  /\ written = 0 /\ taken = <<>>

Idle == writing = <<>>

Write(n) ==
  /\ Idle /\ n > 0 /\ written + n <= MaxBytes
  /\ writing' = [k \in 1 .. n |-> written + k]
  /\ written' = written + n
  /\ UNCHANGED <<data, avail, result, taken>>

HasRoom == avail - Len(data) >= Len(writing)
Grown   == avail + Min({avail, MaxBlock})

\* Mutant: a failed realloc leaves avail as it was.
Grow_KeepsAvail ==
  /\ ~Idle /\ ~HasRoom
  /\ \/ avail' = Grown /\ UNCHANGED <<data, writing, result>>
     \/ GrowMayFail /\ avail' = avail /\ data' = <<>> /\ writing' = <<>> /\ result' = "failed"
  /\ UNCHANGED <<written, taken>>

\* A round of the loop: realloc keeps the bytes, or fails and all of them are lost.
\* Nothing grows from a size of 0: realloc(NULL, 0) gives a block without bytes,
\* realloc of that frees it and returns NULL.
Grow ==
  /\ ~Idle /\ ~HasRoom
  /\ \/ avail > 0 /\ avail' = Grown /\ UNCHANGED <<data, writing, result>>
     \/ (GrowMayFail \/ avail = 0)
        /\ avail' = 0 /\ data' = <<>> /\ writing' = <<>> /\ result' = "failed"
  /\ UNCHANGED <<written, taken>>

Store ==
  /\ ~Idle /\ HasRoom
  /\ data' = data \o writing /\ writing' = <<>> /\ result' = "ok"
  /\ UNCHANGED <<avail, written, taken>>

\* MemoryOutStreamDiscard after the bytes were copied, MemoryInOutStream_Read.
Take(n) ==
  /\ Idle
  /\ taken' = taken \o SubSeq(data, 1, Min({n, Len(data)}))
  /\ data' = SubSeq(data, n + 1, Len(data))
  /\ UNCHANGED <<avail, writing, result, written>>

StreamsNext == Grow \/ Store \/ \E n \in Pieces : Write(n) \/ Take(n)
StreamsSpec == StreamsInit /\ [][StreamsNext]_streamVars

(* A write that has begun goes on.                                         *)
FairStreams     == WF_streamVars(Grow \/ Store)
FairStreamsSpec == StreamsSpec /\ FairStreams
-----------------------------------------------------------------------------
StreamsTypeOK ==
  /\ data \in Seq(1 .. written) /\ taken \in Seq(1 .. written)
  /\ avail \in Nat /\ result \in {"ok", "failed"}

(* The buffer is never overrun.                                                *)
WithinBuffer == Len(data) <= avail

(* As long as no write failed, what was taken, what is in the buffer and what  *)
(* is being written are all that was written, in order.                        *)
NothingLost ==
  avail > 0 => taken \o data \o writing = [k \in 1 .. written |-> k]

(* A lost buffer is never taken for an empty one: after a failure nothing more *)
(* is accepted, so what was taken has no gap.                                  *)
NoGap == taken = [k \in 1 .. Len(taken) |-> k]

(* A write returns.                                                            *)
WriteReturns == ~Idle ~> Idle

(* The buffer keeps all that is written and not taken, in order, within its    *)
(* size, until it is lost; then it accepts nothing (MemoryOutStream).          *)
BufferKeepsAll == StreamsTypeOK /\ WithinBuffer /\ NothingLost /\ NoGap
=============================================================================
