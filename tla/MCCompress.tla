------------------------------ MODULE MCCompress ------------------------------
(* Model checking of compressfile: a behaviour is about the object with its     *)
(* encoder and threads, or about one of the growing buffers that it uses.       *)
EXTENDS CompressFile, Streams

VARIABLE part
mcVars == <<part, allVars, streamVars>>

MCInit ==
  /\ CompressInit /\ StreamsInit
  /\ \/ part = "object"
     \/ part = "buffer" /\ mf.len = 0

MCNext ==
  \/ part = "object" /\ CompressNext /\ UNCHANGED <<part, streamVars>>
  \/ part = "buffer" /\ StreamsNext /\ UNCHANGED <<part, allVars>>

Object(A) == part = "object" /\ A /\ UNCHANGED <<part, streamVars>>

\* FairCompress and FairStreams, each in its part.
MCSpec ==
  /\ MCInit /\ [][MCNext]_mcVars
  /\ WF_mcVars(Object(LzThreadStep)) /\ WF_mcVars(Object(HashThreadStep))
  /\ WF_mcVars(Object(BtThread /\ UNCHANGED pyVars))
  /\ FairStreams

(* Every call returns: read(), the deallocation when the input is at its end,  *)
(* and a write to the output buffer.                                           *)
CompressReturns == ReadReturns /\ DeallocReturnsAfterEnd /\ WriteReturns
=============================================================================
