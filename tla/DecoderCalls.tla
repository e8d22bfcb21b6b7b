---------------------------- MODULE DecoderCalls ----------------------------
(* What callers give to LzmaDec_DecodeToBuf and Lzma2Dec_DecodeToBuf: pieces *)
(* of input and room for output; and the dictionary that both write to.      *)
EXTENDS Integers, Sequences, SequencesExt, FiniteSetsExt

CONSTANTS
  DicSize,           \* prop.dicSize
  RcInit,            \* RC_INIT_SIZE
  InSizes, OutSizes  \* bytes offered, bytes asked for in a call

ASSUME DecoderCallsAssumption ==
  /\ DicSize \in Nat \ {0} /\ RcInit \in Nat \ {0}
  /\ InSizes \subseteq Nat /\ OutSizes \subseteq Nat

Smaller(a, b) == IF a < b THEN a ELSE b

\* Arguments and locals of DecodeToBuf and DecodeToDic.
NoCall == [op |-> "none", in |-> <<>>, given |-> 0, outSize |-> 0, finish |-> "any",
           dicLimit |-> 0, curFinish |-> "any", from |-> 0, res |-> "ok", status |-> "none"]
=============================================================================
