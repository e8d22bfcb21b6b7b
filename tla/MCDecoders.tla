------------------------------ MODULE MCDecoders ------------------------------
(***************************************************************************)
(* Model checking of the decoders: a behaviour is about the LZMA decoder,  *)
(* the LZMA2 decoder, the parser of LZMA2 streams, or, for the liveness    *)
(* properties, about one of the decoders with a caller that goes on.       *)
(***************************************************************************)
EXTENDS LzmaDec, Lzma2Dec

VARIABLE part
mcVars == <<part, lzmaDecVars, lzma2Vars, parseVars>>
-----------------------------------------------------------------------------
(* LZMA: every symbol that takes no byte, the most bytes, or whose last    *)
(* byte is read late; matches that overlap themselves, that are longer     *)
(* than the dictionary, that reach its first byte and one more.            *)

Lit(v, bytes, late)    == [kind |-> "lit", value |-> v, bytes |-> bytes, late |-> late]
Mat(dist, n, bytes)    == [kind |-> "match", dist |-> dist, len |-> n, bytes |-> bytes, late |-> 0]
Again(index, n, bytes) == [kind |-> "rep", index |-> index, len |-> n, bytes |-> bytes, late |-> 0]
Mark(bytes)            == [kind |-> "end", bytes |-> bytes, late |-> 1]

\* A stream whose code is 0 after its last symbol and after those in zeros.
Of(syms, zeros) == [syms |-> syms, lead |-> TRUE, zeros |-> zeros \cup {Len(syms)}]

BadLead == [syms |-> <<Lit(1, 1, 0)>>, lead |-> FALSE, zeros |-> {}]
TooFar  == Of(<<Lit(1, 1, 0), Mat(2, 2, 2), Lit(5, 1, 0)>>, {})

OfAll   == Of(<<Lit(1, 1, 0), Lit(2, 0, 0), Mat(2, 5, 3), Lit(3, 1, 1), Mark(2)>>, {})

MCStreams == {
  BadLead, TooFar, OfAll,
  Of(<<Lit(1, 0, 0), Again(1, 1, 1), Lit(2, 2, 1), Mat(3, 2, 1), Again(2, 3, 2), Lit(4, 1, 0)>>, {2}),
  Of(<<Lit(1, 2, 1), Lit(2, 2, 1), Lit(3, 0, 0), Lit(4, 1, 1), Mat(3, 4, 2), Lit(5, 1, 0)>>, {}),
  Of(<<Lit(1, 1, 0), Lit(2, 1, 1), Mat(1, 2, 1), Mat(4, 2, 1), Lit(5, 1, 0)>>, {}),
  Of(<<Again(1, 2, 1), Lit(5, 1, 0)>>, {}),
  [syms |-> <<Lit(1, 1, 0), Mark(3), Lit(2, 1, 0)>>, lead |-> TRUE, zeros |-> {}],
  [syms |-> <<Lit(1, 1, 0), Mark(3), Lit(2, 1, 0)>>, lead |-> TRUE, zeros |-> {2}],
  Of(<<>>, {}) }

\* For the liveness property: the rest of a match that is longer than the room,
\* a symbol without bytes, one that comes in pieces, one that is bad.
MCLiveStreams == {BadLead, TooFar, OfAll}
-----------------------------------------------------------------------------
(* LZMA2.                                                                  *)

Copy(control, n) ==
  [control |-> control, unpack |-> n, pack |-> 0, prop |-> 0, need |-> <<>>, first |-> 9]
Lzma(control, n, m, prop, need) ==
  [control |-> control, unpack |-> n, pack |-> m, prop |-> prop, need |-> need, first |-> 0]

\* Properties with lc + lp > 4 or out of range, sizes that are wrong, a first
\* byte that is not 0.
MCBadChunks == {
  Lzma(224, 2, 2, 53, <<2, 2>>),
  Copy(3, 1),
  Lzma(192, 1, 2, 225, <<2>>),
  Lzma(224, 2, 3, 93, <<2, 2>>),
  Lzma(224, 1, 3, 93, <<2, 3>>),
  [Lzma(224, 1, 2, 0, <<2>>) EXCEPT !.first = 1] }
MCChunks == {
  Copy(1, 3), Copy(2, 1),
  Lzma(224, 4, 3, 93, <<2, 2, 3, 3>>),
  Lzma(192, 2, 3, 0, <<3, 3>>),
  Lzma(160, 1, 2, 0, <<2>>),
  Lzma(128, 2, 2, 0, <<2, 2>>) } \cup MCBadChunks
MCLiveChunks == {Copy(1, 3), Lzma(224, 4, 3, 93, <<2, 2, 3, 3>>), Lzma(128, 2, 2, 0, <<2, 2>>)}

Ending == [control |-> 0, unpack |-> 0]
-----------------------------------------------------------------------------
\* Those that are not used.
NoLzma  == stream = Of(<<>>, {}) /\ LzmaDecStart /\ d.dicBufSize = CHOOSE n \in BufSizes : TRUE
NoLzma2 == Lzma2Start
NoParse == ParseStart
EndOnly == chunks = <<Ending>>

\* Nothing is read after a bad chunk.
BadEnds == \A i \in DOMAIN chunks : chunks[i] \in MCBadChunks => i = Len(chunks) - 1

LzmaPart  == LzmaDecInit /\ NoLzma2 /\ NoParse /\ EndOnly
Lzma2Part == Lzma2Init /\ BadEnds /\ NoLzma /\ NoParse
ParsePart == ParseInit /\ BadEnds /\ NoLzma /\ NoLzma2

\* A caller that goes on, offering input and room, until the stream is over.
LzmaGoesOn  == part = "lzmaGoesOn" /\ DrivenNext /\ UNCHANGED <<part, lzma2Vars, parseVars>>
Lzma2GoesOn == part = "lzma2GoesOn" /\ Lzma2DrivenNext /\ UNCHANGED <<part, lzmaDecVars, parseVars>>
Over == /\ \/ part = "lzmaGoesOn" /\ AtRest /\ (Len(out) = Len(Whole.out) \/ pc = "over")
           \/ part = "lzma2GoesOn" /\ Lzma2AtRest /\ (last2.status = "finished_with_mark" \/ pc2 = "over")
        /\ UNCHANGED mcVars

Init == \/ part = "lzma" /\ LzmaPart
        \/ part = "lzma2" /\ Lzma2Part
        \/ part = "parse" /\ ParsePart
        \/ part = "lzmaGoesOn" /\ LzmaPart /\ stream \in MCLiveStreams
        \/ part = "lzma2GoesOn" /\ Lzma2Part /\ \A i \in DOMAIN chunks : chunks[i] \in MCLiveChunks \cup {Ending}
Next ==
  \/ part = "lzma" /\ LzmaDecNext /\ UNCHANGED <<part, lzma2Vars, parseVars>>
  \/ part = "lzma2" /\ Lzma2Next /\ UNCHANGED <<part, lzmaDecVars, parseVars>>
  \/ part = "parse" /\ ParseNext /\ UNCHANGED <<part, lzmaDecVars, lzma2Vars>>
  \/ LzmaGoesOn \/ Lzma2GoesOn \/ Over
Spec == Init /\ [][Next]_mcVars /\ WF_mcVars(LzmaGoesOn \/ Lzma2GoesOn)

\* A decoder whose caller goes on, offering input and room, gets the whole output
\* of the stream, or the error of a bad one (LzmaDec_DecodeToBuf, Lzma2Dec_DecodeToBuf).
GoingOnGetsAll ==
  (part = "lzmaGoesOn" => EverythingDecoded) /\ (part = "lzma2GoesOn" => Lzma2EverythingDecoded)
=============================================================================
