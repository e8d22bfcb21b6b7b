---------------------------- MODULE DecompressObj ----------------------------
(***************************************************************************)
(* The streaming decompressor, pylzma/pylzma_decompressobj.c, over the     *)
(* incremental decoder (sdk/C/LzmaDec.c, Lzma2Dec.c).                      *)
(*                                                                         *)
(* The caller passes a stream in pieces to decompress(), each call         *)
(* returns at most bufsize bytes, and the bytes that were not used wait in *)
(* unconsumed_tail.  The bytes of the stream are its positions 1, 2, ...:  *)
(* PropsLen properties, then the payload.  A byte that was never written   *)
(* is Junk.  Of the payload only this is kept: how much output is known    *)
(* after each byte, where the end mark is, and which byte is damaged.      *)
(*                                                                         *)
(* Allocation never fails.  After an exception the caller calls reset().   *)
(***************************************************************************)
EXTENDS Integers, Sequences, FiniteSetsExt

CONSTANTS
  NULL,
  PropsLen,      \* LZMA_PROPS_SIZE, or 1 for LZMA2
  PayloadLen,    \* bound: bytes after the properties
  MaxYield,      \* bound: bytes of output one byte of payload gives
  BLOCK_SIZE,    \* what flush() asks for at a time
  ChunkSizes,    \* lengths of the pieces
  BufSizes,      \* values of bufsize
  MaxLengths,    \* values of maxlength, besides -1 (it is not given)
  Marks,         \* where the end mark may be; 0 when there is none
  Damages,       \* which byte of payload is damaged; 0 for none
  Surpluses,     \* see Streams
  MayStartEmpty, \* does the caller pass b'' before it has passed anything?
  MayFlushStale  \* does it flush an object that still has the decoder of the
                 \* stream before the reset?

ASSUME SizesAssumption ==
  /\ PropsLen \in Nat \ {0} /\ PayloadLen \in Nat /\ MaxYield \in Nat
  /\ BLOCK_SIZE \in Nat \ {0}
  /\ ChunkSizes \subseteq Nat /\ BufSizes \subseteq Nat \ {0}
  /\ MaxLengths \subseteq Nat \ {0}
  /\ Marks \subseteq 0 .. PayloadLen /\ Damages \subseteq 0 .. PayloadLen
  /\ Surpluses \subseteq Nat
  /\ MayStartEmpty \in BOOLEAN /\ MayFlushStale \in BOOLEAN
  /\ NULL \notin Seq(Nat) /\ NULL \notin [avail_out : Nat, outsize : Nat]

Junk == 0

VARIABLES
  stream,            \* what is being decompressed
  fed,               \* bytes of it that the caller has passed
  unconsumed_tail,   \* the fields of CDecompressionObject
  unconsumed_length,
  need_properties,
  max_length,
  total_out,
  dec,               \* state.lzma or state.lzma2
  flushing,          \* the local variables of a running flush(), or NULL
  delivered,         \* bytes the caller has been given
  last               \* the call that returned last, and what it returned

tailVars  == <<unconsumed_tail, unconsumed_length>>
vars == <<stream, fed, tailVars, need_properties, max_length, total_out, dec,
          flushing, delivered, last>>

(***************************************************************************)
(* reach[k] is the output that the first k bytes of payload determine.     *)
(* Nothing comes after the end mark or the damage, and they yield nothing. *)
(* size is the length of the data that was compressed.  Without an end     *)
(* mark the decoder does not know it, and may find a surplus: further      *)
(* symbols that need no further byte.                                      *)
(***************************************************************************)
Streams ==
  {s \in [reach : {f \in [0 .. PayloadLen -> 0 .. MaxYield * PayloadLen] :
                     /\ f[0] = 0
                     /\ \A k \in 1 .. PayloadLen : f[k] - f[k-1] \in 0 .. MaxYield},
          mark : Marks, damage : Damages, size : 0 .. MaxYield * PayloadLen,
          badProps : BOOLEAN] :
     /\ \A e \in {s.mark, s.damage} \ {0} : \A k \in e .. PayloadLen : s.reach[k] = s.reach[e-1]
     /\ s.damage # 0 /\ s.mark # 0 => s.damage <= s.mark
     /\ s.reach[PayloadLen] - s.size \in (IF s.mark # 0 THEN {0} ELSE Surpluses)}

Total == PropsLen + PayloadLen

\* The positions m+1 .. n.
Bytes(m, n) == [i \in 1 .. n - m |-> m + i]

Nothing == [call |-> "none", result |-> "bytes", n |-> 0]

Init ==
  /\ stream \in Streams
  /\ fed = 0
  /\ unconsumed_tail = NULL /\ unconsumed_length = 0
  /\ need_properties = TRUE
  /\ max_length \in {-1} \cup MaxLengths
  /\ total_out = 0
  /\ dec = [tables |-> FALSE, mode |-> "zero", consumed |-> 0, produced |-> 0]
  /\ flushing = NULL
  /\ delivered = 0
  /\ last = Nothing
-----------------------------------------------------------------------------
(* The decoder. *)

\* LzmaDec_Allocate and LzmaDec_Init.
InitDecoder == [tables |-> TRUE, mode |-> "live", consumed |-> 0, produced |-> 0]

\* The first byte of payload after which d can give room more bytes, if a byte
\* before e is.
Enough(d, e, room) ==
  {k \in d.consumed .. e : /\ stream.reach[k] >= d.produced + room
                           /\ stream.damage \notin d.consumed + 1 .. k}

\* LzmaDec_DecodeToBuf with LZMA_FINISH_ANY: it stops where the output is full
\* (later symbols are not looked at), at the damage, at the end mark, or takes
\* all of the input (what is not enough for a symbol goes to tempBuf).
DecodeLive(d, n, room) ==
  LET e == Min({d.consumed + n, IF stream.mark = 0 THEN PayloadLen ELSE stream.mark})
      full == Enough(d, e, room)
      damaged == stream.damage \in d.consumed + 1 .. e
      k == IF full # {} THEN Min(full) ELSE IF damaged THEN stream.damage ELSE e
      out == IF full # {} THEN room ELSE stream.reach[k] - d.produced
  IN  [tables |-> TRUE, consumed |-> k, produced |-> d.produced + out,
       mode |-> IF full # {} THEN "live" ELSE IF damaged THEN "error"
                ELSE IF stream.mark # 0 /\ k = stream.mark THEN "finished" ELSE "live"]

\* Input that does not continue the stream is a damaged stream.
DecodeToBuf(d, input, room) ==
  IF d.mode # "live" THEN d
  ELSE IF input # Bytes(PropsLen + d.consumed, PropsLen + d.consumed + Len(input))
  THEN [d EXCEPT !.mode = "error"]
  ELSE DecodeLive(d, Len(input), room)

\* Until the next properties are read a reset object has the decoder of the
\* stream before, which goes on if that was not at its end.
LeftOver(d) == ~d.tables /\ d.mode \in {"live", "error"}

\* The decoder works on tables that were freed: anything may happen.
StaleDecoder(d) == LeftOver(d) /\ d.mode = "live"
-----------------------------------------------------------------------------
(* decompress(data, bufsize) *)

Return(call, result, n) == last' = [call |-> call, result |-> result, n |-> n]

\* An exception was raised, or memory was damaged: only reset() follows.
Usable == flushing = NULL /\ last.result = "bytes"

CanPass(n) ==
  /\ Usable
  /\ fed + n <= Total
  /\ n = 0 /\ fed = 0 => MayStartEmpty

\* Mutant: the new data replaces the tail.
Joined_Replaced(n) ==
  IF unconsumed_length > 0 THEN Bytes(fed, fed + n) ELSE unconsumed_tail

\* unconsumed_tail after the new data was appended to it.
Joined(n) ==
  IF unconsumed_length > 0 THEN unconsumed_tail \o Bytes(fed, fed + n) ELSE unconsumed_tail

\* What next_in points to.
NextIn(n) == IF unconsumed_length > 0 THEN Joined(n) ELSE Bytes(fed, fed + n)

Pass(n) == fed' = fed + n

\* Not enough bytes for the properties yet.  realloc(NULL, 0) gives an empty
\* block, and realloc(block, 0) frees it and gives NULL.
WaitForProperties(n) ==
  /\ CanPass(n)
  /\ need_properties /\ unconsumed_length + n < PropsLen
  /\ Pass(n)
  /\ LET empty == unconsumed_length + n = 0
         noMemory == empty /\ unconsumed_tail # NULL
     IN  /\ unconsumed_tail' = IF noMemory THEN NULL
                               ELSE IF unconsumed_length > 0 THEN Joined(n)
                               ELSE Bytes(fed, fed + n)
         /\ unconsumed_length' = unconsumed_length + n
         /\ Return("decompress", IF noMemory THEN "MemoryError" ELSE "bytes", 0)
  /\ UNCHANGED <<stream, need_properties, max_length, total_out, dec, flushing, delivered>>

RejectProperties(n) ==
  /\ CanPass(n)
  /\ need_properties /\ unconsumed_length + n >= PropsLen
  /\ stream.badProps
  /\ Pass(n)
  /\ unconsumed_tail' = Joined(n)
  /\ unconsumed_length' = unconsumed_length + n
  /\ Return("decompress", "TypeError", 0)
  /\ UNCHANGED <<stream, need_properties, max_length, total_out, dec, flushing, delivered>>

\* Mutant: the tail is not moved to its beginning.
AfterProperties_NotMoved(n) ==
  LET rest == unconsumed_length + n - PropsLen IN
  IF rest = 0 THEN NULL
  ELSE IF Joined(n) = NULL THEN SubSeq(NextIn(n), PropsLen + 1, PropsLen + rest)
  ELSE SubSeq(Joined(n), 1, rest)

\* The tail without the properties.  When there is a tail the data is taken to
\* be in it, which it is not if the tail is empty: what lies behind it is moved.
AfterProperties(n) ==
  LET rest == unconsumed_length + n - PropsLen IN
  IF rest = 0 THEN NULL
  ELSE IF Joined(n) = NULL THEN SubSeq(NextIn(n), PropsLen + 1, PropsLen + rest)
  ELSE IF Joined(n) = <<>> THEN [i \in 1 .. rest |-> Junk]
  ELSE SubSeq(Joined(n), PropsLen + 1, PropsLen + rest)

OrNull(bytes) == IF bytes = <<>> THEN NULL ELSE bytes

\* The call of the decoder and what follows it.  input is what next_in points
\* to, kept what unconsumed_tail points to.
DecodeSome(d, input, kept, bufsize) ==
  LET after == DecodeToBuf(d, input, bufsize)
      rest == SubSeq(input, after.consumed - d.consumed + 1, Len(input))
      out == after.produced - d.produced
  IN  /\ dec' = after
      /\ total_out' = total_out + out
      /\ IF after.mode = "error"
         THEN /\ unconsumed_tail' = kept
              /\ unconsumed_length' = Len(input)
              /\ delivered' = delivered
              /\ Return("decompress", "ValueError", 0)
         ELSE /\ unconsumed_tail' = OrNull(rest)
              /\ unconsumed_length' = Len(rest)
              /\ delivered' = delivered + out
              /\ Return("decompress", "bytes", out)

\* There is nothing to decode ("no more bytes to decompress").
DecodeNothing(d) ==
  /\ dec' = d
  /\ unconsumed_tail' = NULL /\ unconsumed_length' = 0
  /\ Return("decompress", "bytes", 0)
  /\ UNCHANGED <<total_out, delivered>>

ReadProperties(n, bufsize) ==
  /\ CanPass(n)
  /\ need_properties /\ unconsumed_length + n >= PropsLen
  /\ ~stream.badProps
  /\ Pass(n)
  /\ need_properties' = FALSE
  /\ LET input == AfterProperties(n)
     IN  IF input = NULL THEN DecodeNothing(InitDecoder)
         ELSE DecodeSome(InitDecoder, input, input, bufsize)
  /\ UNCHANGED <<stream, max_length, flushing>>

Continue(n, bufsize) ==
  /\ CanPass(n)
  /\ ~need_properties
  /\ Pass(n)
  /\ IF NextIn(n) = <<>> THEN DecodeNothing(dec)
     ELSE DecodeSome(dec, NextIn(n), Joined(n), bufsize)
  /\ UNCHANGED <<stream, need_properties, max_length, flushing>>

Decompress ==
  \E n \in ChunkSizes :
    \/ WaitForProperties(n) \/ RejectProperties(n)
    \/ \E bufsize \in BufSizes : ReadProperties(n, bufsize) \/ Continue(n, bufsize)
-----------------------------------------------------------------------------
(* flush() *)

\* Nothing is left to ask for, or more was returned than max_length.
FlushNothing ==
  /\ Usable
  /\ max_length # -1 /\ max_length <= total_out
  /\ Return("flush", IF max_length = total_out THEN "bytes" ELSE "SystemError", 0)
  /\ UNCHANGED <<stream, fed, tailVars, need_properties, max_length, total_out, dec,
                 flushing, delivered>>

FlushBegin ==
  /\ Usable
  /\ max_length = -1 \/ max_length > total_out
  /\ LeftOver(dec) => MayFlushStale
  /\ flushing' = [avail_out |-> IF max_length = -1 THEN BLOCK_SIZE ELSE max_length - total_out,
                  outsize |-> 0]
  /\ UNCHANGED <<stream, fed, tailVars, need_properties, max_length, total_out, dec,
                 delivered, last>>

\* Mutant: the buffer is not cut to outsize.
FlushReturns_NotCut(result, n) ==
  /\ Return("flush", result, n)
  /\ flushing' = NULL
  /\ delivered' = delivered + (IF result = "bytes" THEN flushing.outsize + flushing.avail_out ELSE 0)

FlushReturns(result, n) ==
  /\ Return("flush", result, n)
  /\ flushing' = NULL
  /\ delivered' = delivered + n

\* One round of the loop, with working tables.  After a round that fills
\* avail_out without a max_length the buffer grows by BLOCK_SIZE.
FlushDecode ==
  LET after == DecodeToBuf(dec, IF unconsumed_length = 0 THEN <<>> ELSE unconsumed_tail,
                           flushing.avail_out)
      taken == after.consumed - dec.consumed
      out == after.produced - dec.produced
      outsize == flushing.outsize + out
      failed == \/ after.mode = "error"
                \/ out = 0 /\ max_length # -1 /\ total_out < max_length
  IN  /\ dec' = after
      /\ unconsumed_length' = unconsumed_length - taken
      /\ unconsumed_tail' = IF unconsumed_length = 0 THEN unconsumed_tail
                            ELSE OrNull(SubSeq(unconsumed_tail, taken + 1, unconsumed_length))
      /\ total_out' = IF failed THEN total_out ELSE total_out + out
      /\ IF failed THEN FlushReturns("ValueError", 0)
         ELSE IF out < flushing.avail_out \/ max_length # -1 THEN FlushReturns("bytes", outsize)
         ELSE /\ flushing' = [avail_out |-> BLOCK_SIZE, outsize |-> outsize]
              /\ UNCHANGED <<delivered, last>>


FlushRound ==
  /\ flushing # NULL
  /\ IF StaleDecoder(dec)
     THEN /\ FlushReturns("undefined", 0)
          /\ UNCHANGED <<tailVars, total_out, dec>>
     ELSE FlushDecode
  /\ UNCHANGED <<stream, fed, need_properties, max_length>>
-----------------------------------------------------------------------------
\* reset(maxlength): the tables are freed, the rest of the decoder stays.  The
\* caller starts the stream over.
Reset ==
  /\ flushing = NULL
  /\ dec' = [dec EXCEPT !.tables = FALSE]
  /\ unconsumed_tail' = NULL /\ unconsumed_length' = 0
  /\ need_properties' = TRUE
  /\ total_out' = 0
  /\ max_length' \in {-1} \cup MaxLengths
  /\ fed' = 0 /\ delivered' = 0 /\ last' = Nothing
  /\ UNCHANGED <<stream, flushing>>

Next == Decompress \/ FlushNothing \/ FlushBegin \/ FlushRound \/ Reset

Spec == Init /\ [][Next]_vars
-----------------------------------------------------------------------------
TypeOK ==
  /\ stream \in Streams
  /\ fed \in 0 .. Total
  /\ unconsumed_tail = NULL \/ unconsumed_tail \in Seq(0 .. Total)
  /\ unconsumed_length \in 0 .. Total
  /\ need_properties \in BOOLEAN
  /\ max_length \in {-1} \cup MaxLengths
  /\ dec \in [tables : BOOLEAN, mode : {"zero", "live", "finished", "error"},
              consumed : 0 .. PayloadLen, produced : 0 .. MaxYield * PayloadLen]
  /\ total_out \in 0 .. MaxYield * PayloadLen
  /\ delivered \in 0 .. total_out
  /\ flushing = NULL \/ flushing \in [avail_out : Nat \ {0}, outsize : 0 .. total_out]
  /\ last \in [call : {"none", "decompress", "flush"}, n : 0 .. total_out,
               result : {"bytes", "TypeError", "ValueError", "SystemError", "MemoryError", "undefined"}]

(* No byte that the caller passed is lost, repeated or moved: those the       *)
(* decoder has not taken are in unconsumed_tail, in their order, whatever the *)
(* sizes of the pieces and of the output buffers were.                        *)
Taken == IF need_properties THEN 0 ELSE PropsLen + dec.consumed

InputKept ==
  last.result \in {"bytes", "MemoryError"} =>
    /\ unconsumed_length = fed - Taken
    /\ unconsumed_length > 0 => unconsumed_tail = Bytes(Taken, fed)

(* Output is returned once and in order: as long as no call fails all that     *)
(* the decoder has produced was returned, and total_out, from which flush()    *)
(* computes how much is missing, counts it.                                    *)
OutputDelivered ==
  /\ last.result = "bytes" =>
       total_out = delivered + (IF flushing = NULL THEN 0 ELSE flushing.outsize)
  /\ last.result = "bytes" /\ ~need_properties => total_out = dec.produced

\* The output that n bytes of the stream determine.
Decodable(n) == IF n <= PropsLen THEN 0 ELSE stream.reach[n - PropsLen]

(* flush() of an object without max_length returns all the output that the     *)
(* input passed so far determines: no byte remains in the decoder or the tail, *)
(* however many rounds the loop needs.                                         *)
FlushDrains ==
  last.call = "flush" /\ last.result = "bytes" /\ max_length = -1 =>
    delivered = Decodable(fed)

(* Sound input is never rejected: a stream that is not damaged raises neither  *)
(* TypeError nor ValueError, except in flush() when max_length is more than    *)
(* the stream holds.                                                           *)
SoundInputAccepted ==
  /\ last.result = "TypeError" => stream.badProps
  /\ last.result = "ValueError" =>
       \/ stream.damage # 0
       \/ last.call = "flush" /\ max_length > Decodable(fed)

\* What a caller sees of the object, without tail, decoder and buffers.
Contract == INSTANCE StreamDecoder WITH
  Stream <- stream, result <- last.result, out <- delivered

(* Seen from outside, the object only takes the next bytes of the stream and   *)
(* returns the next bytes of its decoding (StreamDecoder), raises an exception *)
(* only for what it was passed, and is a new one after reset(): nothing of the *)
(* tail, the counts or the decoder shows.  The decoder does show in a flush()  *)
(* before the next properties are read: without the condition ~MayFlushStale   *)
(* this does not hold, since such a call works on freed tables or raises the   *)
(* exception of the stream before.                                             *)
ImplementsStreamDecoder == Contract!DecoderSpec

(* Nothing is lost or doubled on the way in or out, at every size of the       *)
(* pieces and buffers (the tail, unconsumed_length, total_out), or left behind    *)
(* by flush().                                                                 *)
BytesAccounted == TypeOK /\ InputKept /\ OutputDelivered /\ FlushDrains
=============================================================================
