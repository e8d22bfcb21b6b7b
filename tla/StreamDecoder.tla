---------------------------- MODULE StreamDecoder ----------------------------
(***************************************************************************)
(* What a streaming decompressor promises to its caller: input is taken in *)
(* order, output is returned in order and never more of it than the input  *)
(* determines, an exception has its cause in what was passed since the     *)
(* last reset, and a reset starts over.  (decompressobj of pylzma.)        *)
(***************************************************************************)
EXTENDS Integers

CONSTANTS PropsLen, PayloadLen

VARIABLES
  Stream,      \* the stream: reach[k] is what k bytes of payload determine
  max_length,  \* the length that was announced, or -1
  fed,         \* bytes passed
  out,         \* bytes returned
  result       \* of the last call: "bytes", or the exception, after which only
               \* a reset helps

decoderVars == <<Stream, max_length, fed, out, result>>

Known(n) == IF n <= PropsLen THEN 0 ELSE Stream.reach[n - PropsLen]

DecoderInit == fed = 0 /\ out = 0 /\ result = "bytes"

\* The cause of an exception e is in the n bytes that were passed: they have bad
\* properties or the damaged byte, or determine less than what was announced; or
\* more than that was returned before.
MayRaise(e, n) ==
  \/ e = "TypeError" /\ n >= PropsLen /\ Stream.badProps
  \/ e = "ValueError" /\ \/ Stream.damage # 0 /\ n >= PropsLen + Stream.damage
                         \/ max_length > Known(n)
  \/ e = "SystemError" /\ max_length # -1 /\ max_length < out

\* A call of decompress or flush: it returns some of the output that is known
\* now, or raises an exception.
Call ==
  /\ result = "bytes"
  /\ fed' \in fed .. PropsLen + PayloadLen
  /\ \/ result' = "bytes" /\ out' \in out .. Known(fed')
     \/ MayRaise(result', fed') /\ out' = out
  /\ UNCHANGED <<Stream, max_length>>

ResetDecoder ==
  /\ fed' = 0 /\ out' = 0 /\ result' = "bytes"
  /\ max_length' = -1 \/ max_length' \in Nat
  /\ UNCHANGED Stream

DecoderNext == Call \/ ResetDecoder

DecoderSpec == DecoderInit /\ [][DecoderNext]_decoderVars
=============================================================================
