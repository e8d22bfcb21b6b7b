----------------------------- MODULE Lzma2Format -----------------------------
(***************************************************************************)
(* LZMA2 streams: a sequence of chunks.  Header bytes have their values; a *)
(* byte of a chunk's data is its place in the stream.  Of the data of an   *)
(* LZMA chunk need[o] is the number of its bytes after which its first o   *)
(* bytes of output exist.  And Lzma2Dec_UpdateState, the state machine     *)
(* that the decoder and the parser of Lzma2Dec.c share.                    *)
(***************************************************************************)
EXTENDS Integers, Sequences, SequencesExt, FiniteSetsExt

CONSTANTS
  Chunks,     \* the chunks that streams are made of
  MaxChunks   \* in a stream, without the end of data

ASSUME Lzma2FormatAssumption ==
  /\ MaxChunks \in Nat
  /\ \A c \in Chunks : c.control >= 128 => Len(c.need) >= c.unpack

VARIABLE chunks   \* the chunks of this behaviour, that make up its stream

IsLzma(c)     == c.control >= 128
-----------------------------------------------------------------------------
(* The format (comment at the top of Lzma2Dec.c).                          *)

Header(c) ==
  LET u == c.unpack - 1
      k == c.pack - 1
  IN IF c.control = 0 THEN <<0>>
     ELSE <<IF IsLzma(c) THEN c.control + u \div 65536 ELSE c.control, (u \div 256) % 256, u % 256>>
          \o (IF IsLzma(c) THEN <<k \div 256, k % 256>> ELSE <<>>)
          \o (IF c.control >= 192 THEN <<c.prop>> ELSE <<>>)
DataBytes(c) == IF c.control = 0 THEN 0 ELSE IF IsLzma(c) THEN c.pack ELSE c.unpack

\* The first byte of the data matters: for LZMA it must be 0.
ChunkBytes(c) == Header(c) \o [k \in 1 .. DataBytes(c) |-> IF k = 1 THEN c.first ELSE 9]
Bytes(s)      == FlattenSeq([k \in 1 .. Len(s) |-> ChunkBytes(s[k])])

\* The stream, and the byte at a place of it.
NumChunkBytes == Len(Bytes(chunks))
At(pos)       == Bytes(chunks)[pos]

\* Where the data of chunk k begins.
DataStart(s, k) == Len(Bytes(SubSeq(s, 1, k - 1))) + Len(Header(s[k]))

\* What chunk k decodes to: its own bytes, or what the LZMA decoder makes of it.
Output(s, k) ==
  IF IsLzma(s[k]) THEN [o \in 1 .. s[k].unpack |-> 1000 * k + o]
  ELSE [o \in 1 .. DataBytes(s[k]) |-> DataStart(s, k) + o]

\* lc + lp of the property byte is at most 4 (LZMA2_LCLP_MAX).
PropOK(b) == b < 9 * 5 * 5 /\ (b % 9) + ((b \div 9) % 5) <= 4

\* A chunk may come after the chunks before it: the dictionary is reset first,
\* and after that an LZMA chunk needs properties of its own.
MayFollow(before, c) ==
  LET needs(k) == before[k].control = 1 /\ ~\E j \in k + 1 .. Len(before) : IsLzma(before[j])
  IN \/ c.control \in {0, 1} \/ c.control >= 224
     \/ before # <<>> /\ c.control = 2
     \/ before # <<>> /\ IsLzma(c) /\ ((\E k \in 1 .. Len(before) : needs(k)) => c.control >= 192)

Exact(c) == IsLzma(c) => Len(c.need) = c.unpack /\ c.need[c.unpack] = c.pack /\ c.first = 0
HeaderOK(before, c) == MayFollow(before, c) /\ (c.control >= 192 => PropOK(c.prop))

\* The whole stream: the first chunk that is bad, what comes out before it.
FirstBad(s) == LET bad == {k \in 1 .. Len(s) : ~HeaderOK(SubSeq(s, 1, k - 1), s[k])}
               IN IF bad = {} THEN Len(s) + 1 ELSE CHOOSE k \in bad : \A j \in bad : k <= j
FirstInexact(s) == LET bad == {k \in 1 .. Len(s) : ~Exact(s[k])}
                   IN IF bad = {} THEN Len(s) + 1 ELSE CHOOSE k \in bad : \A j \in bad : k <= j
Sound(s)     == FirstBad(s) > Len(s) /\ FirstInexact(s) > Len(s)
Expected(s)  == FlattenSeq([k \in 1 .. Min({FirstBad(s) - 1, FirstInexact(s), Len(s)}) |-> Output(s, k)])
-----------------------------------------------------------------------------
\* All streams; the last chunk is the end of data.
ChunkSeqs == {s \o <<[control |-> 0, unpack |-> 0]>> : s \in UNION {[1 .. n -> Chunks] : n \in 0 .. MaxChunks}}

\* Lzma2Dec_Init
FreshParser == [state |-> "control", control |-> 0, needInitLevel |-> 224, unpackSize |-> 0,
                packSize |-> 0, isExtraMode |-> FALSE, propSet |-> FALSE, chunk |-> 0]
-----------------------------------------------------------------------------
(* Lzma2Dec_UpdateState: one byte of a header.                             *)

InHeader(q) == q.state \in {"control", "unpack0", "unpack1", "pack0", "pack1", "prop"}
Copies(q)   == q.control < 128

ControlByte(q, b) ==
  LET q1 == [q EXCEPT !.isExtraMode = FALSE, !.control = b, !.chunk = @ + 1]
  IN IF b = 0 THEN [q1 EXCEPT !.state = "finished"]
     ELSE IF b < 128
     THEN IF b = 1 THEN [q1 EXCEPT !.needInitLevel = 192, !.state = "unpack0"]
          ELSE IF b > 2 \/ q.needInitLevel = 224 THEN [q1 EXCEPT !.state = "error"]
          ELSE [q1 EXCEPT !.state = "unpack0"]
     ELSE IF b < q.needInitLevel THEN [q1 EXCEPT !.state = "error"]
     ELSE [q1 EXCEPT !.needInitLevel = 0, !.unpackSize = (b % 32) * 65536, !.state = "unpack0"]

\* The bits that are set by |= are 0 before: see HeaderStartsClean.
UpdateState(q, b) ==
  CASE q.state = "control" -> ControlByte(q, b)
    [] q.state = "unpack0" -> [q EXCEPT !.unpackSize = @ + b * 256, !.state = "unpack1"]
    [] q.state = "unpack1" -> [q EXCEPT !.unpackSize = @ + b + 1,
                                        !.state = IF Copies(q) THEN "data" ELSE "pack0"]
    [] q.state = "pack0"   -> [q EXCEPT !.packSize = b * 256, !.state = "pack1"]
    [] q.state = "pack1"   -> [q EXCEPT !.packSize = @ + b + 1,
                                        !.state = IF (q.control \div 64) % 2 = 1 THEN "prop" ELSE "data"]
    [] q.state = "prop"    -> IF PropOK(b) THEN [q EXCEPT !.state = "data", !.propSet = TRUE]
                              ELSE [q EXCEPT !.state = "error"]
=============================================================================
