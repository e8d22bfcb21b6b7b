------------------------------ MODULE Lzma2Enc ------------------------------
(***************************************************************************)
(* The LZMA2 encoder of Lzma2Enc.c, one thread of it (Lzma2Enc_EncodeMt1): *)
(* blocks of the input, each cut into chunks that are LZMA or, where that  *)
(* does not pay, copies.  The LZMA encoder is any that codes some of the   *)
(* input: its state is the sequence of the chunks it has coded since the   *)
(* last reset.  What comes out is checked against Lzma2Format, the format  *)
(* that Lzma2Dec decodes.                                                  *)
(***************************************************************************)
EXTENDS Integers, Sequences, FiniteSetsExt

CONSTANTS
  UnpackMax,   \* LZMA2_UNPACK_SIZE_MAX
  CopyMax,     \* LZMA2_COPY_CHUNK_SIZE
  PackMax,     \* the size a chunk may have to be stored as LZMA, (1 << 16)
  Packs,       \* sizes that the LZMA encoder may give a chunk, with the flush at its end
  CodedSizes,  \* bytes that it may code at once, besides all that is left
  InSizes,     \* sizes of the input
  BlockSizes,  \* props.blockSize; Solid for LZMA2_ENC_PROPS_BLOCK_SIZE_SOLID
  Limits,      \* sizes of outBuf; for an outStream, any size is enough
  Solid

\* What RangeEnc_FlushData writes.
FlushSize == 5

ASSUME Lzma2EncAssumption ==
  /\ {UnpackMax, CopyMax, PackMax} \subseteq Nat \ {0} /\ CopyMax <= UnpackMax
  /\ Packs \subseteq Nat /\ (\A k \in Packs : k >= FlushSize)
  /\ CodedSizes \subseteq Nat \ {0} /\ InSizes \subseteq Nat /\ Limits \subseteq Nat
  /\ BlockSizes \subseteq Nat \ {0} /\ Solid \in Nat /\ \A n \in InSizes : n < Solid

VARIABLES
  in,       \* [size, blockSize, stream, buf, finished, outLim]: what the call is given;
            \* is the input a stream, is the output a buffer?
  encPc, res,
  coder,    \* CLzma2EncInt, and the state of its LZMA encoder
  saved,    \* LzmaEnc_SaveState
  block,    \* [size, empty]: of this block; was a read of it empty (limitedInStream.finished)?
  total,    \* [unpack, pack]
  out       \* the chunks written: [control, from, unpack, pack, before]

encVars == <<in, encPc, res, coder, saved, block, total, out>>

EncInit ==
  /\ \E n \in InSizes, b \in BlockSizes, s \in BOOLEAN, o \in BOOLEAN, f \in BOOLEAN, l \in Limits :
       /\ ~f => ~s /\ o     \* a thread of MtCoder
       /\ in = [size |-> n, blockSize |-> b, stream |-> s, buf |-> o, finished |-> f, outLim |-> l]
  /\ encPc = "block" /\ res = "none" /\ saved = <<>>
  /\ coder = [srcPos |-> 0, needInitState |-> TRUE, needInitProp |-> TRUE, lz |-> <<>>]
  /\ block = [size |-> 0, empty |-> FALSE]
  /\ total = [unpack |-> 0, pack |-> 0] /\ out = <<>>

Return(code) == encPc' = "done" /\ res' = code

Rest == in.size - total.unpack

\* Lzma2EncInt_InitBlock
InitBlock == [coder EXCEPT !.srcPos = 0, !.needInitState = TRUE, !.needInitProp = TRUE]

\* Mutant: a stream is taken to have ended only after a read that fell short.
StartBlock_NeverEmpty ==
  /\ encPc = "block" /\ encPc' = "chunk" /\ coder' = InitBlock
  /\ LET size == IF in.blockSize # Solid /\ in.blockSize < Rest THEN in.blockSize ELSE Rest
     IN  block' = [size |-> size, empty |-> Rest < in.blockSize /\ Rest > 0]
  /\ UNCHANGED <<in, res, saved, total, out>>

\* The next block: from the stream no more than blockSize is read, and a read
\* that gives nothing says that the input has ended.
StartBlock ==
  /\ encPc = "block" /\ encPc' = "chunk" /\ coder' = InitBlock
  /\ LET size == IF in.blockSize # Solid /\ in.blockSize < Rest THEN in.blockSize ELSE Rest
     IN  block' = [size |-> size, empty |-> in.blockSize = Solid \/ Rest < in.blockSize]
  /\ UNCHANGED <<in, res, saved, total, out>>

HeaderSize == 5 + (IF coder.needInitProp THEN 1 ELSE 0)
Limit      == in.outLim - total.pack
Pos        == total.unpack + coder.srcPos
BlockRest  == block.size - coder.srcPos

\* The mode of an LZMA chunk: what the decoder has to reset.
Mode == IF coder.srcPos = 0 THEN 3 ELSE IF coder.needInitState THEN (IF coder.needInitProp THEN 2 ELSE 1) ELSE 0

\* The LZMA encoder codes u bytes, into k; reInit empties its state before.
Coded(u) == (IF coder.needInitState THEN <<>> ELSE coder.lz) \o <<[from |-> Pos, unpack |-> u]>>

\* The chunk is worth it.
StoreLzma(u, k) ==
  /\ out' = Append(out, [control |-> 128 + 32 * Mode, from |-> Pos, unpack |-> u, pack |-> k,
                         before |-> IF coder.needInitState THEN <<>> ELSE coder.lz])
  /\ coder' = [coder EXCEPT !.srcPos = @ + u, !.needInitState = FALSE, !.needInitProp = FALSE, !.lz = Coded(u)]
  /\ total' = [total EXCEPT !.pack = @ + HeaderSize + k]
  /\ UNCHANGED <<encPc, res>>

CopyControl == IF coder.srcPos = 0 THEN 1 ELSE 2

\* The copies of u bytes: the first only may have to reset the dictionary.
CopyChunks(u) ==
  [i \in 1 .. (u + CopyMax - 1) \div CopyMax |->
     [control |-> IF i = 1 THEN CopyControl ELSE 2, from |-> Pos + (i - 1) * CopyMax,
      unpack |-> Min({CopyMax, u - (i - 1) * CopyMax}), pack |-> 0, before |-> <<>>]]

\* s[1] + ... + s[n]
SumTo(s, n) == LET T[k \in 0 .. n] == IF k = 0 THEN 0 ELSE T[k - 1] + s[k] IN T[n]

Room(chunks) == SumTo([i \in 1 .. Len(chunks) |-> chunks[i].unpack + 3], Len(chunks))

\* Mutant: the state of the LZMA encoder is not restored.
StoreCopies_KeepsState(u) ==
  LET chunks == CopyChunks(u) IN
  /\ (in.buf => Room(chunks) <= Limit) /\ out' = out \o chunks
  /\ coder' = [coder EXCEPT !.srcPos = @ + u, !.lz = Coded(u), !.needInitState = FALSE]
  /\ total' = [total EXCEPT !.pack = @ + Room(chunks)]
  /\ UNCHANGED <<encPc, res>>

\* It is not: the bytes are copied and the LZMA encoder goes back.
StoreCopies(u) ==
  LET chunks == CopyChunks(u) IN
  IF in.buf => Room(chunks) <= Limit
  THEN /\ out' = out \o chunks
       /\ coder' = [coder EXCEPT !.srcPos = @ + u, !.lz = saved']
       /\ total' = [total EXCEPT !.pack = @ + Room(chunks)]
       /\ UNCHANGED <<encPc, res>>
  ELSE Return("output_eof") /\ UNCHANGED <<coder, total, out>>

Worth(u, k) == k + 2 < u /\ k <= PackMax

\* How much the LZMA encoder may code in one call.
Codable == {u \in CodedSizes : u <= UnpackMax /\ u <= BlockRest} \cup {Min({UnpackMax, BlockRest})}

\* Nothing is left of the block: the LZMA encoder only flushes, for which there may
\* be no room.
CodeNothing ==
  /\ BlockRest = 0
  /\ IF in.buf /\ HeaderSize + FlushSize > Limit THEN Return("output_eof") ELSE encPc' = "end" /\ UNCHANGED res
  /\ UNCHANGED <<coder, total, out>>

CodeChunk ==
  /\ BlockRest > 0
  /\ \E u \in Codable, k \in Packs :
       LET overflow == in.buf /\ HeaderSize + k > Limit
       IN  IF ~overflow /\ Worth(u, k) THEN StoreLzma(u, k) ELSE StoreCopies(u)

\* Lzma2EncInt_EncodeSubblock
Subblock ==
  /\ encPc = "chunk" /\ UNCHANGED <<in, block>>
  /\ \/ /\ in.buf /\ Limit < HeaderSize
        /\ Return("output_eof") /\ UNCHANGED <<coder, saved, total, out>>
     \/ /\ \E c \in {"read", "write", "progress"} : Return(c)     \* a callback fails
        /\ UNCHANGED <<coder, saved, total, out>>
     \/ /\ in.buf => Limit >= HeaderSize
        /\ saved' = coder.lz
        /\ CodeNothing \/ CodeChunk

\* The end of a block; of the last one, with the end marker if this call writes it.
EndBlock ==
  /\ encPc = "end" /\ total' = [total EXCEPT !.unpack = @ + coder.srcPos]
  /\ IF (IF in.stream THEN block.empty ELSE total'.unpack = in.size)
     THEN IF ~in.finished THEN Return("ok") /\ UNCHANGED out
          ELSE IF in.buf /\ Limit <= 0 THEN Return("output_eof") /\ UNCHANGED out
          ELSE /\ Return("ok")
               /\ out' = Append(out, [control |-> 0, from |-> in.size, unpack |-> 0, pack |-> 0, before |-> <<>>])
     ELSE encPc' = "block" /\ UNCHANGED <<res, out>>
  /\ UNCHANGED <<in, coder, saved, block>>

EncDone == encPc = "done" /\ UNCHANGED encVars

EncNext == StartBlock \/ Subblock \/ EndBlock \/ EncDone
FairEnc == WF_encVars(StartBlock \/ Subblock \/ EndBlock)
EncSpec == EncInit /\ [][EncNext]_encVars /\ FairEnc
-----------------------------------------------------------------------------
(* Properties                                                              *)

Format == INSTANCE Lzma2Format WITH Chunks <- {}, MaxChunks <- 0, chunks <- out

\* Type correctness.
EncTypeOK ==
  /\ encPc \in {"block", "chunk", "end", "done"} /\ res \in {"none", "ok", "output_eof", "read", "write", "progress"}
  /\ total.unpack \in 0 .. in.size /\ total.pack \in Nat /\ coder.srcPos \in 0 .. block.size

\* What the decoder does with one control byte, and with the LZMA state it has.
Decoded(d, c) ==
  LET q == Format!ControlByte(d.q, c.control) IN
  [q  |-> [q EXCEPT !.state = IF @ = "unpack0" THEN "control" ELSE @],
   ok |-> d.ok /\ q.state # "error" /\ (Format!IsLzma(c) => c.before = (IF c.control >= 160 THEN <<>> ELSE d.lz)),
   lz |-> IF Format!IsLzma(c) THEN c.before \o <<[from |-> c.from, unpack |-> c.unpack]>> ELSE d.lz]

\* The decoder after the first n chunks.
DecoderStart == [q |-> Format!FreshParser, ok |-> TRUE, lz |-> <<>>]
DecoderAt(s, n) == LET T[k \in 0 .. n] == IF k = 0 THEN DecoderStart ELSE Decoded(T[k - 1], s[k]) IN T[n]

\* The decoder takes every chunk that was written, in the order of the input
\* and without a gap, with its LZMA state the same as the encoder's was.
StreamDecodes ==
  /\ DecoderAt(out, Len(out)).ok
  /\ \A i \in 1 .. Len(out) : out[i].from = (IF i = 1 THEN 0 ELSE out[i - 1].from + out[i - 1].unpack)

\* SZ_OK means the whole input, and the end marker if and only if it was asked for.
OkMeansAll ==
  encPc = "done" /\ res = "ok" =>
    /\ SumTo([i \in 1 .. Len(out) |-> out[i].unpack], Len(out)) = in.size
    /\ (\E i \in 1 .. Len(out) : out[i].control = 0) <=> in.finished

Size(c) == IF c.control = 0 THEN 1 ELSE IF Format!IsLzma(c) THEN 5 + (IF c.control >= 192 THEN 1 ELSE 0) + c.pack ELSE 3 + c.unpack

\* Never more than the buffer holds, and every field of a header fits.
FitsOutput ==
  /\ in.buf => SumTo([i \in 1 .. Len(out) |-> Size(out[i])], Len(out)) <= in.outLim
  /\ \A i \in 1 .. Len(out) : IF Format!IsLzma(out[i]) THEN out[i].unpack <= UnpackMax /\ out[i].pack <= PackMax
                              ELSE out[i].unpack <= CopyMax

\* An incompressible input costs no more than the headers of copies: a buffer
\* with that room, and that of the header and the flush of the call that finds
\* the block used up, is always enough.
RoomIsEnough ==
  res = "output_eof" => in.outLim < in.size + 3 * in.size + 6 + FlushSize

\* The encoder comes to an end.
EncoderEnds == <>(encPc = "done")

\* What Lzma2Enc_EncodeMt1 writes is a stream that the decoder takes, complete if
\* it says so, and never more than fits.
ChunksDecode == EncTypeOK /\ StreamDecodes /\ OkMeansAll /\ FitsOutput /\ RoomIsEnough
=============================================================================
