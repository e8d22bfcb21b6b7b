--------------------------------- MODULE Bcj2 ---------------------------------
(***************************************************************************)
(* Bcj2Enc.c splits x86 code into four streams: the code without the       *)
(* addresses that it converts, those of calls, those of jumps, and one bit *)
(* for each opcode that says whether its address was; Bcj2.c puts them     *)
(* together.  Either can stop wherever a stream has no data or no room,    *)
(* and goes on in the next call.                                           *)
(***************************************************************************)
EXTENDS Integers, Sequences, SequencesExt, FiniteSetsExt, Functions

CONSTANTS
  Codes,        \* what is encoded: sequences of blocks, which are sequences of bytes
  CallSizes,    \* how many bytes a call may be given, or room for how many
  Digit,        \* of the range coder: 256 in the code
  RelatLimit    \* relatLimit

ASSUME BcjAssumption ==
  /\ \A code \in Codes : \A k \in DOMAIN code : \A i \in DOMAIN code[k] : code[k][i] \in 0 .. 255
  /\ CallSizes \subseteq Nat \ {0} /\ Digit \in 128 .. 256 /\ RelatLimit \in 1 .. 2 ^ 28

TopRange  == Digit * Digit * Digit     \* kTopValue
MaxRange  == TopRange * Digit - 1      \* 0xffffffff
HalfOfBit == 2 ^ 10                    \* kBitModelTotal >> 1

Limits == CallSizes \cup {1000}        \* with all that there is, or all the room

\* An address: its four bytes, the first the lowest.
AddressOf(b)    == b[1] + b[2] * 2 ^ 8 + b[3] * 2 ^ 16 + (IF b[4] < 128 THEN b[4] ELSE b[4] - 256) * 2 ^ 24
AddressBytes(v) == [k \in 1 .. 4 |-> (v \div 2 ^ (8 * (k - 1))) % 256]

\* An opcode, after the byte prev: a call, a jump, or a conditional one of two bytes.
IsOpcode(prev, b) == b \in {232, 233} \/ (prev = 15 /\ b \in 128 .. 143)
StreamOf(b)       == IF b = 232 THEN "call" ELSE "jump"
ProbOf(prev, b)   == IF b = 232 THEN prev + 2 ELSE IF b = 233 THEN 1 ELSE 0

\* Probabilities are there when they have been used.
Prob(probs, i)         == IF i \in DOMAIN probs THEN probs[i] ELSE HalfOfBit
BoundOf(c, i)          == (c.range \div 2 ^ 11) * Prob(c.probs, i)
AdaptProb(probs, i, bit) ==
  LET t == Prob(probs, i) IN
  [j \in DOMAIN probs \cup {i} |-> IF j # i THEN probs[j] ELSE IF bit = 0 THEN t + (2 ^ 11 - t) \div 32 ELSE t - t \div 32]
-----------------------------------------------------------------------------
(* The encoder e: CBcj2Enc, with the data of a call in src, the room in each   *)
(* stream, and what was written to them.                                       *)
Streams4 == {"main", "call", "jump", "rc"}

Bcj2Enc_Init ==
  [state |-> "orig", mode |-> "continue", context |-> 0, flushRem |-> 5, flushing |-> FALSE, cache |-> 0,
   range |-> MaxRange, low |-> 0, cacheSize |-> 1, ip |-> 0, fileIp |-> 0, fileSize |-> -1, target |-> 0,
   temp |-> <<>>, probs |-> <<>>, src |-> <<>>, room |-> [s \in Streams4 |-> 0], out |-> [s \in Streams4 |-> <<>>]]

Write(e, s, v) == [e EXCEPT !.out[s] = Append(@, v), !.room[s] = @ - 1]

\* The digits that wait are written, as long as there is room.
RECURSIVE WriteDigits(_, _)
WriteDigits(e, carry) ==
  IF e.cacheSize = 0 THEN e
  ELSE IF e.room["rc"] = 0 THEN [e EXCEPT !.state = "rc"]
  ELSE WriteDigits([Write(e, "rc", (e.cache + carry) % Digit) EXCEPT !.cache = Digit - 1, !.cacheSize = @ - 1], carry)

\* Bcj2_RangeEnc_ShiftLow: state is rc when it could not.
Bcj2Shift(e) ==
  LET low == e.low % (MaxRange + 1)
      w   == WriteDigits(e, e.low \div (MaxRange + 1))
      Shifted(x) == [x EXCEPT !.cacheSize = @ + 1, !.low = (low % TopRange) * Digit]
  IN IF low >= (Digit - 1) * TopRange /\ e.low <= MaxRange THEN Shifted(e)
     ELSE IF w.cacheSize # 0 THEN w ELSE Shifted([w EXCEPT !.cache = low \div TopRange])

\* Whether the address in src, after the opcode b, is converted: it is near, and in the file.
\* An opcode of two bytes does not begin in the file before.
Converts(e, b) ==
  LET ip == e.ip - e.fileIp
      r  == AddressOf(e.src)
  IN /\ Len(e.src) >= 4
     /\ -RelatLimit <= r /\ r < RelatLimit
     /\ ip > (IF b \in {232, 233} THEN 0 ELSE 1)
     /\ e.fileSize # -1 => ip + 4 + r \in 0 .. e.fileSize - 1

\* The bit for the opcode b after prev.
EncodeBit(e, prev, b, bit) ==
  LET i == ProbOf(prev, b)
      bound == BoundOf(e, i)
  IN [e EXCEPT !.probs = AdaptProb(@, i, bit), !.range = IF bit = 0 THEN bound ELSE @ - bound, !.low = @ + bound * bit]

Target(e, s) == IF e.room[s] = 0 THEN [e EXCEPT !.state = s] ELSE Write(e, s, e.target)

\* An address is taken from src and goes to its stream.
EncodeAddress(e, b) ==
  LET s == StreamOf(b) IN
  Target([e EXCEPT !.ip = @ + 4, !.target = e.ip + 4 + AddressOf(e.src), !.context = e.src[4], !.src = SubSeq(@, 5, Len(@))], s)

\* Mutant: the byte before an opcode that has to wait is forgotten.
EncodeOpcode_Forgets(e, prev, b) ==
  IF Converts(e, b) THEN EncodeAddress(EncodeBit(e, prev, b, 1), b)
  ELSE IF Len(e.src) < 4 /\ e.mode = "continue"
       THEN [e EXCEPT !.state = "more", !.ip = @ - 1, !.out["main"] = Front(@), !.room["main"] = @ + 1,
              !.src = <<b>> \o @]
       ELSE EncodeBit(e, prev, b, 0)

\* The opcode b, that was written.
EncodeOpcode(e, prev, b) ==
  IF Converts(e, b) THEN EncodeAddress(EncodeBit(e, prev, b, 1), b)
  ELSE IF Len(e.src) < 4 /\ e.mode = "continue"
       THEN [e EXCEPT !.state = "more", !.ip = @ - 1, !.out["main"] = Front(@), !.room["main"] = @ + 1,
              !.src = <<b>> \o @, !.context = prev]
       ELSE EncodeBit(e, prev, b, 0)

RECURSIVE Bcj2Flush(_)
Bcj2Flush(e) ==
  IF e.flushRem = 0 THEN [e EXCEPT !.state = "finished"]
  ELSE LET s == Bcj2Shift(e) IN IF s.state = "rc" THEN s ELSE Bcj2Flush([s EXCEPT !.flushRem = @ - 1])

\* The loop, until a stream has no data ("orig", or "more" for less than an address) or no room.
RECURSIVE EncodeLoop(_), EncodeNext(_), EncodeOn(_)
EncodeOn(e) == IF e.state = "orig" THEN EncodeLoop(e) ELSE e

EncodeNext(e) ==
  LET b == Head(e.src)
      w == [Write(e, "main", b) EXCEPT !.src = Tail(@), !.ip = @ + 1, !.context = b]
  IN IF e.src = <<>> THEN IF e.mode = "stream" THEN Bcj2Flush([e EXCEPT !.flushing = TRUE]) ELSE e
     ELSE IF e.room["main"] = 0 THEN [e EXCEPT !.state = "main"]
     ELSE EncodeOn(IF IsOpcode(e.context, b) THEN EncodeOpcode(w, e.context, b) ELSE w)

Normalized(e) == IF e.state = "rc" THEN e ELSE EncodeNext([e EXCEPT !.range = @ * Digit])

EncodeLoop(e) == IF e.range < TopRange THEN Normalized(Bcj2Shift(e)) ELSE EncodeNext(e)

\* Bcj2Enc_Encode_2: an address may be left from the last call.
Bcj2Enc_Encode_2(e) ==
  LET NoMore(r) == IF r.state = "more" THEN [r EXCEPT !.state = "orig"] ELSE r
      start     == [e EXCEPT !.state = "orig"]
  IN NoMore(IF e.flushing THEN Bcj2Flush(start)
            ELSE EncodeOn(IF e.state \in {"call", "jump"} THEN Target(start, e.state) ELSE start))

\* What is left over goes to temp.
WithoutTemp(e) ==
  LET Kept(r) == IF r.state = "orig" THEN [r EXCEPT !.temp = r.src, !.src = <<>>] ELSE r
  IN Kept(Bcj2Enc_Encode_2(e))

\* Bytes of src are added to temp one by one, extra of them so far.
RECURSIVE WithTemp(_, _)
WithTemp(e, extra) ==
  LET Goes(t, k) ==
        IF t.state # "orig" THEN [t EXCEPT !.temp = SubSeq(@, 1, k), !.src = SubSeq(t.temp, k + 1, Len(t.temp)) \o @]
        ELSE IF t.src = <<>> THEN t
        ELSE IF k = 0 THEN WithoutTemp([t EXCEPT !.src = t.temp \o @, !.temp = <<>>])
        ELSE WithTemp([t EXCEPT !.temp = Append(@, Head(t.src)), !.src = Tail(@)], extra + 1)
      Encoded(r) ==
        Goes([r EXCEPT !.temp = r.src, !.src = e.src, !.mode = e.mode], Len(r.src) - Min({extra, Len(r.src)}))
  IN Encoded(Bcj2Enc_Encode_2([e EXCEPT !.src = e.temp, !.mode = IF e.src # <<>> THEN "continue" ELSE @]))

Bcj2Enc_Encode(e) == IF e.temp # <<>> THEN WithTemp(e, 0) ELSE WithoutTemp(e)
-----------------------------------------------------------------------------
(* The decoder d: CBcj2Dec, with the data of each stream that it has and room  *)
(* for what it writes; orig is what is left of an address that is written.     *)
Bcj2Dec_Init ==
  [state |-> "rc", ip |-> 0, prev |-> 0, orig |-> <<>>, range |-> 0, code |-> 0, probs |-> <<>>,
   buf |-> [s \in Streams4 |-> <<>>], room |-> 0, out |-> <<>>]

\* The first five digits: the first is 0, and they are not all 255 after it.
RECURSIVE FirstDigits(_)
FirstDigits(d) ==
  IF d.range = 5 THEN IF d.code = MaxRange THEN [d EXCEPT !.state = "error"] ELSE [d EXCEPT !.range = MaxRange]
  ELSE IF d.range = 1 /\ d.code # 0 THEN [d EXCEPT !.state = "error"]
  ELSE IF d.buf["rc"] = <<>> THEN [d EXCEPT !.state = "rc"]
  ELSE FirstDigits([d EXCEPT !.range = @ + 1, !.code = @ * Digit + Head(d.buf["rc"]), !.buf["rc"] = Tail(@)])

NeedsDigit(d) == d.range < TopRange
TakeDigit(d)  == [d EXCEPT !.range = @ * Digit, !.code = @ * Digit + Head(d.buf["rc"]), !.buf["rc"] = Tail(@)]

\* As much of an address is written as there is room for.
WriteOrig(d) ==
  LET n == Min({d.room, Len(d.orig)})
      r == [d EXCEPT !.out = @ \o SubSeq(d.orig, 1, n), !.room = @ - n, !.orig = SubSeq(@, n + 1, Len(@))]
  IN IF n < Len(d.orig) THEN [r EXCEPT !.state = "orig"] ELSE [r EXCEPT !.prev = d.orig[n]]

\* An address of stream s is taken.
TakeAddress(d, s) ==
  [d EXCEPT !.ip = @ + 4, !.orig = AddressBytes(Head(d.buf[s]) - (d.ip + 4)), !.buf[s] = Tail(@)]

WithDigit(d) == IF NeedsDigit(d) /\ d.buf["rc"] # <<>> THEN TakeDigit(d) ELSE d

\* The bit for the opcode b after prev.
DecodeBit(d, i, bound, bit) ==
  [d EXCEPT !.probs = AdaptProb(@, i, bit), !.range = IF bit = 0 THEN bound ELSE @ - bound, !.code = @ - bound * bit,
            !.state = IF bit = 0 THEN @ ELSE "go"]

\* The loop, until a stream has no data or there is no room.
RECURSIVE DecodeLoop(_), DecodeAddress(_, _), DecodeOn(_)
DecodeOn(d) == IF d.state = "go" THEN DecodeLoop(d) ELSE WithDigit(d)

DecodeAddress(d, s) ==
  DecodeOn(IF d.buf[s] = <<>> THEN [d EXCEPT !.state = s] ELSE WriteOrig(TakeAddress(d, s)))

BcjByte(d) ==
  LET b == Head(d.buf["main"])
      i == ProbOf(d.prev, b)
      w == [d EXCEPT !.out = Append(@, b), !.room = @ - 1, !.buf["main"] = Tail(@), !.ip = @ + 1, !.prev = b]
      Decided(x, bound) == IF x.code < bound THEN DecodeLoop(DecodeBit(x, i, bound, 0))
                           ELSE DecodeAddress(DecodeBit(x, i, bound, 1), StreamOf(b))
  IN IF NeedsDigit(d) THEN [d EXCEPT !.state = "rc"]
     ELSE IF d.buf["main"] = <<>> THEN [d EXCEPT !.state = "main"]
     ELSE IF d.room = 0 THEN [d EXCEPT !.state = "full"]
     ELSE IF IsOpcode(d.prev, b) THEN Decided(w, BoundOf(d, i)) ELSE DecodeLoop(w)

DecodeLoop(d) == BcjByte(WithDigit(d))

\* Bcj2Dec_Decode
Bcj2Dec_Decode(x) ==
  LET Written(d)   == IF d.orig = <<>> THEN DecodeLoop(d) ELSE d
      Start(d)     == Written(IF d.orig # <<>> THEN WriteOrig(d) ELSE d)
      Begun(d) == IF d.range <= 5 THEN d
                  ELSE IF d.state \notin {"call", "jump"} THEN Start(d)
                  ELSE IF d.buf[d.state] = <<>> THEN d ELSE Start(TakeAddress(d, d.state))
  IN Begun(IF x.range <= 5 THEN FirstDigits(x) ELSE x)

\* bcj2_decode: one call must use everything, and fill what is asked for.
Bcj2Result(d) ==
  IF d.state = "main" /\ d.code = 0 /\ d.room = 0 /\ \A s \in Streams4 : d.buf[s] = <<>> THEN d.out ELSE <<"error">>

bcj2_decode(streams, size) ==
  IF size = 0 THEN <<>> ELSE Bcj2Result(Bcj2Dec_Decode([Bcj2Dec_Init EXCEPT !.buf = streams, !.room = size]))
-----------------------------------------------------------------------------
(* A code is encoded, and what it became is decoded.                           *)

VARIABLES
  code,      \* the blocks of code, <<>> when there is nothing to do
  block,     \* the number of the block that is encoded
  todo,      \* what of it the encoder has not taken
  encoder, decoder,
  rest,      \* of each stream, what the decoder has not taken
  bcjPhase   \* "encode", "decode" or "over"

bcjVars == <<code, block, todo, encoder, decoder, rest, bcjPhase>>

NoCode ==
  /\ code = <<>> /\ block = 0 /\ todo = <<>> /\ encoder = Bcj2Enc_Init /\ decoder = Bcj2Dec_Init
  /\ rest = encoder.out /\ bcjPhase = "over"

\* The encoder at a block: its file may be known.
AtBlock(e, size) == [e EXCEPT !.fileIp = e.ip, !.fileSize = size]

SomeCode ==
  /\ code \in Codes /\ block = 1 /\ todo = code[1] /\ decoder = Bcj2Dec_Init /\ bcjPhase = "encode"
  /\ \E size \in {Len(todo), -1} : encoder = AtBlock(Bcj2Enc_Init, size)
  /\ rest = encoder.out

NextSize == IF encoder.fileSize = -1 THEN -1 ELSE Len(code[block + 1])
Idle(e)  == [e EXCEPT !.src = <<>>, !.room = Bcj2Enc_Init.room, !.mode = "continue"]

\* The encoder is at r, after the first k bytes of todo.
Bcj2Encoded(r, k, last) ==
  LET ends == last /\ r.state = "orig" IN
  /\ encoder' = IF ends THEN AtBlock(Idle(r), NextSize) ELSE Idle(r)
  /\ block' = IF ends THEN block + 1 ELSE block
  /\ todo' = IF ends THEN code[block + 1] ELSE r.src \o SubSeq(todo, k + 1, Len(todo))
  /\ bcjPhase' = IF r.state = "finished" THEN "decode" ELSE "encode"
  /\ rest' = IF r.state = "finished" THEN r.out ELSE rest

\* A call of the encoder with n bytes at most, room for m items in stream s and enough in the
\* others.  The last call for a block says that it ends, though perhaps not when its bytes are given.
Bcj2Encode ==
  /\ bcjPhase = "encode"
  /\ \E n, m \in Limits : \E s \in Streams4 : \E late \in BOOLEAN :
       LET k == Min({n, Len(todo)})
           last == k = Len(todo) /\ (todo # <<>> => ~late)
       IN Bcj2Encoded(Bcj2Enc_Encode([encoder EXCEPT !.src = SubSeq(todo, 1, k),
                        !.room = [t \in Streams4 |-> IF t = s THEN m ELSE 1000],
                        !.mode = IF ~last THEN "continue" ELSE IF block = Len(code) THEN "stream" ELSE "block"]),
                      k, last)
  /\ UNCHANGED <<code, decoder>>

\* The decoder is at d, with what was not given.
Bcj2Decoded(d, kept) ==
  /\ decoder' = [d EXCEPT !.buf = Bcj2Dec_Init.buf, !.room = 0]
  /\ rest' = [t \in Streams4 |-> d.buf[t] \o kept[t]]
  /\ bcjPhase' = IF d.state = "main" /\ rest'["main"] = <<>> /\ rest'["rc"] = <<>> THEN "over" ELSE "decode"

\* A call of the decoder with n items at most of stream s and all of the others, and room for m bytes.
Bcj2Decode ==
  /\ bcjPhase = "decode"
  /\ \E n, m \in Limits : \E s \in Streams4 :
       LET given == [t \in Streams4 |-> IF t = s THEN Min({n, Len(rest[t])}) ELSE Len(rest[t])]
       IN Bcj2Decoded(Bcj2Dec_Decode([decoder EXCEPT !.buf = [t \in Streams4 |-> SubSeq(rest[t], 1, given[t])],
                                                     !.room = m]),
                      [t \in Streams4 |-> SubSeq(rest[t], given[t] + 1, Len(rest[t]))])
  /\ UNCHANGED <<code, block, todo, encoder>>

Bcj2Next == Bcj2Encode \/ Bcj2Decode
-----------------------------------------------------------------------------
\* What a code becomes when each block is encoded in one call, from an encoder e that is in the
\* block k and has still to take bytes.
RECURSIVE EncodedAtOnce(_, _, _)
EncodedAtOnce(e, k, bytes) ==
  LET Then(r) ==
        IF r.state # "orig" THEN r
        ELSE EncodedAtOnce(AtBlock(r, IF e.fileSize = -1 THEN -1 ELSE Len(code[k + 1])), k + 1, code[k + 1])
  IN Then(Bcj2Enc_Encode([e EXCEPT !.src = bytes, !.room = [t \in Streams4 |-> 1000],
                                   !.mode = IF k = Len(code) THEN "stream" ELSE "block"]))

Plain   == FlattenSeq(code)
Shorter == {[encoder.out EXCEPT ![s] = Front(@)] : s \in {t \in Streams4 : encoder.out[t] # <<>>}}
Longer  == {[encoder.out EXCEPT ![s] = Append(@, 0)] : s \in Streams4}

\* However the calls of the encoder and of the decoder were cut, by the data or by the room, what
\* is left gives in one call the streams of an encoder that was never stopped, and all the code;
\* and bcj2_decode takes these streams, and none with an item more or less (Bcj2Enc_Encode,
\* Bcj2Dec_Decode, pylzma_bcj2_decode).
Bcj2Inverts ==
  /\ bcjPhase = "encode" =>
       LET whole == EncodedAtOnce(AtBlock(Bcj2Enc_Init, IF encoder.fileSize = -1 THEN -1 ELSE Len(code[1])), 1, code[1])
           now   == EncodedAtOnce(encoder, block, todo)
       IN now.state = "finished" /\ now.out = whole.out
  /\ bcjPhase = "decode" =>
       LET d == Bcj2Dec_Decode([decoder EXCEPT !.buf = rest, !.room = 1000])
       IN d.state = "main" /\ d.code = 0 /\ d.out = Plain
  /\ bcjPhase = "decode" /\ decoder = Bcj2Dec_Init =>
       /\ bcj2_decode(encoder.out, Len(Plain)) = Plain
       /\ \A other \in Shorter \cup Longer : bcj2_decode(other, Len(Plain)) # Plain
       /\ \A size \in {Len(Plain) - 1, Len(Plain) + 1} : size > 0 => bcj2_decode(encoder.out, size) = <<"error">>
  /\ bcjPhase = "over" => decoder.out = Plain
=============================================================================
