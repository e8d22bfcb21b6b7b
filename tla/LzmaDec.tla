------------------------------- MODULE LzmaDec -------------------------------
(***************************************************************************)
(* The LZMA decoder of LzmaDec.c as decompressobj and decompress() drive   *)
(* it: input that arrives in pieces, output that is taken in pieces, a     *)
(* circular dictionary.                                                    *)
(*                                                                         *)
(* A compressed stream is a sequence of symbols.  What the range coder     *)
(* computes is abstracted to which symbol comes next and how many input    *)
(* bytes it takes: range and code are `sym', the number of decoded         *)
(* symbols, and a byte of the input is its position in the stream.  A      *)
(* symbol decoded from other bytes than its own sets `garbled'.  One       *)
(* symbol, one round of DecodeToDic, one round of DecodeToBuf are steps.   *)
(***************************************************************************)
EXTENDS DecoderCalls

CONSTANTS
  Streams,     \* [syms, lead, zeros]: the symbols; is the first byte 0; the
               \* numbers of symbols after which code is 0
  BufSizes,    \* dicBufSize: LzmaDec_Allocate rounds dicSize up
  W,           \* processedPos is an unsigned number below W (2^32)
  Required     \* LZMA_REQUIRED_INPUT_MAX

kMatchSpecLenStart      == 274
kMatchSpecLen_ErrorFail == 511
kMatchSpecLen_ErrorData == 512

\* What the bits of a symbol can stand for: a length from the two length coders, one
\* of the four last distances, a repeated match of one byte only with the last one.
IsSymbol(s) ==
  /\ s.bytes \in 0 .. Required /\ s.late \in {0, 1} /\ s.late <= s.bytes
  /\ \/ s.kind = "lit" /\ s.value \in Nat
     \/ s.kind = "match" /\ s.dist \in Nat \ {0} /\ s.len \in 2 .. kMatchSpecLenStart - 1
     \/ s.kind = "rep" /\ s.index \in 1 .. 4 /\ s.len \in 1 .. kMatchSpecLenStart - 1
                      /\ (s.len = 1 => s.index = 1)
     \/ s.kind = "end"

ASSUME LzmaDecAssumption ==
  /\ BufSizes \subseteq {n \in Nat : n >= DicSize}
  /\ W \in Nat /\ W > DicSize
  /\ Required \in Nat /\ Required >= RcInit
  /\ \A s \in Streams :
       /\ s.lead \in BOOLEAN /\ Len(s.syms) \in Nat
       /\ s.syms = [k \in 1 .. Len(s.syms) |-> s.syms[k]]
       /\ \A k \in 1 .. Len(s.syms) : IsSymbol(s.syms[k])

VARIABLES
  stream,   \* the compressed stream of this behaviour
  d,        \* CLzmaDec; `total' counts the bytes that it wrote
  pc,       \* where the running call is
  call,     \* arguments and locals of DecodeToBuf and DecodeToDic
  real,     \* locals of LZMA_DECODE_REAL
  fed,      \* bytes of the stream that the decoder said it consumed
  out,      \* bytes that the caller got
  last      \* what the last call returned

lzmaDecVars == <<stream, d, pc, call, real, fed, out, last>>

-----------------------------------------------------------------------------
(* What the stream stands for: the bytes that any decoder must produce.    *)

\* The byte that lies dist before the next one is repeated.
Longer(o, dist) == Append(o, o[Len(o) + 1 - dist])
Copied(o, dist, len) ==
  LET after[k \in 0 .. len] == IF k = 0 THEN o ELSE Longer(after[k - 1], dist) IN after[len]

\* The last four distances after a new one, and after the i-th of them is used again.
Newer(reps, dist) == <<dist>> \o SubSeq(reps, 1, 3)
Renewed(reps, i)  == <<reps[i]>> \o RemoveAt(reps, i)

RefStart == [out |-> <<>>, reps |-> <<1, 1, 1, 1>>, ended |-> FALSE, bad |-> FALSE]
RefStep(r, s) ==
  IF r.bad \/ r.ended THEN r
  ELSE CASE s.kind = "lit"   -> [r EXCEPT !.out = Append(@, s.value)]
         [] s.kind = "end"   -> [r EXCEPT !.ended = TRUE]
         [] s.kind = "match" -> IF s.dist > Smaller(Len(r.out), DicSize) THEN [r EXCEPT !.bad = TRUE]
                                ELSE [r EXCEPT !.out = Copied(@, s.dist, s.len), !.reps = Newer(@, s.dist)]
         [] s.kind = "rep"   -> IF r.out = <<>> THEN [r EXCEPT !.bad = TRUE]
                                ELSE [r EXCEPT !.out = Copied(@, r.reps[s.index], s.len),
                                               !.reps = Renewed(@, s.index)]

\* After the first n symbols.
RefOf(syms, n) ==
  LET after[k \in 0 .. n] == IF k = 0 THEN RefStart ELSE RefStep(after[k - 1], syms[k]) IN after[n]
Ref(n)  == RefOf(stream.syms, n)
NumSyms == Len(stream.syms)
Whole   == Ref(NumSyms)

\* The first byte after the first n symbols; the bytes of the whole stream.
StartOf(syms, n) ==
  LET after[k \in 0 .. n] == IF k = 0 THEN RcInit ELSE after[k - 1] + syms[k].bytes IN after[n]
Start(n) == StartOf(stream.syms, n)
NumBytes == Start(NumSyms)
-----------------------------------------------------------------------------
(* The decoder when it is fresh, and the calls.                            *)

\* LzmaDec_Init; the contents of dic are whatever the memory holds.
Fresh(size) ==
  [remainLen |-> kMatchSpecLenStart + 2, tempBuf |-> <<>>, processedPos |-> 0, checkDicSize |-> 0,
   dicPos |-> 0, dicBufSize |-> size, dic |-> [k \in 0 .. size - 1 |-> 0],
   sym |-> 0, reps |-> <<1, 1, 1, 1>>, afterMatch |-> FALSE, total |-> 0]

NoReal == [src |-> "in", off |-> 0, limit |-> 0, bufLimit |-> 0, dummy |-> -1, len |-> 0,
           garbled |-> FALSE]

LzmaDecStart ==
  /\ \E size \in BufSizes : d = Fresh(size)
  /\ pc = "idle" /\ call = NoCall /\ real = NoReal /\ fed = 0 /\ out = <<>>
  /\ last = [res |-> "ok", status |-> "none", given |-> 0, taken |-> 0, left |-> 0]
LzmaDecInit == stream \in Streams /\ LzmaDecStart

Offered(m) == [k \in 1 .. m |-> fed + k]

\* LzmaDec_DecodeToBuf is called with m bytes of input and room for n.
DecodeToBuf(m, n, finish) ==
  /\ pc = "idle" /\ m <= NumBytes - fed
  /\ pc' = "buf"
  /\ call' = [NoCall EXCEPT !.op = "buf", !.in = Offered(m), !.given = m, !.outSize = n,
                            !.finish = finish]
  /\ UNCHANGED <<stream, d, real, fed, out, last>>

\* LzmaDecode: dest is the dictionary, one call for all of it, on a decoder
\* of its own.
LzmaDecode(m, n, finish) ==
  /\ pc = "idle" /\ fed = 0 /\ d = Fresh(d.dicBufSize) /\ RcInit <= m /\ m <= NumBytes /\ n > 0
  /\ pc' = "dic" /\ d' = Fresh(n)
  /\ call' = [NoCall EXCEPT !.op = "one", !.in = Offered(m), !.given = m, !.outSize = n,
                            !.dicLimit = n, !.curFinish = finish]
  /\ UNCHANGED <<stream, real, fed, out, last>>

\* Mutant: dicPos stays behind the last byte of the buffer.
BufRound_KeepsPos ==
  /\ pc = "buf"
  /\ LET fits == call.outSize <= d.dicBufSize - d.dicPos
     IN call' = [call EXCEPT !.dicLimit = IF fits THEN d.dicPos + call.outSize ELSE d.dicBufSize,
                             !.curFinish = IF fits THEN call.finish ELSE "any",
                             !.from = d.dicPos]
  /\ pc' = "dic"
  /\ UNCHANGED <<stream, d, real, fed, out, last>>

\* A round of DecodeToBuf: as much as fits before the end of the buffer.
BufRound ==
  /\ pc = "buf"
  /\ LET pos  == IF d.dicPos = d.dicBufSize THEN 0 ELSE d.dicPos
         fits == call.outSize <= d.dicBufSize - pos
     IN /\ d' = [d EXCEPT !.dicPos = pos]
        /\ call' = [call EXCEPT !.dicLimit = IF fits THEN pos + call.outSize ELSE d.dicBufSize,
                                !.curFinish = IF fits THEN call.finish ELSE "any",
                                !.from = pos]
  /\ pc' = "dic"
  /\ UNCHANGED <<stream, real, fed, out, last>>

\* DecodeToDic returns: the caller's loop copies what was produced.
Return(res, status, in, dec) ==
  /\ pc' = "ret" /\ d' = dec
  /\ call' = [call EXCEPT !.in = in, !.res = res, !.status = status]
  /\ UNCHANGED <<stream, real, fed, out, last>>

\* What DecodeToBuf does with it: another round unless there is an error,
\* nothing new or no room.
DicReturned ==
  /\ pc = "ret"
  /\ LET n    == d.dicPos - call.from
         left == call.outSize - n
         more == call.op = "buf" /\ call.res = "ok" /\ n > 0 /\ left > 0
         res  == IF call.op = "one" /\ call.res = "ok" /\ call.status = "needs_input"
                 THEN "input_eof" ELSE call.res
     IN /\ out' = out \o [k \in 1 .. n |-> d.dic[call.from + k - 1]]
        /\ call' = IF more THEN [call EXCEPT !.outSize = left] ELSE NoCall
        /\ pc' = IF more THEN "buf" ELSE IF call.op = "one" THEN "over" ELSE "idle"
        /\ IF more THEN UNCHANGED <<fed, last>>
           ELSE /\ fed' = fed + call.given - Len(call.in)
                /\ last' = [res |-> res, status |-> call.status, given |-> call.given,
                            taken |-> call.given - Len(call.in),
                            left |-> left]
  /\ UNCHANGED <<stream, d, real>>
-----------------------------------------------------------------------------
(* LzmaDec_DecodeToDic                                                     *)

\* A first symbol that needs earlier output: code >= kBadRepCode.
BadFirst == d.checkDicSize = 0 /\ d.processedPos = 0 /\ NumSyms > 0 /\ stream.syms[1].kind = "rep"

\* The decoder is in an error state, or the range coder needs its first bytes.
StartRc ==
  /\ pc = "dic" /\ d.remainLen > kMatchSpecLenStart
  /\ LET n    == Smaller(RcInit - Len(d.tempBuf), Len(call.in))
         temp == d.tempBuf \o SubSeq(call.in, 1, n)
         rest == SubSeq(call.in, n + 1, Len(call.in))
         got  == [d EXCEPT !.tempBuf = temp]
     IN IF d.remainLen > kMatchSpecLenStart + 2
        THEN Return(IF d.remainLen = kMatchSpecLen_ErrorFail THEN "fail" ELSE "data",
                    "none", call.in, d)
        ELSE IF temp # <<>> /\ ~stream.lead THEN Return("data", "none", rest, got)
        ELSE IF Len(temp) < RcInit THEN Return("ok", "needs_input", rest, got)
        ELSE IF BadFirst THEN Return("data", "none", rest, got)
        ELSE /\ d' = [got EXCEPT !.tempBuf = <<>>, !.remainLen = 0]
             /\ call' = [call EXCEPT !.in = rest] /\ pc' = "loop"
             /\ UNCHANGED <<stream, real, fed, out, last>>

NoStart ==
  /\ pc = "dic" /\ d.remainLen <= kMatchSpecLenStart /\ pc' = "loop"
  /\ UNCHANGED <<stream, d, call, real, fed, out, last>>

CodeIsZero == d.sym \in stream.zeros

EndMark ==
  /\ pc = "loop" /\ d.remainLen = kMatchSpecLenStart
  /\ IF CodeIsZero THEN Return("ok", "finished_with_mark", call.in, d)
     ELSE Return("data", "none", call.in, d)

\* The place in dic that lies dist bytes before pos.
Back(pos, dist) == pos - dist + (IF pos < dist THEN d.dicBufSize ELSE 0)

\* One byte is copied to pos; n bytes are, one after the other.
CopyByte(dic, pos, dist) == [dic EXCEPT ![pos] = dic[Back(pos, dist)]]
CopyBytes(dic, pos, dist, n) ==
  LET after[k \in 0 .. n] == IF k = 0 THEN dic ELSE CopyByte(after[k - 1], pos + k - 1, dist) IN after[n]

CopyMatch(dec, dist, n) ==
  [dec EXCEPT !.dic = CopyBytes(@, dec.dicPos, dist, n), !.dicPos = @ + n,
              !.processedPos = (@ + n) % W, !.total = @ + n]

WriteRem(limit) ==
  LET n == Smaller(limit - d.dicPos, d.remainLen)
  IN IF n = 0 THEN d
     ELSE [CopyMatch(d, d.reps[1], n) EXCEPT
             !.remainLen = @ - n,
             !.checkDicSize = IF d.checkDicSize = 0 /\ DicSize - d.processedPos <= n THEN DicSize ELSE @]

\* A round of DecodeToDic has copied the rest of the last match first.
Rest  == WriteRem(call.dicLimit)
Full  == Rest.dicPos >= call.dicLimit
Round == pc = "loop" /\ d.remainLen # kMatchSpecLenStart
Stop  == Full /\ (Rest.remainLen # 0 \/ CodeIsZero \/ call.curFinish = "any")

LimitReached ==
  /\ Round /\ Stop
  /\ CASE Rest.remainLen = 0 /\ CodeIsZero -> Return("ok", "maybe_finished", call.in, Rest)
       [] ~(Rest.remainLen = 0 /\ CodeIsZero) /\ call.curFinish = "any"
                                           -> Return("ok", "not_finished", call.in, Rest)
       [] OTHER                            -> Return("data", "not_finished", call.in, Rest)

\* LzmaDec_TryDummy: which symbol comes, if n bytes are enough for it.
TryDummy(n) ==
  IF d.sym = NumSyms \/ stream.syms[d.sym + 1].bytes > n THEN "eof" ELSE stream.syms[d.sym + 1].kind

DummyBytes == stream.syms[d.sym + 1].bytes

\* LzmaDec_DecodeReal2 stops where the check of the distances changes.
RealLimit(dec) ==
  IF dec.checkDicSize = 0 THEN Smaller(call.dicLimit, dec.dicPos + DicSize - dec.processedPos)
  ELSE call.dicLimit

StartReal(src, bufLimit, dummy) ==
  /\ pc' = "real" /\ d' = Rest
  /\ real' = [NoReal EXCEPT !.src = src, !.limit = RealLimit(Rest), !.bufLimit = bufLimit, !.dummy = dummy]
  /\ UNCHANGED <<stream, call, fed, out, last>>

\* The internal error at the end of DecodeToDic.
FailNow == Return("fail", "none", call.in, [Rest EXCEPT !.remainLen = kMatchSpecLen_ErrorFail])

\* The symbol comes from the caller's input.
FromInput ==
  /\ Round /\ ~Stop /\ d.tempBuf = <<>>
  /\ LET n     == Len(call.in)
         dummy == TryDummy(n)
     IN IF n >= Required /\ ~Full THEN StartReal("in", n - Required, -1)
        ELSE IF dummy = "eof"
        THEN IF n >= Required THEN FailNow
             ELSE Return("ok", "needs_input", <<>>, [Rest EXCEPT !.tempBuf = call.in])
        ELSE IF DummyBytes > Required THEN FailNow
        ELSE IF Full /\ dummy \notin {"match", "end"}
        THEN Return("data", "not_finished", SubSeq(call.in, DummyBytes + 1, n),
                    [Rest EXCEPT !.tempBuf = SubSeq(call.in, 1, DummyBytes)])
        ELSE StartReal("in", 0, DummyBytes)

\* Bytes were kept because they were not enough: they come first.
Ahead  == Smaller(Required - Len(d.tempBuf), Len(call.in))
Joined == d.tempBuf \o SubSeq(call.in, 1, Ahead)

FromTemp ==
  /\ Round /\ ~Stop /\ d.tempBuf # <<>>
  /\ LET rem   == Len(Joined)
         dummy == TryDummy(rem)
         kept  == Len(d.tempBuf)
     IN IF rem >= Required /\ ~Full THEN StartReal("temp", 0, -1)
        ELSE IF dummy = "eof"
        THEN IF rem >= Required THEN FailNow
             ELSE Return("ok", "needs_input", SubSeq(call.in, Ahead + 1, Len(call.in)),
                         [Rest EXCEPT !.tempBuf = Joined])
        ELSE IF DummyBytes < kept THEN FailNow
        ELSE IF Full /\ dummy \notin {"match", "end"}
        THEN Return("data", "not_finished", SubSeq(call.in, DummyBytes - kept + 1, Len(call.in)),
                    [Rest EXCEPT !.tempBuf = SubSeq(Joined, 1, DummyBytes)])
        ELSE StartReal("temp", 0, DummyBytes)
-----------------------------------------------------------------------------
(* LZMA_DECODE_REAL, one symbol at a time.                                 *)

Symbol == stream.syms[d.sym + 1]
Buffer == IF real.src = "in" THEN call.in ELSE Joined

\* The range coder reads the bytes of the symbol, and no byte that is not there.
RightBytes ==
  \A k \in 1 .. Symbol.bytes :
     real.off + k <= Len(Buffer) /\ Buffer[real.off + k] = Start(d.sym) + k

\* The end of an iteration.  The last byte of some symbols is read by the next
\* normalisation of the range coder, after the check of bufLimit.
Decoded(dec, len, break) ==
  /\ pc = "real"
  /\ d' = [dec EXCEPT !.sym = @ + 1]
  /\ real' = [real EXCEPT !.off = @ + Symbol.bytes, !.len = len, !.garbled = @ \/ ~RightBytes]
  /\ pc' = IF ~break /\ dec.dicPos < real.limit
              /\ real.off + Symbol.bytes - Symbol.late < real.bufLimit THEN "real" ELSE "after"
  /\ UNCHANGED <<stream, call, fed, out, last>>

\* A literal decodes to its byte if the bytes that select its probabilities
\* are those that the encoder saw: the previous one, and after a match the
\* one at distance rep0.
LiteralContext ==
  /\ (d.processedPos # 0 \/ d.checkDicSize # 0) =>
        d.dic[(IF d.dicPos = 0 THEN d.dicBufSize ELSE d.dicPos) - 1] = Last(Ref(d.sym).out)
  /\ d.processedPos = 0 /\ d.checkDicSize = 0 => Ref(d.sym).out = <<>>
  /\ d.afterMatch => LET o == Ref(d.sym).out
                     IN d.dic[Back(d.dicPos, d.reps[1])] = o[Len(o) + 1 - Ref(d.sym).reps[1]]

Literal ==
  /\ pc = "real" /\ d.sym < NumSyms /\ Symbol.kind = "lit"
  /\ Decoded([d EXCEPT !.dic[d.dicPos] = IF LiteralContext THEN Symbol.value ELSE 0,
                       !.dicPos = @ + 1, !.processedPos = (@ + 1) % W, !.total = @ + 1,
                       !.afterMatch = FALSE], 0, FALSE)

\* Mutant: what does not fit before the limit is forgotten.
CopyUpToLimit_DropsRest(dec, len) ==
  LET n == Smaller(real.limit - dec.dicPos, len)
  IN Decoded(CopyMatch(dec, dec.reps[1], n), 0, n = 0)

\* The copy of a match up to the limit; the rest is remainLen.
CopyUpToLimit(dec, len) ==
  LET n == Smaller(real.limit - dec.dicPos, len)
  IN Decoded(CopyMatch(dec, dec.reps[1], n), len - n, n = 0)

Match ==
  /\ pc = "real" /\ d.sym < NumSyms /\ Symbol.kind = "match"
  /\ LET dec == [d EXCEPT !.reps = Newer(@, Symbol.dist), !.afterMatch = TRUE]
     IN IF Symbol.dist > (IF d.checkDicSize = 0 THEN d.processedPos ELSE d.checkDicSize)
        THEN Decoded(dec, kMatchSpecLen_ErrorData + Symbol.len, TRUE)
        ELSE CopyUpToLimit(dec, Symbol.len)

Rep ==
  /\ pc = "real" /\ d.sym < NumSyms /\ Symbol.kind = "rep" /\ Symbol.len > 1
  /\ CopyUpToLimit([d EXCEPT !.reps = Renewed(@, Symbol.index), !.afterMatch = TRUE], Symbol.len)

\* IsRep0Long is 0: one byte, and no check that there is room.
ShortRep ==
  /\ pc = "real" /\ d.sym < NumSyms /\ Symbol.kind = "rep" /\ Symbol.len = 1
  /\ Decoded(CopyMatch([d EXCEPT !.afterMatch = TRUE], d.reps[1], 1), 0, FALSE)

EndMarker ==
  /\ pc = "real" /\ d.sym < NumSyms /\ Symbol.kind = "end"
  /\ Decoded(d, kMatchSpecLenStart, TRUE)

\* Back in DecodeToDic: what was read is no longer input.
RealReturned ==
  /\ pc = "after"
  /\ LET kept     == IF real.src = "temp" THEN Len(d.tempBuf) ELSE 0
         full     == d.checkDicSize = 0 /\ d.processedPos >= DicSize
         dec      == [d EXCEPT !.remainLen = real.len, !.checkDicSize = IF full THEN DicSize ELSE @]
         wrong    == IF real.dummy >= 0 THEN real.dummy # real.off
                     ELSE IF real.src = "in" THEN real.off > Len(call.in)
                     ELSE real.off > Required \/ real.off < kept
         rest     == SubSeq(call.in, real.off - kept + 1, Len(call.in))
     IN IF wrong THEN Return("fail", "none", call.in, [dec EXCEPT !.remainLen = kMatchSpecLen_ErrorFail])
        ELSE IF real.len >= kMatchSpecLen_ErrorData
        THEN Return("data", "none", rest, [dec EXCEPT !.tempBuf = <<>>, !.remainLen = kMatchSpecLen_ErrorData])
        ELSE /\ d' = [dec EXCEPT !.tempBuf = <<>>] /\ call' = [call EXCEPT !.in = rest]
             /\ pc' = "loop" /\ UNCHANGED <<stream, real, fed, out, last>>
-----------------------------------------------------------------------------
LzmaDecStep ==
  \/ BufRound \/ DicReturned \/ StartRc \/ NoStart \/ EndMark \/ LimitReached \/ FromInput \/ FromTemp
  \/ Literal \/ Match \/ Rep \/ ShortRep \/ EndMarker \/ RealReturned

\* LzmaDecode frees its decoder.
Done == pc = "over" /\ UNCHANGED lzmaDecVars

LzmaDecNext ==
  \/ \E m \in InSizes, n \in OutSizes, finish \in {"any", "end"} :
        DecodeToBuf(m, n, finish) \/ LzmaDecode(m, n, finish)
  \/ LzmaDecStep \/ Done

LzmaDecSpec == LzmaDecInit /\ [][LzmaDecNext]_lzmaDecVars

\* A caller that goes on offering input, while there is some, and room.
DrivenNext ==
  \/ /\ Len(out) < Len(Whole.out)
     /\ \E m \in InSizes, n \in OutSizes \ {0} :
          (m = 0 => fed = NumBytes) /\ DecodeToBuf(m, n, "any")
  \/ LzmaDecStep
DrivenSpec == LzmaDecInit /\ [][DrivenNext]_lzmaDecVars /\ WF_lzmaDecVars(DrivenNext)
-----------------------------------------------------------------------------
(* Properties                                                              *)

\* Type correctness of the decoder (CLzmaDec, LzmaDec.h).
LzmaDecTypeOK ==
  /\ stream \in Streams
  /\ pc \in {"idle", "buf", "dic", "loop", "real", "after", "ret", "over"}
  /\ d.remainLen \in 0 .. kMatchSpecLen_ErrorData /\ Len(d.tempBuf) <= Required
  /\ d.processedPos \in 0 .. W - 1 /\ d.checkDicSize \in {0, DicSize}
  /\ d.dicPos \in 0 .. d.dicBufSize /\ DOMAIN d.dic = 0 .. d.dicBufSize - 1
  /\ \A k \in 1 .. 4 : d.reps[k] \in Nat \ {0}
  /\ d.sym \in 0 .. NumSyms /\ fed \in 0 .. NumBytes

AtRest  == pc \in {"idle", "over"}
Pending == IF d.remainLen < kMatchSpecLenStart THEN d.remainLen ELSE 0
Started == d.remainLen \notin {kMatchSpecLenStart + 1, kMatchSpecLenStart + 2}

\* However the input and the room for output are cut into calls, and wherever
\* the dictionary wraps, the bytes handed out are those the stream stands for,
\* and what is missing of the decoded symbols is what remainLen says.
OutputIsReference ==
  AtRest => LET whole == Ref(d.sym).out
            IN /\ out = SubSeq(whole, 1, Len(out))
               /\ Len(whole) = Len(out) + Pending

\* Every byte that the decoder said it consumed belongs to a decoded symbol or
\* waits in tempBuf: none is lost between two calls, none counted twice
\* (*srcLen of DecodeToDic).
InputAccounted ==
  AtRest => fed = (IF Started THEN Start(d.sym) ELSE 0) + Len(d.tempBuf)

\* The range coder is fed the bytes of the stream in order, across tempBuf and
\* calls, and reads no byte behind the input (comment of LZMA_DECODE_REAL).
RangeCoderInStep == ~real.garbled

\* The states of checkDicSize that the comment above LzmaDec_DecodeReal2 names,
\* although processedPos wraps.
CheckDicSizeInStep ==
  pc # "after" => IF d.total < DicSize THEN d.checkDicSize = 0 /\ d.processedPos = d.total
                  ELSE d.checkDicSize = DicSize /\ d.processedPos = d.total % W

\* A stream is refused where a distance reaches behind the output or behind the
\* dictionary, however the calls were cut, and nowhere else; the other reasons
\* for an error are its first byte, its first symbol, code after the end mark,
\* and the caller's wish that it ends here.
RefusedWhereBad ==
  AtRest => /\ d.remainLen = kMatchSpecLen_ErrorData <=> Ref(d.sym).bad
            /\ last.res = "data" => \/ Ref(d.sym).bad \/ ~stream.lead
                                    \/ ~Started /\ BadFirst
                                    \/ Ref(d.sym).ended /\ ~CodeIsZero
                                    \/ last.status = "not_finished"

\* The internal consistency checks that end in SZ_ERROR_FAIL never do.
NeverFails == last.res # "fail" /\ d.remainLen # kMatchSpecLen_ErrorFail

\* What a status tells the caller: more input is asked for only when all that
\* was offered is taken, "not finished" and "maybe finished" only when there is
\* no room left, and after the end mark everything was handed out and no byte
\* behind it was taken.
StatusIsTrue ==
  AtRest => /\ last.status = "needs_input" => last.taken = last.given
            /\ last.res = "ok" /\ last.status \in {"not_finished", "maybe_finished"} => last.left = 0
            /\ last.status = "finished_with_mark" =>
                 Ref(d.sym).ended /\ out = Whole.out /\ fed = Start(d.sym)

\* A caller that goes on offering input and room gets the whole output, or the
\* error of a stream that is bad.
EverythingDecoded ==
  <>(out = Whole.out \/ (last.res = "data" /\ (Whole.bad \/ ~stream.lead)))

\* Every byte of input is used once, in order and never beyond the input; the
\* checks of the decoder's own consistency never fail.
LzmaInputUsedOnce == InputAccounted /\ RangeCoderInStep /\ CheckDicSizeInStep /\ NeverFails

\* LzmaDec_DecodeToDic and _DecodeToBuf give the output that the stream stands
\* for, refuse it where it is bad, tell the caller the truth, and use each byte once.
LzmaDecodes ==
  LzmaDecTypeOK /\ OutputIsReference /\ RefusedWhereBad /\ StatusIsTrue /\ LzmaInputUsedOnce
=============================================================================
