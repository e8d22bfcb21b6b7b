---------------------------- MODULE LzmaDecProofs ----------------------------
(***************************************************************************)
(* The LZMA decoder for every stream, all sizes of the dictionary and its  *)
(* buffer, and every cut of input and output into calls.                   *)
(***************************************************************************)
EXTENDS LzmaDec, SequenceTheorems, WellFoundedInduction, TLAPS

-----------------------------------------------------------------------------
(* The inductive invariant                                                 *)

\* The values of status and of a result.
Statuses == {"none", "needs_input", "not_finished", "maybe_finished", "finished_with_mark"}
Results  == {"ok", "data", "fail", "input_eof"}

\* The contents of a dictionary of any size.
AnyDic == UNION {[0 .. n - 1 -> Nat] : n \in Nat}

\* The types of CLzmaDec, of the arguments and locals, and of what a call returned.
Decoders ==
  [remainLen : Nat, tempBuf : Seq(Nat), processedPos : Nat, checkDicSize : Nat, dicPos : Nat, dicBufSize : Nat,
   dic : AnyDic, sym : Nat, reps : Seq(Nat), afterMatch : BOOLEAN, total : Nat]
CallTypes ==
  [op : {"none", "buf", "one"}, in : Seq(Nat), given : Nat, outSize : Nat, finish : {"any", "end"},
   dicLimit : Nat, curFinish : {"any", "end"}, from : Nat, res : Results, status : Statuses]
RealTypes ==
  [src : {"in", "temp"}, off : Nat, limit : Nat, bufLimit : Nat, dummy : Nat \cup {-1}, len : Nat, garbled : BOOLEAN]
LastTypes == [res : Results, status : Statuses, given : Nat, taken : Nat, left : Nat]

\* Types.
TypesInv ==
  /\ stream \in Streams /\ d \in Decoders /\ call \in CallTypes /\ real \in RealTypes /\ last \in LastTypes
  /\ pc \in {"idle", "buf", "dic", "loop", "real", "after", "ret", "over"}
  /\ fed \in Nat /\ out \in Seq(Nat)

\* Inside DecodeToDic and when it has returned.
InDic == pc \in {"dic", "loop", "real", "after", "ret"}
InReal  == pc \in {"real", "after"}

\* How much of the last match is still to be written, or what came instead.
Level   == IF InReal THEN real.len ELSE d.remainLen
Owed(n) == IF n < kMatchSpecLenStart THEN n ELSE 0

\* Where the byte is that was written k bytes ago.
Place(pos, k, size) == IF k <= pos THEN pos - k ELSE pos - k + size

\* The dictionary has its last bytes, and what is owed of a match repeats them.
Holds(dic, pos, size, total, whole) ==
  /\ dic \in [0 .. size - 1 -> Nat]
  /\ \A k \in 1 .. size : k <= total => dic[Place(pos, k, size)] = whole[total + 1 - k]
Repeats(dec, whole) ==
  dec.total < Len(whole) =>
    /\ dec.reps[1] \in 1 .. Smaller(dec.total, DicSize)
    /\ \A j \in dec.total + 1 .. Len(whole) : whole[j] = whole[j - dec.reps[1]]
Fits(dec) ==
  /\ dec.dicPos <= dec.dicBufSize
  /\ DicSize <= dec.dicBufSize \/ dec.total = dec.dicPos
Data(dec, whole, owed) ==
  /\ dec \in Decoders /\ whole \in Seq(Nat) /\ dec.total + owed = Len(whole)
  /\ Fits(dec) /\ Repeats(dec, whole)
  /\ Holds(dec.dic, dec.dicPos, dec.dicBufSize, dec.total, whole)

\* A decoder between two symbols: output, distances and number of symbols agree.
Core(b, owed) ==
  /\ b \in Decoders /\ b.sym <= NumSyms
  /\ Data(b, Ref(b.sym).out, owed)
  /\ ~Ref(b.sym).bad => b.reps = Ref(b.sym).reps
  /\ \A k \in 1 .. 4 : b.reps[k] \in Nat \ {0}
  /\ b.afterMatch => b.sym > 0
CoreInv == Core(d, Owed(Level))

\* A dictionary that is smaller than the stream's is that of LzmaDecode.
WideInv == DicSize <= d.dicBufSize \/ pc = "over" \/ (InDic /\ call.op = "one")

\* checkDicSize and processedPos follow total; at the end of LZMA_DECODE_REAL
\* checkDicSize may still have to be set.
Checks(b) ==
  /\ b.total < DicSize => b.checkDicSize = 0 /\ b.processedPos = b.total
  /\ b.total >= DicSize => b.checkDicSize = DicSize /\ b.processedPos = b.total % W
LateChecks(b) == b.total = DicSize /\ b.checkDicSize = 0 /\ b.processedPos = b.total % W
CheckInv == Checks(d) \/ (pc = "after" /\ LateChecks(d))

\* The caller has what was written before this round, and it is the reference output.
OutInv ==
  /\ d.total = Len(out) + (IF InDic THEN d.dicPos - call.from ELSE 0)
  /\ InDic => call.from <= d.dicPos
  /\ \A k \in 1 .. Len(out) : out[k] = Ref(d.sym).out[k]

\* The range coder still needs its first bytes.
NotStarted == d.remainLen = kMatchSpecLenStart + 2

\* What remainLen says of the symbols so far.
LevelInv ==
  /\ d.remainLen \in 0 .. kMatchSpecLenStart \cup {kMatchSpecLenStart + 2, kMatchSpecLen_ErrorData}
  /\ InReal => d.remainLen = 0
  /\ pc = "real" => real.len = 0
  /\ pc = "after" => real.len <= kMatchSpecLenStart \/ real.len >= kMatchSpecLen_ErrorData
  /\ pc = "loop" => d.remainLen <= kMatchSpecLenStart
  /\ Ref(d.sym).bad <=> Level >= kMatchSpecLen_ErrorData
  /\ Ref(d.sym).ended <=> Level = kMatchSpecLenStart
  /\ NotStarted => d.sym = 0 /\ d.total = 0 /\ d.checkDicSize = 0 /\ d.processedPos = 0
  /\ ~NotStarted /\ d.sym = 0 /\ NumSyms > 0 => stream.syms[1].kind # "rep"

\* The place in the stream of the next byte of in.
Position == fed + call.given - Len(call.in)

\* Bytes of the stream from one place on.
Consecutive(s, from) == \A k \in 1 .. Len(s) : s[k] = from + k

\* The bytes that wait and those of the call lie behind each other in the stream,
\* at the first byte that no symbol took.
InputInv ==
  /\ Len(call.in) <= call.given /\ fed + call.given <= NumBytes
  /\ Len(d.tempBuf) <= Position /\ Len(d.tempBuf) <= Required
  /\ Consecutive(call.in, Position)
  /\ Consecutive(d.tempBuf, Position - Len(d.tempBuf))
  /\ NotStarted => Position = Len(d.tempBuf) /\ Len(d.tempBuf) <= RcInit
  /\ ~NotStarted => Position - Len(d.tempBuf) + (IF InReal THEN real.off ELSE 0) = Start(d.sym)
  /\ ~NotStarted /\ ~InReal /\ d.tempBuf # <<>> =>
       d.sym < NumSyms /\ Len(d.tempBuf) <= stream.syms[d.sym + 1].bytes /\ d.remainLen < kMatchSpecLenStart

\* LZMA_DECODE_REAL has room for a symbol, and its bytes.
LoopInv ==
  /\ ~real.garbled
  /\ InReal /\ real.src = "in" => d.tempBuf = <<>>
  /\ pc = "real" =>
       /\ d.dicPos <= real.limit /\ real.limit <= call.dicLimit
       /\ d.dicPos = real.limit => d.sym < NumSyms /\ Symbol.kind \in {"match", "end"}
       /\ d.checkDicSize = 0 => d.total < DicSize /\ real.limit <= d.dicPos + (DicSize - d.total)
       /\ real.dummy >= 0 => /\ real.off = 0 /\ real.bufLimit = 0 /\ d.sym < NumSyms
                             /\ real.dummy = Symbol.bytes /\ real.dummy <= Len(Buffer)
       /\ real.dummy = -1 /\ real.src = "in" => real.bufLimit = Len(call.in) - Required /\ real.off <= real.bufLimit
       /\ real.dummy = -1 /\ real.src = "temp" => real.off = 0 /\ real.bufLimit = 0 /\ Required <= Len(Joined)
       /\ d.sym < NumSyms => Len(d.tempBuf) <= Symbol.bytes
  /\ pc = "after" =>
       /\ real.off <= Len(Buffer) /\ Len(d.tempBuf) <= real.off
       /\ real.dummy >= 0 => real.dummy = real.off
       /\ real.src = "temp" => real.off <= Required

\* How much a round of DecodeToBuf may write.
CallInv ==
  /\ pc \in {"idle", "over"} => call = NoCall
  /\ pc \in {"buf", "dic", "loop", "real", "after", "ret"} => call.op # "none"
  /\ pc = "buf" => call.op = "buf"
  /\ InDic =>
       /\ d.dicPos <= call.dicLimit /\ call.dicLimit <= d.dicBufSize
       /\ call.dicLimit - call.from <= call.outSize
       /\ call.dicLimit - call.from = call.outSize \/ (call.op = "buf" /\ call.from < call.dicLimit)
       /\ call.op = "one" => call.from = 0 /\ fed = 0 /\ out = <<>>

\* What is returned: an error has its cause, a status its reason.
CauseOf(status) ==
  \/ Ref(d.sym).bad \/ ~stream.lead \/ (NotStarted /\ BadFirst) \/ (Ref(d.sym).ended /\ ~CodeIsZero)
  \/ status = "not_finished"
ReturnInv ==
  pc = "ret" =>
    /\ call.res \in {"ok", "data"}
    /\ call.res = "data" => CauseOf(call.status)
    /\ call.res = "ok" /\ call.status \in {"not_finished", "maybe_finished"} => d.dicPos = call.dicLimit
    /\ call.status = "needs_input" => call.in = <<>> /\ call.res = "ok"
    /\ call.status = "finished_with_mark" => Ref(d.sym).ended /\ call.res = "ok"
LastInv ==
  /\ last.res # "fail"
  /\ pc \in {"idle", "over"} =>
       /\ last.res = "data" => CauseOf(last.status)
       /\ last.status = "needs_input" => last.taken = last.given
       /\ last.res = "ok" /\ last.status \in {"not_finished", "maybe_finished"} => last.left = 0
       /\ last.status = "finished_with_mark" => Ref(d.sym).ended

\* The inductive invariant.
LzInv ==
  /\ TypesInv /\ CoreInv /\ WideInv /\ CheckInv /\ OutInv /\ LevelInv
  /\ InputInv /\ LoopInv /\ CallInv /\ ReturnInv /\ LastInv
-----------------------------------------------------------------------------
(* Numbers, and what the recursive definitions compute                     *)

\* Induction: a set with 0 and the successors of its members has every number.
LEMMA EveryNumber ==
  ASSUME NEW T, 0 \in T, \A n \in Nat : n \in T => n + 1 \in T
  PROVE  \A n \in Nat : n \in T
<1> DEFINE Others == Nat \ T
<1>1. SUFFICES ASSUME Others # {} PROVE FALSE
  OBVIOUS
<1>2. IsWellFoundedOn(OpToRel(<, Nat), Nat)
  BY NatLessThanWellFounded
<1>3. PICK x \in Others : \A y \in Others : ~(<<y, x>> \in OpToRel(<, Nat))
  BY <1>1, <1>2, WFMin
<1>4. \A y \in Others : ~(y < x)
  BY <1>3 DEF OpToRel
<1>5. x # 0 /\ x \in Nat
  OBVIOUS
<1>6. x - 1 \in Nat /\ x - 1 < x
  BY <1>5
<1>7. x - 1 \in T
  BY <1>4, <1>6
<1>8. x \in T
  BY <1>6, <1>7
<1> QED
  BY <1>8

\* The output and state after m symbols follow from those after one symbol less.
LEMMA RefSteps ==
  ASSUME NEW syms, NEW m \in Nat
  PROVE  RefOf(syms, 0) = RefStart /\ RefOf(syms, m + 1) = RefStep(RefOf(syms, m), syms[m + 1])
<1> DEFINE Is(g, n) == g = [k \in 0 .. n |-> IF k = 0 THEN RefStart ELSE RefStep(g[k - 1], syms[k])]
           The(n)   == CHOOSE g : Is(g, n)
<1>1. \A n \in Nat : \E g : Is(g, n)
  <2> DEFINE T == {n \in Nat : \E g : Is(g, n)}
  <2>1. 0 \in T
    <3>1. Is([k \in 0 .. 0 |-> RefStart], 0)
      OBVIOUS
    <3> QED
      BY <3>1
  <2>2. ASSUME NEW n \in Nat, n \in T PROVE n + 1 \in T
    <3>1. PICK g : Is(g, n)
      BY <2>2
    <3> DEFINE h == [k \in 0 .. n + 1 |-> IF k \in 0 .. n THEN g[k] ELSE RefStep(g[n], syms[n + 1])]
    <3>2. ASSUME NEW k \in 0 .. n + 1
          PROVE  h[k] = IF k = 0 THEN RefStart ELSE RefStep(h[k - 1], syms[k])
      <4>1. CASE k = n + 1
        <5>1. h[k] = RefStep(g[n], syms[n + 1]) /\ h[k - 1] = g[n]
          BY <4>1
        <5> QED
          BY <5>1, <4>1
      <4>2. CASE k \in 0 .. n
        <5>1. h[k] = g[k] /\ (k # 0 => h[k - 1] = g[k - 1])
          BY <4>2
        <5>2. g[k] = IF k = 0 THEN RefStart ELSE RefStep(g[k - 1], syms[k])
          BY <4>2, <3>1
        <5> QED
          BY <5>1, <5>2
      <4> QED
        BY <4>1, <4>2
    <3>3. h = [k \in 0 .. n + 1 |-> IF k = 0 THEN RefStart ELSE RefStep(h[k - 1], syms[k])]
      BY <3>2
    <3> HIDE DEF h
    <3>4. \E f : Is(f, n + 1)
      BY <3>3
    <3> QED
      BY <3>4
  <2> HIDE DEF T
  <2>3. \A n \in Nat : n \in T
    BY <2>1, <2>2, EveryNumber
  <2> QED
    BY <2>3 DEF T
<1>2. \A n \in Nat : Is(The(n), n)
  BY <1>1
<1>3. \A n \in Nat : RefOf(syms, n) = The(n)[n]
  BY DEF RefOf
<1> HIDE DEF The
<1>4. \A n \in Nat : The(n)[0] = RefStart /\ \A k \in 1 .. n : The(n)[k] = RefStep(The(n)[k - 1], syms[k])
  BY <1>2
<1>5. ASSUME NEW n \in Nat PROVE The(n + 1)[n] = The(n)[n]
  <2> DEFINE T == {k \in Nat : k <= n => The(n + 1)[k] = The(n)[k]}
  <2>1. 0 \in T
    BY <1>4
  <2>2. ASSUME NEW k \in Nat, k \in T PROVE k + 1 \in T
    <3>1. k + 1 <= n => /\ The(n)[k + 1] = RefStep(The(n)[k], syms[k + 1])
                        /\ The(n + 1)[k + 1] = RefStep(The(n + 1)[k], syms[k + 1])
      BY <1>4
    <3> QED
      BY <2>2, <3>1
  <2> HIDE DEF T
  <2>3. n \in T
    BY <2>1, <2>2, EveryNumber
  <2> QED
    BY <2>3 DEF T
<1> QED
  BY <1>3, <1>4, <1>5

\* The first byte of a symbol lies behind the bytes of the symbol before it.
LEMMA StartSteps ==
  ASSUME NEW syms, NEW m \in Nat
  PROVE  StartOf(syms, 0) = RcInit /\ StartOf(syms, m + 1) = (StartOf(syms, m) + syms[m + 1].bytes)
<1> DEFINE Is(g, n) == g = [k \in 0 .. n |-> IF k = 0 THEN RcInit ELSE (g[k - 1] + syms[k].bytes)]
           The(n)   == CHOOSE g : Is(g, n)
<1>1. \A n \in Nat : \E g : Is(g, n)
  <2> DEFINE T == {n \in Nat : \E g : Is(g, n)}
  <2>1. 0 \in T
    <3>1. Is([k \in 0 .. 0 |-> RcInit], 0)
      OBVIOUS
    <3> QED
      BY <3>1
  <2>2. ASSUME NEW n \in Nat, n \in T PROVE n + 1 \in T
    <3>1. PICK g : Is(g, n)
      BY <2>2
    <3> DEFINE h == [k \in 0 .. n + 1 |-> IF k \in 0 .. n THEN g[k] ELSE (g[n] + syms[n + 1].bytes)]
    <3>2. ASSUME NEW k \in 0 .. n + 1
          PROVE  h[k] = IF k = 0 THEN RcInit ELSE (h[k - 1] + syms[k].bytes)
      <4>1. CASE k = n + 1
        <5>1. h[k] = (g[n] + syms[n + 1].bytes) /\ h[k - 1] = g[n]
          BY <4>1
        <5> QED
          BY <5>1, <4>1
      <4>2. CASE k \in 0 .. n
        <5>1. h[k] = g[k] /\ (k # 0 => h[k - 1] = g[k - 1])
          BY <4>2
        <5>2. g[k] = IF k = 0 THEN RcInit ELSE (g[k - 1] + syms[k].bytes)
          BY <4>2, <3>1
        <5> QED
          BY <5>1, <5>2
      <4> QED
        BY <4>1, <4>2
    <3>3. h = [k \in 0 .. n + 1 |-> IF k = 0 THEN RcInit ELSE (h[k - 1] + syms[k].bytes)]
      BY <3>2
    <3> HIDE DEF h
    <3>4. \E f : Is(f, n + 1)
      BY <3>3
    <3> QED
      BY <3>4
  <2> HIDE DEF T
  <2>3. \A n \in Nat : n \in T
    BY <2>1, <2>2, EveryNumber
  <2> QED
    BY <2>3 DEF T
<1>2. \A n \in Nat : Is(The(n), n)
  BY <1>1
<1>3. \A n \in Nat : StartOf(syms, n) = The(n)[n]
  BY DEF StartOf
<1> HIDE DEF The
<1>4. \A n \in Nat : The(n)[0] = RcInit /\ \A k \in 1 .. n : The(n)[k] = (The(n)[k - 1] + syms[k].bytes)
  BY <1>2
<1>5. ASSUME NEW n \in Nat PROVE The(n + 1)[n] = The(n)[n]
  <2> DEFINE T == {k \in Nat : k <= n => The(n + 1)[k] = The(n)[k]}
  <2>1. 0 \in T
    BY <1>4
  <2>2. ASSUME NEW k \in Nat, k \in T PROVE k + 1 \in T
    <3>1. k + 1 <= n => /\ The(n)[k + 1] = (The(n)[k] + syms[k + 1].bytes)
                        /\ The(n + 1)[k + 1] = (The(n + 1)[k] + syms[k + 1].bytes)
      BY <1>4
    <3> QED
      BY <2>2, <3>1
  <2> HIDE DEF T
  <2>3. n \in T
    BY <2>1, <2>2, EveryNumber
  <2> QED
    BY <2>3 DEF T
<1> QED
  BY <1>3, <1>4, <1>5

\* A copy of m + 1 bytes is one of m bytes and one byte more.
LEMMA CopiedSteps ==
  ASSUME NEW o, NEW dist, NEW m \in Nat
  PROVE  Copied(o, dist, 0) = o /\ Copied(o, dist, m + 1) = Longer(Copied(o, dist, m), dist)
<1> DEFINE Is(g, n) == g = [k \in 0 .. n |-> IF k = 0 THEN o ELSE Longer(g[k - 1], dist)]
           The(n)   == CHOOSE g : Is(g, n)
<1>1. \A n \in Nat : \E g : Is(g, n)
  <2> DEFINE T == {n \in Nat : \E g : Is(g, n)}
  <2>1. 0 \in T
    <3>1. Is([k \in 0 .. 0 |-> o], 0)
      OBVIOUS
    <3> QED
      BY <3>1
  <2>2. ASSUME NEW n \in Nat, n \in T PROVE n + 1 \in T
    <3>1. PICK g : Is(g, n)
      BY <2>2
    <3> DEFINE h == [k \in 0 .. n + 1 |-> IF k \in 0 .. n THEN g[k] ELSE Longer(g[n], dist)]
    <3>2. ASSUME NEW k \in 0 .. n + 1
          PROVE  h[k] = IF k = 0 THEN o ELSE Longer(h[k - 1], dist)
      <4>1. CASE k = n + 1
        <5>1. h[k] = Longer(g[n], dist) /\ h[k - 1] = g[n]
          BY <4>1
        <5> QED
          BY <5>1, <4>1
      <4>2. CASE k \in 0 .. n
        <5>1. h[k] = g[k] /\ (k # 0 => h[k - 1] = g[k - 1])
          BY <4>2
        <5>2. g[k] = IF k = 0 THEN o ELSE Longer(g[k - 1], dist)
          BY <4>2, <3>1
        <5> QED
          BY <5>1, <5>2
      <4> QED
        BY <4>1, <4>2
    <3>3. h = [k \in 0 .. n + 1 |-> IF k = 0 THEN o ELSE Longer(h[k - 1], dist)]
      BY <3>2
    <3> HIDE DEF h
    <3>4. \E f : Is(f, n + 1)
      BY <3>3
    <3> QED
      BY <3>4
  <2> HIDE DEF T
  <2>3. \A n \in Nat : n \in T
    BY <2>1, <2>2, EveryNumber
  <2> QED
    BY <2>3 DEF T
<1>2. \A n \in Nat : Is(The(n), n)
  BY <1>1
<1>3. \A n \in Nat : Copied(o, dist, n) = The(n)[n]
  BY DEF Copied
<1> HIDE DEF The
<1>4. \A n \in Nat : The(n)[0] = o /\ \A k \in 1 .. n : The(n)[k] = Longer(The(n)[k - 1], dist)
  BY <1>2
<1>5. ASSUME NEW n \in Nat PROVE The(n + 1)[n] = The(n)[n]
  <2> DEFINE T == {k \in Nat : k <= n => The(n + 1)[k] = The(n)[k]}
  <2>1. 0 \in T
    BY <1>4
  <2>2. ASSUME NEW k \in Nat, k \in T PROVE k + 1 \in T
    <3>1. k + 1 <= n => /\ The(n)[k + 1] = Longer(The(n)[k], dist)
                        /\ The(n + 1)[k + 1] = Longer(The(n + 1)[k], dist)
      BY <1>4
    <3> QED
      BY <2>2, <3>1
  <2> HIDE DEF T
  <2>3. n \in T
    BY <2>1, <2>2, EveryNumber
  <2> QED
    BY <2>3 DEF T
<1> QED
  BY <1>3, <1>4, <1>5

\* The same of a copy within the dictionary.
LEMMA CopySteps ==
  ASSUME NEW dic, NEW pos \in Nat, NEW dist, NEW m \in Nat
  PROVE  CopyBytes(dic, pos, dist, 0) = dic /\ CopyBytes(dic, pos, dist, m + 1) = CopyByte(CopyBytes(dic, pos, dist, m), pos + m, dist)
<1> DEFINE Is(g, n) == g = [k \in 0 .. n |-> IF k = 0 THEN dic ELSE CopyByte(g[k - 1], pos + k - 1, dist)]
           The(n)   == CHOOSE g : Is(g, n)
<1>1. \A n \in Nat : \E g : Is(g, n)
  <2> DEFINE T == {n \in Nat : \E g : Is(g, n)}
  <2>1. 0 \in T
    <3>1. Is([k \in 0 .. 0 |-> dic], 0)
      OBVIOUS
    <3> QED
      BY <3>1
  <2>2. ASSUME NEW n \in Nat, n \in T PROVE n + 1 \in T
    <3>1. PICK g : Is(g, n)
      BY <2>2
    <3> DEFINE h == [k \in 0 .. n + 1 |-> IF k \in 0 .. n THEN g[k] ELSE CopyByte(g[n], pos + n, dist)]
    <3>2. ASSUME NEW k \in 0 .. n + 1
          PROVE  h[k] = IF k = 0 THEN dic ELSE CopyByte(h[k - 1], pos + k - 1, dist)
      <4>1. CASE k = n + 1
        <5>1. h[k] = CopyByte(g[n], pos + n, dist) /\ h[k - 1] = g[n]
          BY <4>1
        <5> QED
          BY <5>1, <4>1
      <4>2. CASE k \in 0 .. n
        <5>1. h[k] = g[k] /\ (k # 0 => h[k - 1] = g[k - 1])
          BY <4>2
        <5>2. g[k] = IF k = 0 THEN dic ELSE CopyByte(g[k - 1], pos + k - 1, dist)
          BY <4>2, <3>1
        <5> QED
          BY <5>1, <5>2
      <4> QED
        BY <4>1, <4>2
    <3>3. h = [k \in 0 .. n + 1 |-> IF k = 0 THEN dic ELSE CopyByte(h[k - 1], pos + k - 1, dist)]
      BY <3>2
    <3> HIDE DEF h
    <3>4. \E f : Is(f, n + 1)
      BY <3>3
    <3> QED
      BY <3>4
  <2> HIDE DEF T
  <2>3. \A n \in Nat : n \in T
    BY <2>1, <2>2, EveryNumber
  <2> QED
    BY <2>3 DEF T
<1>2. \A n \in Nat : Is(The(n), n)
  BY <1>1
<1>3. \A n \in Nat : CopyBytes(dic, pos, dist, n) = The(n)[n]
  BY DEF CopyBytes
<1> HIDE DEF The
<1>4. \A n \in Nat : The(n)[0] = dic /\ \A k \in 1 .. n : The(n)[k] = CopyByte(The(n)[k - 1], pos + k - 1, dist)
  BY <1>2
<1>5. ASSUME NEW n \in Nat PROVE The(n + 1)[n] = The(n)[n]
  <2> DEFINE T == {k \in Nat : k <= n => The(n + 1)[k] = The(n)[k]}
  <2>1. 0 \in T
    BY <1>4
  <2>2. ASSUME NEW k \in Nat, k \in T PROVE k + 1 \in T
    <3>1. k + 1 <= n => /\ The(n)[k + 1] = CopyByte(The(n)[k], pos + k, dist)
                        /\ The(n + 1)[k + 1] = CopyByte(The(n + 1)[k], pos + k, dist)
      BY <1>4
    <3> QED
      BY <2>2, <3>1
  <2> HIDE DEF T
  <2>3. n \in T
    BY <2>1, <2>2, EveryNumber
  <2> QED
    BY <2>3 DEF T
<1> QED
  BY <1>3, <1>4, <1>5
-----------------------------------------------------------------------------
(* Symbols and what they stand for                                         *)

\* A repeated match extends the output; what it appends repeats what lies dist before.
CopiedIs(o, l, dist, n, c) ==
  /\ c \in Seq(Nat) /\ Len(c) = l + n
  /\ \A k \in 1 .. l : c[k] = o[k]
  /\ \A k \in l + 1 .. l + n : c[k] = c[k - dist]

\* Length and elements of a list of bytes.
LEMMA NatSeq ==
  ASSUME NEW s \in Seq(Nat)
  PROVE  Len(s) \in Nat /\ \A k \in 1 .. Len(s) : s[k] \in Nat
BY LenProperties, ElementOfSeq

\* A list of bytes with one more.
LEMMA NatAppend ==
  ASSUME NEW s \in Seq(Nat), NEW l \in Nat, Len(s) = l, NEW v \in Nat
  PROVE  /\ Append(s, v) \in Seq(Nat) /\ Len(Append(s, v)) = l + 1
         /\ \A k \in 1 .. l : Append(s, v)[k] = s[k]
         /\ Append(s, v)[l + 1] = v
BY AppendProperties

\* Two lists of bytes, one behind the other.
LEMMA NatConcat ==
  ASSUME NEW s \in Seq(Nat), NEW t \in Seq(Nat)
  PROVE  /\ s \o t \in Seq(Nat) /\ Len(s \o t) = Len(s) + Len(t)
         /\ \A k \in 1 .. Len(s) : (s \o t)[k] = s[k]
         /\ \A k \in 1 .. Len(t) : (s \o t)[Len(s) + k] = t[k]
<1>1. /\ s \o t \in Seq(Nat) /\ Len(s \o t) = Len(s) + Len(t)
      /\ \A k \in 1 .. Len(s) + Len(t) : (s \o t)[k] = IF k <= Len(s) THEN s[k] ELSE t[k - Len(s)]
  BY ConcatProperties
<1>2. PICK l \in Nat, m \in Nat : l = Len(s) /\ m = Len(t)
  BY NatSeq
<1>3. \A k \in 1 .. l + m : (s \o t)[k] = IF k <= l THEN s[k] ELSE t[k - l]
  BY <1>1, <1>2, Zenon
<1>4. ASSUME NEW k \in 1 .. l PROVE (s \o t)[k] = s[k]
  <2>1. k \in 1 .. l + m /\ k <= l
    OBVIOUS
  <2> QED
    BY <1>3, <2>1, Zenon
<1>5. ASSUME NEW k \in 1 .. m PROVE (s \o t)[l + k] = t[k]
  <2>1. PICK p \in Int : p = l + k
    OBVIOUS
  <2>2. p \in 1 .. l + m /\ ~(p <= l) /\ p - l = k
    BY <2>1
  <2>3. (s \o t)[p] = t[p - l]
    BY <1>3, <2>2, Zenon
  <2> QED
    BY <2>1, <2>2, <2>3, Zenon
<1> QED
  BY <1>1, <1>2, <1>4, <1>5, Zenon

\* A part of a sequence.
LEMMA NatPart ==
  ASSUME NEW s \in Seq(Nat), NEW m \in Nat, NEW b \in Nat, 1 <= m, m <= b + 1, b <= Len(s)
  PROVE  /\ SubSeq(s, m, b) \in Seq(Nat) /\ Len(SubSeq(s, m, b)) = b + 1 - m
         /\ \A k \in 1 .. b + 1 - m : SubSeq(s, m, b)[k] = s[m - 1 + k]
<1>1. PICK l \in Nat : l = Len(s)
  BY NatSeq
<1>2. \A k \in 1 .. l : s[k] \in Nat
  BY NatSeq, <1>1
<1>3. \A k \in m .. b : s[k] \in Nat
  BY <1>1, <1>2
<1> DEFINE t == SubSeq(s, m, b)
<1>4. /\ t \in Seq(Nat) /\ Len(t) = (IF m <= b THEN b - m + 1 ELSE 0)
      /\ \A k \in 1 .. b - m + 1 : t[k] = s[m + k - 1]
  BY <1>3, SubSeqProperties
<1> HIDE DEF t
<1>5. Len(t) = b + 1 - m
  BY <1>4
<1>6. ASSUME NEW k \in 1 .. b + 1 - m PROVE t[k] = s[m - 1 + k]
  <2>1. k \in 1 .. b - m + 1 /\ m + k - 1 = m - 1 + k
    OBVIOUS
  <2> QED
    BY <1>4, <2>1, Zenon
<1> QED
  BY <1>4, <1>5, <1>6 DEF t

\* A copy keeps the output so far, and each new byte repeats the one at the distance.
LEMMA CopiedFacts ==
  ASSUME NEW o \in Seq(Nat), NEW l \in Nat, Len(o) = l, NEW dist \in 1 .. l, NEW n \in Nat
  PROVE  CopiedIs(o, l, dist, n, Copied(o, dist, n))
<1> DEFINE T == {k \in Nat : CopiedIs(o, l, dist, k, Copied(o, dist, k))}
<1>1. 0 \in T
  BY CopiedSteps DEF CopiedIs
<1>2. ASSUME NEW k \in Nat, k \in T PROVE k + 1 \in T
  <2> DEFINE c == Copied(o, dist, k)
  <2>1. c \in Seq(Nat) /\ Len(c) = l + k
    BY <1>2 DEF CopiedIs
  <2>2. \A i \in 1 .. l : c[i] = o[i]
    BY <1>2 DEF CopiedIs
  <2>3. \A i \in l + 1 .. l + k : c[i] = c[i - dist]
    BY <1>2 DEF CopiedIs
  <2>4. Copied(o, dist, k + 1) = Append(c, c[Len(c) + 1 - dist])
    BY CopiedSteps DEF Longer
  <2> HIDE DEF c
  <2> HIDE DEF T
  <2> DEFINE v == c[l + k + 1 - dist]
  <2>5. v \in Nat
    BY <2>1, NatSeq
  <2> HIDE DEF v
  <2> DEFINE e == Append(c, v)
  <2>6. e \in Seq(Nat) /\ Len(e) = (l + k) + 1 /\ (\A i \in 1 .. l + k : e[i] = c[i]) /\ e[(l + k) + 1] = v
    <3>1. l + k \in Nat
      OBVIOUS
    <3> QED
      BY <3>1, <2>1, <2>5, NatAppend
  <2> HIDE DEF e
  <2>7. (l + k) + 1 = l + (k + 1)
    OBVIOUS
  <2>8. ASSUME NEW i \in 1 .. l PROVE e[i] = o[i]
    <3>1. i \in 1 .. l + k
      OBVIOUS
    <3> QED
      BY <3>1, <2>2, <2>6, Zenon
  <2>9. ASSUME NEW i \in l + 1 .. l + (k + 1) PROVE e[i] = e[i - dist]
    <3>1. CASE i = (l + k) + 1
      <4>1. i - dist \in 1 .. l + k /\ i - dist = l + k + 1 - dist
        BY <3>1
      <4>2. e[i - dist] = c[l + k + 1 - dist]
        BY <4>1, <2>6
      <4> QED
        BY <4>2, <3>1, <2>6 DEF v
    <3>2. CASE i # (l + k) + 1
      <4>1. i \in l + 1 .. l + k /\ i \in 1 .. l + k /\ i - dist \in 1 .. l + k
        BY <3>2
      <4> QED
        BY <4>1, <2>3, <2>6
    <3> QED
      BY <3>1, <3>2
  <2>10. CopiedIs(o, l, dist, k + 1, e)
    BY <2>6, <2>7, <2>8, <2>9 DEF CopiedIs
  <2>11. Copied(o, dist, k + 1) = e
    BY <2>4, <2>1 DEF e, v
  <2> QED
    BY <2>10, <2>11 DEF T
<1> HIDE DEF T
<1>3. n \in T
  BY <1>1, <1>2, EveryNumber
<1> QED
  BY <1>3 DEF T

\* A new distance moves the others down.
LEMMA NewerFacts ==
  ASSUME NEW reps \in Seq(Nat), Len(reps) = 4, NEW dist \in Nat
  PROVE  /\ Newer(reps, dist) \in Seq(Nat) /\ Len(Newer(reps, dist)) = 4
         /\ Newer(reps, dist)[1] = dist
         /\ \A k \in 2 .. 4 : Newer(reps, dist)[k] = reps[k - 1]
<1> DEFINE t == SubSeq(reps, 1, 3)
<1>2. t \in Seq(Nat) /\ Len(t) = 3 /\ \A i \in 1 .. 3 : t[i] = reps[i]
  <2>1. PICK m \in Nat, p \in Nat : m = 1 /\ p = 3
    OBVIOUS
  <2>2. /\ SubSeq(reps, m, p) \in Seq(Nat) /\ Len(SubSeq(reps, m, p)) = p + 1 - m
        /\ \A k \in 1 .. p + 1 - m : SubSeq(reps, m, p)[k] = reps[m - 1 + k]
    <3>1. 1 <= m /\ m <= p + 1 /\ p <= Len(reps)
      BY <2>1
    <3> QED
      BY <3>1, NatPart, Zenon
  <2>3. t \in Seq(Nat) /\ Len(t) = p + 1 - m /\ \A k \in 1 .. p + 1 - m : t[k] = reps[m - 1 + k]
    BY <2>1, <2>2, Zenon
  <2> HIDE DEF t
  <2> QED
    BY <2>1, <2>3
<1> HIDE DEF t
<1>3. <<dist>> \in Seq(Nat) /\ Len(<<dist>>) = 1 /\ <<dist>>[1] = dist
  OBVIOUS
<1> DEFINE s == <<dist>>
<1>4. s \in Seq(Nat) /\ Len(s) = 1 /\ s[1] = dist
  BY <1>3
<1> HIDE DEF s
<1>5. /\ s \o t \in Seq(Nat) /\ Len(s \o t) = 4
      /\ \A k \in 1 .. 1 : (s \o t)[k] = s[k]
      /\ \A k \in 1 .. 3 : (s \o t)[1 + k] = t[k]
  <2>1. /\ s \o t \in Seq(Nat) /\ Len(s \o t) = Len(s) + Len(t)
        /\ \A k \in 1 .. Len(s) : (s \o t)[k] = s[k]
        /\ \A k \in 1 .. Len(t) : (s \o t)[Len(s) + k] = t[k]
    BY <1>2, <1>4, NatConcat
  <2>2. Len(s) + Len(t) = 4
    BY <1>2, <1>4
  <2> QED
    BY <2>1, <2>2, <1>2, <1>4
<1>6. (s \o t)[1] = dist
  BY <1>4, <1>5
<1>7. ASSUME NEW k \in 2 .. 4 PROVE (s \o t)[k] = reps[k - 1]
  <2>1. k - 1 \in 1 .. 3 /\ 1 + (k - 1) = k
    OBVIOUS
  <2> QED
    BY <2>1, <1>2, <1>5
<1>8. Newer(reps, dist) = s \o t
  BY DEF Newer, s, t
<1> QED
  BY <1>5, <1>6, <1>7, <1>8

\* A distance used again moves to the front.
LEMMA RenewedFacts ==
  ASSUME NEW reps \in Seq(Nat), Len(reps) = 4, NEW i \in 1 .. 4
  PROVE  /\ Renewed(reps, i) \in Seq(Nat) /\ Len(Renewed(reps, i)) = 4
         /\ Renewed(reps, i)[1] = reps[i]
         /\ \A k \in 2 .. 4 : Renewed(reps, i)[k] = reps[IF k <= i THEN k - 1 ELSE k]
<1> DEFINE a == SubSeq(reps, 1, i - 1)
           b == SubSeq(reps, i + 1, 4)
           c == <<reps[i]>>
<1>1. c \in Seq(Nat) /\ Len(c) = 1 /\ c[1] = reps[i]
  <2>1. reps[i] \in Nat
    BY NatSeq
  <2> QED
    BY <2>1
<1>2. a \in Seq(Nat) /\ Len(a) = i - 1 /\ \A k \in 1 .. i - 1 : a[k] = reps[k]
  <2>1. i - 1 \in Nat /\ i - 1 <= 4
    OBVIOUS
  <2>2. PICK m \in Nat, p \in Nat : m = 1 /\ p = i - 1
    BY <2>1
  <2>3. /\ SubSeq(reps, m, p) \in Seq(Nat) /\ Len(SubSeq(reps, m, p)) = p + 1 - m
        /\ \A k \in 1 .. p + 1 - m : SubSeq(reps, m, p)[k] = reps[m - 1 + k]
    <3>1. 1 <= m /\ m <= p + 1 /\ p <= Len(reps)
      BY <2>2
    <3> QED
      BY <3>1, NatPart, Zenon
  <2>4. a \in Seq(Nat) /\ Len(a) = p + 1 - m /\ \A k \in 1 .. p + 1 - m : a[k] = reps[m - 1 + k]
    BY <2>2, <2>3, Zenon
  <2> HIDE DEF a
  <2> QED
    BY <2>2, <2>4
<1>3. b \in Seq(Nat) /\ Len(b) = 4 - i /\ \A k \in 1 .. 4 - i : b[k] = reps[i + k]
  <2>1. i + 1 \in Nat /\ 1 <= i + 1 /\ i + 1 <= 4 + 1
    OBVIOUS
  <2>2. PICK m \in Nat, p \in Nat : m = i + 1 /\ p = 4
    BY <2>1
  <2>3. /\ SubSeq(reps, m, p) \in Seq(Nat) /\ Len(SubSeq(reps, m, p)) = p + 1 - m
        /\ \A k \in 1 .. p + 1 - m : SubSeq(reps, m, p)[k] = reps[m - 1 + k]
    <3>1. 1 <= m /\ m <= p + 1 /\ p <= Len(reps)
      BY <2>2
    <3> QED
      BY <3>1, NatPart, Zenon
  <2>4. b \in Seq(Nat) /\ Len(b) = p + 1 - m /\ \A k \in 1 .. p + 1 - m : b[k] = reps[m - 1 + k]
    BY <2>2, <2>3, Zenon
  <2> HIDE DEF b
  <2> QED
    BY <2>2, <2>4
<1> HIDE DEF a, b, c
<1>4. /\ a \o b \in Seq(Nat) /\ Len(a \o b) = 3
      /\ \A k \in 1 .. i - 1 : (a \o b)[k] = reps[k]
      /\ \A k \in 1 .. 4 - i : (a \o b)[(i - 1) + k] = reps[i + k]
  <2>1. i - 1 \in Nat /\ 4 - i \in Nat /\ (i - 1) + (4 - i) = 3
    OBVIOUS
  <2>2. /\ a \o b \in Seq(Nat) /\ Len(a \o b) = Len(a) + Len(b)
        /\ \A k \in 1 .. Len(a) : (a \o b)[k] = a[k]
        /\ \A k \in 1 .. Len(b) : (a \o b)[Len(a) + k] = b[k]
    BY <1>2, <1>3, NatConcat
  <2>3. Len(a) + Len(b) = 3
    BY <1>2, <1>3
  <2>4. \A k \in 1 .. i - 1 : (a \o b)[k] = a[k]
    BY <2>2, <1>2
  <2>5. \A k \in 1 .. 4 - i : (a \o b)[(i - 1) + k] = b[k]
    BY <2>2, <1>2, <1>3
  <2> QED
    BY <2>2, <2>3, <2>4, <2>5, <1>2, <1>3
<1> DEFINE t == a \o b
<1> HIDE DEF t
<1>9. t \in Seq(Nat) /\ Len(t) = 3
  BY <1>4 DEF t
<1>5. /\ c \o t \in Seq(Nat) /\ Len(c \o t) = 4
      /\ \A k \in 1 .. 1 : (c \o t)[k] = c[k]
      /\ \A k \in 1 .. 3 : (c \o t)[1 + k] = t[k]
  <2>1. /\ c \o t \in Seq(Nat) /\ Len(c \o t) = Len(c) + Len(t)
        /\ \A k \in 1 .. Len(c) : (c \o t)[k] = c[k]
        /\ \A k \in 1 .. Len(t) : (c \o t)[Len(c) + k] = t[k]
    BY <1>1, <1>9, NatConcat
  <2>2. Len(c) + Len(t) = 4
    BY <1>1, <1>9
  <2> QED
    BY <2>1, <2>2, <1>1, <1>9
<1>6. (c \o t)[1] = reps[i]
  <2>1. 1 \in 1 .. 1
    OBVIOUS
  <2>2. (c \o t)[1] = c[1]
    BY <2>1, <1>5, Zenon
  <2> QED
    BY <2>2, <1>1
<1>7. ASSUME NEW k \in 2 .. 4 PROVE (c \o t)[k] = reps[IF k <= i THEN k - 1 ELSE k]
  <2>1. k - 1 \in 1 .. 3 /\ 1 + (k - 1) = k
    OBVIOUS
  <2>2. (c \o t)[k] = (a \o b)[k - 1]
    BY <2>1, <1>5 DEF t
  <2>3. CASE k <= i
    <3>1. k - 1 \in 1 .. i - 1
      BY <2>3
    <3> QED
      BY <3>1, <2>2, <2>3, <1>4
  <2>4. CASE ~(k <= i)
    <3>1. k - i \in 1 .. 4 - i /\ (i - 1) + (k - i) = k - 1 /\ i + (k - i) = k
      BY <2>4
    <3>2. (a \o b)[(i - 1) + (k - i)] = reps[i + (k - i)]
      BY <3>1, <1>4
    <3> QED
      BY <3>1, <3>2, <2>2, <2>4
  <2> QED
    BY <2>3, <2>4
<1>8. Renewed(reps, i) = c \o t
  BY DEF Renewed, RemoveAt, a, b, c, t
<1> QED
  BY <1>5, <1>6, <1>7, <1>8

\* The last distance used again changes nothing.
LEMMA FirstRenewed ==
  ASSUME NEW reps \in Seq(Nat), Len(reps) = 4
  PROVE  Renewed(reps, 1) = reps
<1>1. /\ Renewed(reps, 1) \in Seq(Nat) /\ Len(Renewed(reps, 1)) = 4
      /\ Renewed(reps, 1)[1] = reps[1]
      /\ \A k \in 2 .. 4 : Renewed(reps, 1)[k] = reps[IF k <= 1 THEN k - 1 ELSE k]
  BY RenewedFacts
<1>2. \A k \in 1 .. 4 : Renewed(reps, 1)[k] = reps[k]
  BY <1>1
<1> QED
  BY <1>1, <1>2, SeqEqual

\* The reference after some symbols: four distances, each within what there is.
RefIs(r, n) ==
  /\ r \in [out : Seq(Nat), reps : Seq(Nat), ended : BOOLEAN, bad : BOOLEAN]
  /\ Len(r.reps) = 4
  /\ \A k \in 1 .. 4 : r.reps[k] \in 1 .. DicSize /\ (r.reps[k] <= Len(r.out) \/ r.reps[k] = 1)
  /\ ~(r.ended /\ r.bad)
  /\ n = 0 \/ r.ended \/ r.bad \/ Len(r.out) > 0

\* The next symbol of a stream that goes on.
LEMMA RefCases ==
  ASSUME NEW r, NEW s, IsSymbol(s)
  PROVE  /\ r.bad \/ r.ended => RefStep(r, s) = r
         /\ ~r.bad /\ ~r.ended =>
              /\ s.kind = "lit" => RefStep(r, s) = [r EXCEPT !.out = Append(@, s.value)]
              /\ s.kind = "end" => RefStep(r, s) = [r EXCEPT !.ended = TRUE]
              /\ s.kind = "match" =>
                   RefStep(r, s) = IF s.dist > Smaller(Len(r.out), DicSize) THEN [r EXCEPT !.bad = TRUE]
                                   ELSE [r EXCEPT !.out = Copied(@, s.dist, s.len), !.reps = Newer(@, s.dist)]
              /\ s.kind = "rep" =>
                   RefStep(r, s) = IF r.out = <<>> THEN [r EXCEPT !.bad = TRUE]
                                   ELSE [r EXCEPT !.out = Copied(@, r.reps[s.index], s.len),
                                                  !.reps = Renewed(@, s.index)]
<1>1. r.bad \/ r.ended => RefStep(r, s) = r
  BY DEF RefStep
<1>2. ASSUME ~r.bad, ~r.ended, s.kind = "lit" PROVE RefStep(r, s) = [r EXCEPT !.out = Append(@, s.value)]
  BY <1>2 DEF RefStep
<1>3. ASSUME ~r.bad, ~r.ended, s.kind = "end" PROVE RefStep(r, s) = [r EXCEPT !.ended = TRUE]
  BY <1>3 DEF RefStep
<1>4. ASSUME ~r.bad, ~r.ended, s.kind = "match"
      PROVE  RefStep(r, s) = IF s.dist > Smaller(Len(r.out), DicSize) THEN [r EXCEPT !.bad = TRUE]
                             ELSE [r EXCEPT !.out = Copied(@, s.dist, s.len), !.reps = Newer(@, s.dist)]
  BY <1>4 DEF RefStep
<1>5. ASSUME ~r.bad, ~r.ended, s.kind = "rep"
      PROVE  RefStep(r, s) = IF r.out = <<>> THEN [r EXCEPT !.bad = TRUE]
                             ELSE [r EXCEPT !.out = Copied(@, r.reps[s.index], s.len), !.reps = Renewed(@, s.index)]
  BY <1>5 DEF RefStep
<1> QED
  BY <1>1, <1>2, <1>3, <1>4, <1>5, Zenon

\* The kinds of a symbol and the ranges of its numbers.
LEMMA SymbolFacts ==
  ASSUME NEW s, IsSymbol(s)
  PROVE  /\ s.kind \in {"lit", "end", "match", "rep"}
         /\ s.bytes \in Nat /\ s.bytes <= Required /\ s.late \in {0, 1} /\ s.late <= s.bytes
         /\ s.kind = "lit" => s.value \in Nat
         /\ s.kind = "match" => s.dist \in Nat /\ s.dist >= 1 /\ s.len \in Nat /\ s.len >= 2 /\ s.len < kMatchSpecLenStart
         /\ s.kind = "rep" => /\ s.index \in 1 .. 4 /\ s.len \in Nat /\ s.len >= 1 /\ s.len < kMatchSpecLenStart
                              /\ s.len = 1 => s.index = 1
<1>1. Required \in Nat
  BY LzmaDecAssumption
<1>2. s.bytes \in 0 .. Required /\ s.late \in {0, 1} /\ s.late <= s.bytes
  BY DEF IsSymbol
<1>3. s.kind \in {"lit", "end", "match", "rep"}
  BY DEF IsSymbol
<1>4. s.kind = "lit" => s.value \in Nat
  BY DEF IsSymbol
<1>5. s.kind = "match" => s.dist \in Nat \ {0} /\ s.len \in 2 .. kMatchSpecLenStart - 1
  BY DEF IsSymbol
<1>6. s.kind = "rep" => s.index \in 1 .. 4 /\ s.len \in 1 .. kMatchSpecLenStart - 1 /\ (s.len = 1 => s.index = 1)
  BY DEF IsSymbol
<1>7. s.kind = "match" => s.dist \in Nat /\ s.dist >= 1 /\ s.len \in Nat /\ s.len >= 2 /\ s.len < kMatchSpecLenStart
  BY <1>5 DEF kMatchSpecLenStart
<1>8. s.kind = "rep" => s.len \in Nat /\ s.len >= 1 /\ s.len < kMatchSpecLenStart
  BY <1>6 DEF kMatchSpecLenStart
<1> QED
  BY <1>1, <1>2, <1>3, <1>4, <1>6, <1>7, <1>8

\* Before the first symbol.
LEMMA StartIs == RefIs(RefStart, 0)
<1>1. <<1, 1, 1, 1>> \in Seq(Nat) /\ Len(<<1, 1, 1, 1>>) = 4
  OBVIOUS
<1>2. \A k \in 1 .. 4 : <<1, 1, 1, 1>>[k] = 1
  OBVIOUS
<1>3. 1 \in 1 .. DicSize
  BY DecoderCallsAssumption
<1>4. RefStart \in [out : Seq(Nat), reps : Seq(Nat), ended : BOOLEAN, bad : BOOLEAN]
  BY <1>1 DEF RefStart
<1>5. RefStart.reps = <<1, 1, 1, 1>> /\ RefStart.ended = FALSE /\ RefStart.bad = FALSE
  BY DEF RefStart
<1> QED
  BY <1>1, <1>2, <1>3, <1>4, <1>5 DEF RefIs

\* A distance within the output and the dictionary.
LEMMA WithinFacts ==
  ASSUME NEW dist \in Nat, NEW l \in Nat
  PROVE  ~(dist > Smaller(l, DicSize)) <=> (dist <= l /\ dist <= DicSize)
BY DecoderCallsAssumption DEF Smaller

\* Output that only grows keeps the distances, with new ones, within it.
LEMMA RefGrows ==
  ASSUME NEW r, NEW n \in Nat, RefIs(r, n), NEW t, NEW reps,
         t.out \in Seq(Nat), t.reps = reps, t.ended = FALSE, t.bad = FALSE,
         t \in [out : Seq(Nat), reps : Seq(Nat), ended : BOOLEAN, bad : BOOLEAN],
         Len(t.out) > 0, Len(t.out) >= Len(r.out), Len(reps) = 4,
         \A k \in 1 .. 4 : \/ \E j \in 1 .. 4 : reps[k] = r.reps[j]
                           \/ reps[k] \in 1 .. DicSize /\ reps[k] <= Len(r.out)
  PROVE  RefIs(t, n + 1)
<1>1. PICK a \in Nat, b \in Nat : a = Len(r.out) /\ b = Len(t.out)
  BY NatSeq DEF RefIs
<1>2. \A j \in 1 .. 4 : r.reps[j] \in 1 .. DicSize /\ (r.reps[j] <= a \/ r.reps[j] = 1)
  BY <1>1 DEF RefIs
<1>3. a <= b
  BY <1>1
<1>4. ASSUME NEW k \in 1 .. 4 PROVE reps[k] \in 1 .. DicSize /\ (reps[k] <= b \/ reps[k] = 1)
  <2>1. DicSize \in Nat
    BY DecoderCallsAssumption
  <2>2. PICK x : x = reps[k]
    OBVIOUS
  <2>3. x \in 1 .. DicSize /\ (x <= a \/ x = 1)
    BY <2>2, <1>1, <1>2
  <2>4. x <= b \/ x = 1
    BY <2>1, <2>3, <1>3
  <2> QED
    BY <2>2, <2>3, <2>4
<1> QED
  BY <1>1, <1>4 DEF RefIs

\* Each symbol keeps the shape of the reference state.
LEMMA RefNext ==
  ASSUME NEW r, NEW n \in Nat, RefIs(r, n), NEW s, IsSymbol(s)
  PROVE  RefIs(RefStep(r, s), n + 1)
<1> DEFINE t == RefStep(r, s)
<1>1. r \in [out : Seq(Nat), reps : Seq(Nat), ended : BOOLEAN, bad : BOOLEAN] /\ Len(r.reps) = 4
  BY DEF RefIs
<1>2. r.out \in Seq(Nat) /\ r.reps \in Seq(Nat) /\ r.ended \in BOOLEAN /\ r.bad \in BOOLEAN
  BY <1>1
<1>3. PICK l \in Nat : l = Len(r.out)
  BY <1>2, NatSeq
<1>4. \A k \in 1 .. 4 : r.reps[k] \in 1 .. DicSize /\ (r.reps[k] <= l \/ r.reps[k] = 1)
  BY <1>3 DEF RefIs
<1>5. CASE r.bad \/ r.ended
  BY <1>5, RefCases DEF RefIs
<1>6. ASSUME ~r.bad, ~r.ended, t = [r EXCEPT !.bad = TRUE] \/ t = [r EXCEPT !.ended = TRUE] PROVE RefIs(t, n + 1)
  <2> HIDE DEF t
  <2>1. t \in [out : Seq(Nat), reps : Seq(Nat), ended : BOOLEAN, bad : BOOLEAN] /\ t.out = r.out /\ t.reps = r.reps
    BY <1>1, <1>6
  <2>2. t.ended \/ t.bad
    BY <1>1, <1>6
  <2>3. ~(t.ended /\ t.bad)
    BY <1>1, <1>6
  <2> QED
    BY <1>1, <1>3, <1>4, <2>1, <2>2, <2>3 DEF RefIs
<1>7. CASE ~r.bad /\ ~r.ended /\ s.kind = "end"
  BY <1>6, <1>7, RefCases
<1>8. CASE ~r.bad /\ ~r.ended /\ s.kind = "lit"
  <2>1. s.value \in Nat
    BY <1>8, SymbolFacts
  <2> DEFINE o == Append(r.out, s.value)
  <2>2. o \in Seq(Nat) /\ Len(o) = l + 1
    BY <2>1, <1>2, <1>3, NatAppend
  <2>3. t = [r EXCEPT !.out = o]
    BY <1>8, RefCases
  <2> HIDE DEF t, o
  <2>4. t.out = o /\ t.reps = r.reps /\ t.ended = FALSE /\ t.bad = FALSE
    BY <2>3, <1>1, <1>8
  <2>5. t \in [out : Seq(Nat), reps : Seq(Nat), ended : BOOLEAN, bad : BOOLEAN]
    BY <2>2, <2>3, <1>1
  <2>6. Len(t.out) > 0 /\ Len(t.out) >= Len(r.out)
    BY <2>2, <2>4, <1>3
  <2> QED
    BY <1>1, <2>2, <2>4, <2>5, <2>6, RefGrows DEF t
<1>9. ASSUME ~r.bad, ~r.ended, NEW dist \in 1 .. l, NEW len \in Nat, NEW reps \in Seq(Nat), Len(reps) = 4,
             t = [r EXCEPT !.out = Copied(@, dist, len), !.reps = reps],
             \A k \in 1 .. 4 : \/ \E j \in 1 .. 4 : reps[k] = r.reps[j]
                               \/ reps[k] \in 1 .. DicSize /\ reps[k] <= l
      PROVE  RefIs(t, n + 1)
  <2> DEFINE o == Copied(r.out, dist, len)
  <2>1. CopiedIs(r.out, l, dist, len, o)
    BY <1>2, <1>3, CopiedFacts
  <2> HIDE DEF o
  <2>2. o \in Seq(Nat) /\ Len(o) = l + len
    BY <2>1 DEF CopiedIs
  <2>3. t = [r EXCEPT !.out = o, !.reps = reps]
    BY <1>9 DEF o
  <2> HIDE DEF t
  <2>4. t.out = o /\ t.reps = reps /\ t.ended = FALSE /\ t.bad = FALSE
    BY <2>3, <1>1, <1>9
  <2>5. t \in [out : Seq(Nat), reps : Seq(Nat), ended : BOOLEAN, bad : BOOLEAN]
    BY <2>2, <2>3, <1>1
  <2>6. Len(t.out) > 0 /\ Len(t.out) >= Len(r.out)
    BY <2>2, <2>4, <1>3
  <2>7. \A k \in 1 .. 4 : \/ \E j \in 1 .. 4 : reps[k] = r.reps[j]
                          \/ reps[k] \in 1 .. DicSize /\ reps[k] <= Len(r.out)
    BY <1>3, <1>9
  <2> QED
    BY <1>9, <2>2, <2>4, <2>5, <2>6, <2>7, RefGrows
<1>10. CASE ~r.bad /\ ~r.ended /\ s.kind = "match"
  <2>1. s.dist \in Nat /\ s.dist >= 1 /\ s.len \in Nat
    BY <1>10, SymbolFacts
  <2>2. CASE s.dist > Smaller(l, DicSize)
    BY <2>2, <1>3, <1>10, <1>6, RefCases
  <2>3. CASE ~(s.dist > Smaller(l, DicSize))
    <3>1. s.dist \in 1 .. l /\ s.dist \in 1 .. DicSize
      BY <2>1, <2>3, WithinFacts, DecoderCallsAssumption
    <3> DEFINE reps == Newer(r.reps, s.dist)
    <3>2. /\ reps \in Seq(Nat) /\ Len(reps) = 4 /\ reps[1] = s.dist
          /\ \A k \in 2 .. 4 : reps[k] = r.reps[k - 1]
      BY <2>1, <1>1, <1>2, NewerFacts
    <3>3. t = [r EXCEPT !.out = Copied(@, s.dist, s.len), !.reps = reps]
      BY <2>3, <1>3, <1>10, RefCases
    <3> HIDE DEF reps, t
    <3>4. ASSUME NEW k \in 1 .. 4
          PROVE  \/ \E j \in 1 .. 4 : reps[k] = r.reps[j]
                 \/ reps[k] \in 1 .. DicSize /\ reps[k] <= l
      <4>1. CASE k = 1
        BY <4>1, <3>1, <3>2
      <4>2. CASE k # 1
        <5>1. k \in 2 .. 4 /\ k - 1 \in 1 .. 4
          BY <4>2
        <5> QED
          BY <5>1, <3>2
      <4> QED
        BY <4>1, <4>2
    <3> QED
      BY <1>10, <2>1, <3>1, <3>2, <3>3, <3>4, <1>9 DEF t
  <2> QED
    BY <2>2, <2>3
<1>11. CASE ~r.bad /\ ~r.ended /\ s.kind = "rep"
  <2>1. s.index \in 1 .. 4 /\ s.len \in Nat
    BY <1>11, SymbolFacts
  <2>2. CASE r.out = <<>>
    BY <2>2, <1>11, <1>6, RefCases
  <2>3. CASE r.out # <<>>
    <3> DEFINE reps == Renewed(r.reps, s.index)
    <3>1. /\ reps \in Seq(Nat) /\ Len(reps) = 4 /\ reps[1] = r.reps[s.index]
          /\ \A k \in 2 .. 4 : reps[k] = r.reps[IF k <= s.index THEN k - 1 ELSE k]
      BY <2>1, <1>1, <1>2, RenewedFacts
    <3>2. PICK dist : dist = r.reps[s.index]
      OBVIOUS
    <3>3. l > 0
      BY <2>3, <1>2, <1>3, EmptySeq
    <3>4. dist \in 1 .. l
      <4>1. dist \in 1 .. DicSize /\ (dist <= l \/ dist = 1)
        BY <2>1, <3>2, <1>4
      <4>2. DicSize \in Nat
        BY DecoderCallsAssumption
      <4> QED
        BY <3>3, <4>1, <4>2
    <3>5. t = [r EXCEPT !.out = Copied(@, dist, s.len), !.reps = reps]
      BY <2>3, <3>2, <1>11, RefCases
    <3> HIDE DEF reps, t
    <3>6. ASSUME NEW k \in 1 .. 4 PROVE \E j \in 1 .. 4 : reps[k] = r.reps[j]
      <4>1. CASE k = 1
        BY <4>1, <3>1, <2>1
      <4>2. CASE k # 1
        <5>1. k \in 2 .. 4 /\ (IF k <= s.index THEN k - 1 ELSE k) \in 1 .. 4
          BY <4>2, <2>1
        <5> QED
          BY <5>1, <3>1
      <4> QED
        BY <4>1, <4>2
    <3>7. \A k \in 1 .. 4 : \/ \E j \in 1 .. 4 : reps[k] = r.reps[j]
                            \/ reps[k] \in 1 .. DicSize /\ reps[k] <= l
      BY <3>6
    <3> QED
      BY <1>11, <2>1, <3>1, <3>4, <3>5, <3>7, <1>9 DEF t
  <2> QED
    BY <2>2, <2>3
<1>12. s.kind \in {"lit", "end", "match", "rep"}
  BY SymbolFacts
<1> QED
  BY <1>2, <1>5, <1>7, <1>8, <1>10, <1>11, <1>12

\* The symbols of a stream.
LEMMA StreamFacts ==
  ASSUME stream \in Streams
  PROVE  /\ NumSyms \in Nat /\ stream.lead \in BOOLEAN
         /\ \A k \in 1 .. NumSyms : IsSymbol(stream.syms[k])
BY LzmaDecAssumption DEF NumSyms

\* The reference state after n symbols, and after one more.
LEMMA RefFacts ==
  ASSUME stream \in Streams, NEW n \in Nat, n <= NumSyms
  PROVE  RefIs(Ref(n), n) /\ (n < NumSyms => Ref(n + 1) = RefStep(Ref(n), stream.syms[n + 1]))
<1> DEFINE T == {k \in Nat : k <= NumSyms => RefIs(Ref(k), k)}
<1>1. \A k \in Nat : Ref(k + 1) = RefStep(Ref(k), stream.syms[k + 1])
  BY RefSteps DEF Ref
<1>2. 0 \in T
  BY RefSteps, StartIs DEF Ref
<1>3. ASSUME NEW k \in Nat, k \in T PROVE k + 1 \in T
  <2>1. SUFFICES ASSUME k + 1 <= NumSyms PROVE RefIs(Ref(k + 1), k + 1)
    OBVIOUS
  <2>2. k <= NumSyms /\ k + 1 \in 1 .. NumSyms
    BY <2>1, StreamFacts
  <2>3. RefIs(Ref(k), k)
    BY <1>3, <2>2
  <2>4. IsSymbol(stream.syms[k + 1])
    BY <2>2, StreamFacts
  <2> QED
    BY <2>3, <2>4, <1>1, RefNext
<1> HIDE DEF T
<1>4. n \in T
  BY <1>2, <1>3, EveryNumber
<1> QED
  BY <1>1, <1>4 DEF T

\* The places in the stream where symbols start.
LEMMA StartFacts ==
  ASSUME stream \in Streams
  PROVE  /\ \A n \in 0 .. NumSyms : Start(n) \in Nat /\ Start(n) <= NumBytes /\ Start(n) >= RcInit
         /\ Start(0) = RcInit /\ NumBytes = Start(NumSyms)
         /\ \A n \in Nat : n < NumSyms => Start(n + 1) = Start(n) + stream.syms[n + 1].bytes
<1> DEFINE T == {k \in Nat : k <= NumSyms => Start(k) \in Nat /\ Start(k) >= RcInit}
           U == {k \in Nat : k <= NumSyms => Start(NumSyms - k) <= Start(NumSyms)}
<1>1. PICK z \in Nat : z = NumSyms
  BY StreamFacts
<1>2. RcInit \in Nat
  BY DecoderCallsAssumption
<1>3. \A k \in Nat : Start(k + 1) = Start(k) + stream.syms[k + 1].bytes
  BY StartSteps DEF Start
<1>4. Start(0) = RcInit
  BY StartSteps DEF Start
<1>5. \A k \in 1 .. z : stream.syms[k].bytes \in Nat
  BY <1>1, StreamFacts, SymbolFacts
<1>6. 0 \in T
  BY <1>2, <1>4
<1>7. ASSUME NEW k \in Nat, k \in T PROVE k + 1 \in T
  <2>1. SUFFICES ASSUME k + 1 <= z PROVE Start(k + 1) \in Nat /\ Start(k + 1) >= RcInit
    BY <1>1
  <2>2. Start(k) \in Nat /\ Start(k) >= RcInit
    BY <2>1, <1>1, <1>7
  <2>3. stream.syms[k + 1].bytes \in Nat
    BY <2>1, <1>5
  <2> QED
    BY <2>2, <2>3, <1>2, <1>3
<1> HIDE DEF T
<1>8. \A k \in Nat : k \in T
  BY <1>6, <1>7, EveryNumber
<1>9. \A k \in 0 .. z : Start(k) \in Nat /\ Start(k) >= RcInit
  BY <1>1, <1>8 DEF T
<1>10. 0 \in U
  BY <1>1, <1>9
<1>11. ASSUME NEW k \in Nat, k \in U PROVE k + 1 \in U
  <2>1. SUFFICES ASSUME k + 1 <= z PROVE Start(z - (k + 1)) <= Start(z)
    BY <1>1
  <2>2. Start(z - k) <= Start(z)
    BY <2>1, <1>1, <1>11
  <2>3. PICK m \in Nat : m = z - (k + 1)
    BY <2>1
  <2>4. z - k = m + 1 /\ m \in 0 .. z /\ m + 1 \in 1 .. z
    BY <2>1, <2>3
  <2>5. Start(m + 1) = Start(m) + stream.syms[m + 1].bytes
    BY <1>3
  <2>6. Start(m + 1) <= Start(z)
    BY <2>2, <2>4
  <2>7. Start(m) <= Start(m + 1)
    BY <2>4, <2>5, <1>5, <1>9
  <2>8. Start(m) <= Start(z)
    BY <2>4, <2>6, <2>7, <1>9
  <2> QED
    BY <2>3, <2>8
<1> HIDE DEF U
<1>12. \A k \in Nat : k \in U
  BY <1>10, <1>11, EveryNumber
<1>13. ASSUME NEW n \in 0 .. z PROVE Start(n) <= Start(z)
  <2>1. z - n \in Nat /\ z - n <= z /\ z - (z - n) = n
    OBVIOUS
  <2> QED
    BY <2>1, <1>12, <1>1 DEF U
<1> QED
  BY <1>1, <1>3, <1>4, <1>9, <1>13 DEF NumBytes
-----------------------------------------------------------------------------
(* The dictionary                                                          *)

\* A byte that is written where the last one ended.
LEMMA ByteKeeps ==
  ASSUME NEW size \in Nat, NEW pos \in Nat, NEW total \in Nat, NEW dic, NEW whole, NEW v \in Nat,
         pos < size, v = whole[total + 1], Holds(dic, pos, size, total, whole)
  PROVE  Holds([dic EXCEPT ![pos] = v], pos + 1, size, total + 1, whole)
<1> DEFINE e == [dic EXCEPT ![pos] = v]
<1>1. dic \in [0 .. size - 1 -> Nat] /\ pos \in 0 .. size - 1
  BY DEF Holds
<1>2. e \in [0 .. size - 1 -> Nat] /\ e[pos] = v /\ \A i \in 0 .. size - 1 : i # pos => e[i] = dic[i]
  BY <1>1
<1>3. \A k \in 1 .. size : k <= total => dic[Place(pos, k, size)] = whole[total + 1 - k]
  BY DEF Holds
<1> HIDE DEF e
<1>4. ASSUME NEW k \in 1 .. size, k <= total + 1
      PROVE  e[Place(pos + 1, k, size)] = whole[(total + 1) + 1 - k]
  <2>1. CASE k = 1
    <3>1. Place(pos + 1, k, size) = pos /\ (total + 1) + 1 - k = total + 1
      BY <2>1 DEF Place
    <3> QED
      BY <3>1, <1>2
  <2>2. CASE k # 1
    <3>1. PICK j \in Nat : j = k - 1
      BY <2>2
    <3>2. j \in 1 .. size /\ j <= total /\ total + 1 - j = (total + 1) + 1 - k
      BY <3>1, <2>2, <1>4
    <3>8. Place(pos, j, size) \in Int
      BY DEF Place
    <3>3. PICK p \in Int : p = Place(pos, j, size)
      BY <3>8
    <3>4. p \in 0 .. size - 1 /\ p # pos
      BY <3>1, <3>2, <3>3 DEF Place
    <3>5. Place(pos + 1, k, size) = p
      BY <3>1, <3>3 DEF Place
    <3>6. dic[p] = whole[total + 1 - j]
      BY <3>2, <3>3, <1>3
    <3>7. e[p] = dic[p]
      BY <3>4, <1>2
    <3> QED
      BY <3>2, <3>5, <3>6, <3>7
  <2> QED
    BY <2>1, <2>2
<1>5. \A k \in 1 .. size : k <= total + 1 => e[Place(pos + 1, k, size)] = whole[(total + 1) + 1 - k]
  BY <1>4
<1> QED
  BY <1>2, <1>5 DEF Holds, e

\* A byte that is copied from dist bytes before.
LEMMA CopyByteKeeps ==
  ASSUME NEW pos \in Nat, NEW total \in Nat, NEW dic, NEW whole, NEW dist \in Nat, d.dicBufSize \in Nat,
         pos < d.dicBufSize, 1 <= dist, dist <= total, dist <= d.dicBufSize,
         whole[total + 1] = whole[total + 1 - dist], Holds(dic, pos, d.dicBufSize, total, whole)
  PROVE  Holds(CopyByte(dic, pos, dist), pos + 1, d.dicBufSize, total + 1, whole)
<1>1. PICK size \in Nat : size = d.dicBufSize
  OBVIOUS
<1>2. dic \in [0 .. size - 1 -> Nat] /\ dic[Place(pos, dist, size)] = whole[total + 1 - dist]
  BY <1>1 DEF Holds
<1>3. Place(pos, dist, size) \in 0 .. size - 1
  BY <1>1 DEF Place
<1>4. Back(pos, dist) = Place(pos, dist, size)
  BY <1>1 DEF Place, Back
<1>5. PICK v \in Nat : v = dic[Back(pos, dist)]
  BY <1>2, <1>3, <1>4
<1>6. v = whole[total + 1]
  BY <1>2, <1>4, <1>5
<1>7. CopyByte(dic, pos, dist) = [dic EXCEPT ![pos] = v]
  BY <1>5 DEF CopyByte
<1>8. Holds([dic EXCEPT ![pos] = v], pos + 1, size, total + 1, whole)
  BY <1>1, <1>6, ByteKeeps
<1> QED
  BY <1>1, <1>7, <1>8

\* A copy of n bytes within the dictionary continues the output.
LEMMA CopyKeeps ==
  ASSUME NEW pos \in Nat, NEW total \in Nat, NEW dic, NEW whole, NEW dist \in Nat, NEW n \in Nat, d.dicBufSize \in Nat,
         pos + n <= d.dicBufSize, 1 <= dist, dist <= total, dist <= d.dicBufSize,
         \A j \in total + 1 .. total + n : whole[j] = whole[j - dist],
         Holds(dic, pos, d.dicBufSize, total, whole)
  PROVE  Holds(CopyBytes(dic, pos, dist, n), pos + n, d.dicBufSize, total + n, whole)
<1> DEFINE T == {k \in Nat : k <= n => Holds(CopyBytes(dic, pos, dist, k), pos + k, d.dicBufSize, total + k, whole)}
<1>1. 0 \in T
  <2>1. CopyBytes(dic, pos, dist, 0) = dic /\ pos + 0 = pos /\ total + 0 = total
    <3>1. CopyBytes(dic, pos, dist, 0) = dic
      BY CopySteps, Zenon
    <3> QED
      BY <3>1
  <2> QED
    BY <2>1
<1>2. ASSUME NEW k \in Nat, k \in T PROVE k + 1 \in T
  <2>1. SUFFICES ASSUME k + 1 <= n
                 PROVE  Holds(CopyBytes(dic, pos, dist, k + 1), pos + (k + 1), d.dicBufSize, total + (k + 1), whole)
    OBVIOUS
  <2> DEFINE c == CopyBytes(dic, pos, dist, k)
  <2>2. Holds(c, pos + k, d.dicBufSize, total + k, whole)
    BY <2>1, <1>2
  <2>3. CopyBytes(dic, pos, dist, k + 1) = CopyByte(c, pos + k, dist)
    BY CopySteps
  <2> HIDE DEF c, T
  <2>4. PICK p \in Nat, t \in Nat : p = pos + k /\ t = total + k
    OBVIOUS
  <2>5. p < d.dicBufSize /\ dist <= t /\ t + 1 \in total + 1 .. total + n
    BY <2>1, <2>4
  <2>6. whole[t + 1] = whole[t + 1 - dist]
    BY <2>5
  <2>7. Holds(c, p, d.dicBufSize, t, whole)
    BY <2>2, <2>4
  <2>8. Holds(CopyByte(c, p, dist), p + 1, d.dicBufSize, t + 1, whole)
    BY <2>5, <2>6, <2>7, CopyByteKeeps
  <2>9. p + 1 = pos + (k + 1) /\ t + 1 = total + (k + 1)
    BY <2>4
  <2> QED
    BY <2>3, <2>4, <2>8, <2>9
<1> HIDE DEF T
<1>3. n \in T
  BY <1>1, <1>2, EveryNumber
<1> QED
  BY <1>3 DEF T

\* The dictionary holds what an output stands for that only grew.
LEMMA HoldsLonger ==
  ASSUME NEW size \in Nat, NEW pos, NEW total \in Nat, NEW dic, NEW whole, NEW longer,
         \A k \in 1 .. total : longer[k] = whole[k], Holds(dic, pos, size, total, whole)
  PROVE  Holds(dic, pos, size, total, longer)
<1>1. ASSUME NEW k \in 1 .. size, k <= total PROVE dic[Place(pos, k, size)] = longer[total + 1 - k]
  <2>1. total + 1 - k \in 1 .. total
    BY <1>1
  <2>2. dic[Place(pos, k, size)] = whole[total + 1 - k]
    BY <1>1 DEF Holds
  <2> QED
    BY <2>1, <2>2
<1> QED
  BY <1>1 DEF Holds

\* What CopyMatch changes of the decoder.
CopyOf(dec, dist, n, e) ==
  /\ e \in Decoders
  /\ e.dic = CopyBytes(dec.dic, dec.dicPos, dist, n) /\ e.dicPos = dec.dicPos + n
  /\ e.processedPos = (dec.processedPos + n) % W /\ e.total = dec.total + n
  /\ e.remainLen = dec.remainLen /\ e.tempBuf = dec.tempBuf /\ e.checkDicSize = dec.checkDicSize
  /\ e.dicBufSize = dec.dicBufSize /\ e.sym = dec.sym /\ e.reps = dec.reps /\ e.afterMatch = dec.afterMatch

\* The fields of a decoder.
LEMMA DecoderFields ==
  ASSUME NEW dec \in Decoders
  PROVE  /\ dec.remainLen \in Nat /\ dec.tempBuf \in Seq(Nat) /\ dec.processedPos \in Nat
         /\ dec.checkDicSize \in Nat /\ dec.dicPos \in Nat /\ dec.dicBufSize \in Nat /\ dec.dic \in AnyDic
         /\ dec.sym \in Nat /\ dec.reps \in Seq(Nat) /\ dec.afterMatch \in BOOLEAN /\ dec.total \in Nat
BY DEF Decoders

\* A dictionary that holds output has the type of one.
LEMMA HoldsIsDic ==
  ASSUME NEW dic, NEW pos, NEW size \in Nat, NEW total, NEW whole, Holds(dic, pos, size, total, whole)
  PROVE  dic \in AnyDic
BY DEF Holds, AnyDic

\* processedPos is below W, and is the number of bytes while that is.
LEMMA Wraps ==
  ASSUME NEW a \in Nat
  PROVE  a % W \in Nat /\ a % W < W /\ (a < W => a % W = a)
<1>1. W \in Nat /\ DicSize \in Nat /\ W > DicSize
  BY LzmaDecAssumption, DecoderCallsAssumption
<1>2. PICK w \in Nat : w = W /\ w > 0
  BY <1>1
<1>3. a % w \in Nat /\ a % w < w /\ (a < w => a % w = a)
  BY <1>2
<1> QED
  BY <1>2, <1>3

\* What CopyMatch changes of the decoder.
LEMMA CopyFields ==
  ASSUME NEW dec \in Decoders, NEW dist, NEW n \in Nat,
         CopyBytes(dec.dic, dec.dicPos, dist, n) \in AnyDic
  PROVE  CopyOf(dec, dist, n, CopyMatch(dec, dist, n))
<1> DEFINE dic == CopyBytes(dec.dic, dec.dicPos, dist, n)
           e   == CopyMatch(dec, dist, n)
<1>1. e = [dec EXCEPT !.dic = dic, !.dicPos = @ + n, !.processedPos = (@ + n) % W, !.total = @ + n]
  BY DEF CopyMatch
<1>2. PICK p \in Nat : p = (dec.processedPos + n) % W
  <2>1. PICK a \in Nat : a = dec.processedPos + n
    BY DecoderFields
  <2> QED
    BY <2>1, Wraps
<1>3. PICK q \in Nat, t \in Nat : q = dec.dicPos + n /\ t = dec.total + n
  BY DecoderFields
<1> HIDE DEF e, dic
<1>4. e = [dec EXCEPT !.dic = dic, !.dicPos = q, !.processedPos = p, !.total = t]
  BY <1>1, <1>2, <1>3, Zenon
<1>5. dic \in AnyDic
  BY DEF dic
<1>6. e \in Decoders
  BY <1>4, <1>5 DEF Decoders
<1>7. /\ e.dic = dic /\ e.dicPos = q /\ e.processedPos = p /\ e.total = t
      /\ e.remainLen = dec.remainLen /\ e.tempBuf = dec.tempBuf /\ e.checkDicSize = dec.checkDicSize
      /\ e.dicBufSize = dec.dicBufSize /\ e.sym = dec.sym /\ e.reps = dec.reps /\ e.afterMatch = dec.afterMatch
  BY <1>4 DEF Decoders
<1> QED
  BY <1>2, <1>3, <1>6, <1>7 DEF CopyOf, e, dic

\* Products grow with their factors.
LEMMA TimesMonotone ==
  ASSUME NEW a \in Nat, NEW b \in Nat, NEW c \in Nat, a <= b
  PROVE  a * c <= b * c /\ c * a <= c * b
OBVIOUS

\* What division and remainder are.
LEMMA DivMod ==
  ASSUME NEW a \in Nat, NEW m \in Nat, m > 0
  PROVE  a \div m \in Nat /\ (a % m) \in 0 .. m - 1 /\ a = m * (a \div m) + (a % m)
OBVIOUS

\* A remainder is determined by being below the divisor.
LEMMA ModUnique ==
  ASSUME NEW q \in Nat, NEW m \in Nat, NEW e \in Nat, e < m
  PROVE  ((m * q + e) % m) = e
<1> DEFINE a == m * q + e
           x == a \div m
           y == a % m
<1>1. a \in Nat /\ m > 0
  OBVIOUS
<1>2. x \in Nat /\ y \in 0 .. m - 1 /\ a = m * x + y
  BY <1>1, DivMod
<1>3. ~(x >= q + 1)
  <2>1. x >= q + 1 => m * (q + 1) <= m * x
    BY <1>2, TimesMonotone
  <2> QED
    BY <2>1, <1>2
<1>4. ~(q >= x + 1)
  <2>1. q >= x + 1 => m * (x + 1) <= m * q
    BY <1>2, TimesMonotone
  <2> QED
    BY <2>1, <1>2
<1> QED
  BY <1>2, <1>3, <1>4

\* A number that wraps may be wrapped before more is added.
LEMMA WrapsTwice ==
  ASSUME NEW a \in Nat, NEW n \in Nat
  PROVE  ((a % W) + n) % W = (a + n) % W
<1>1. W \in Nat /\ W > 0
  BY LzmaDecAssumption, DecoderCallsAssumption
<1>2. PICK q \in Nat, r \in Nat : q = a \div W /\ r = a % W
  BY <1>1, DivMod
<1>3. a = W * q + r
  BY <1>1, <1>2, DivMod
<1>4. PICK p \in Nat, e \in Nat : p = (r + n) \div W /\ e = (r + n) % W
  BY <1>1, DivMod
<1>5. r + n = W * p + e /\ e < W
  BY <1>1, <1>4, DivMod
<1>6. PICK s \in Nat : s = q + p
  OBVIOUS
<1>7. a + n = W * s + e
  <2>1. W * s = W * q + W * p
    BY <1>1, <1>6
  <2> QED
    BY <2>1, <1>1, <1>3, <1>5
<1>8. (W * s + e) % W = e
  BY <1>1, <1>5, ModUnique
<1> QED
  BY <1>2, <1>4, <1>7, <1>8, Zenon

\* processedPos counts on although it wraps.
LEMMA OneMore ==
  ASSUME NEW a \in Nat
  PROVE  ((a % W) + 1) % W = (a + 1) % W
BY WrapsTwice
-----------------------------------------------------------------------------
(* The dictionary and what is owed                                         *)

\* Data, with numbers for the lengths.
LEMMA DataFacts ==
  ASSUME NEW dec, NEW whole, NEW owed \in Nat, Data(dec, whole, owed)
  PROVE  /\ dec \in Decoders /\ whole \in Seq(Nat)
         /\ dec.total \in Nat /\ dec.dicPos \in Nat /\ dec.dicBufSize \in Nat
         /\ Len(whole) = dec.total + owed /\ dec.dicPos <= dec.dicBufSize
         /\ DicSize <= dec.dicBufSize \/ dec.total = dec.dicPos
         /\ Holds(dec.dic, dec.dicPos, dec.dicBufSize, dec.total, whole)
         /\ owed > 0 => /\ dec.reps[1] \in Nat /\ 1 <= dec.reps[1] /\ dec.reps[1] <= dec.total
                        /\ dec.reps[1] <= DicSize /\ dec.reps[1] <= dec.dicBufSize
                        /\ \A j \in dec.total + 1 .. dec.total + owed : whole[j] = whole[j - dec.reps[1]]
<1>1. /\ dec \in Decoders /\ whole \in Seq(Nat) /\ Len(whole) = dec.total + owed
      /\ Fits(dec) /\ Repeats(dec, whole) /\ Holds(dec.dic, dec.dicPos, dec.dicBufSize, dec.total, whole)
  BY DEF Data
<1>2. dec.total \in Nat /\ dec.dicPos \in Nat /\ dec.dicBufSize \in Nat /\ DicSize \in Nat
  BY <1>1, DecoderFields, DecoderCallsAssumption
<1>3. dec.dicPos <= dec.dicBufSize /\ (DicSize <= dec.dicBufSize \/ dec.total = dec.dicPos)
  BY <1>1 DEF Fits
<1>4. ASSUME owed > 0
      PROVE  /\ dec.reps[1] \in Nat /\ 1 <= dec.reps[1] /\ dec.reps[1] <= dec.total
             /\ dec.reps[1] <= DicSize /\ dec.reps[1] <= dec.dicBufSize
             /\ \A j \in dec.total + 1 .. dec.total + owed : whole[j] = whole[j - dec.reps[1]]
  <2>1. dec.total < Len(whole)
    BY <1>1, <1>2, <1>4
  <2>2. dec.reps[1] \in 1 .. Smaller(dec.total, DicSize)
    BY <1>1, <2>1 DEF Repeats
  <2>3. \A j \in dec.total + 1 .. Len(whole) : whole[j] = whole[j - dec.reps[1]]
    BY <1>1, <2>1 DEF Repeats
  <2>4. Smaller(dec.total, DicSize) \in Nat /\ Smaller(dec.total, DicSize) <= dec.total /\ Smaller(dec.total, DicSize) <= DicSize
    BY <1>2 DEF Smaller
  <2>5. PICK r \in Nat : r = dec.reps[1] /\ 1 <= r /\ r <= Smaller(dec.total, DicSize)
    BY <2>2, <2>4
  <2>6. 1 <= r /\ r <= dec.total /\ r <= DicSize /\ r <= dec.dicBufSize
    BY <2>4, <2>5, <1>2, <1>3
  <2>7. \A j \in dec.total + 1 .. dec.total + owed : whole[j] = whole[j - dec.reps[1]]
    BY <2>3, <1>1
  <2> QED
    BY <2>5, <2>6, <2>7
<1> QED
  BY <1>1, <1>2, <1>3, <1>4

\* n bytes of the last match are written.
LEMMA CopyData ==
  ASSUME NEW dec, NEW whole, NEW owed \in Nat, Data(dec, whole, owed), dec.dicBufSize = d.dicBufSize,
         NEW n \in Nat, n <= owed, dec.dicPos + n <= dec.dicBufSize
  PROVE  /\ CopyOf(dec, dec.reps[1], n, CopyMatch(dec, dec.reps[1], n))
         /\ Data(CopyMatch(dec, dec.reps[1], n), whole, owed - n)
<1> DEFINE dist == dec.reps[1]
           dic  == CopyBytes(dec.dic, dec.dicPos, dist, n)
           e    == CopyMatch(dec, dist, n)
<1>1. PICK pos \in Nat, total \in Nat, size \in Nat :
         pos = dec.dicPos /\ total = dec.total /\ size = dec.dicBufSize
  BY DataFacts
<1>2. /\ dec \in Decoders /\ whole \in Seq(Nat) /\ Len(whole) = total + owed
      /\ pos <= size /\ (DicSize <= size \/ total = pos) /\ Holds(dec.dic, pos, size, total, whole)
  BY <1>1, DataFacts
<1>3. owed > 0 => /\ dist \in Nat /\ 1 <= dist /\ dist <= total /\ dist <= DicSize /\ dist <= size
                  /\ \A j \in total + 1 .. total + owed : whole[j] = whole[j - dist]
  BY <1>1, DataFacts
<1>4. Holds(dic, pos + n, size, total + n, whole)
  <2>1. CASE n = 0
    <3>1. CopyBytes(dec.dic, dec.dicPos, dist, 0) = dec.dic
      BY <1>1, CopySteps, Zenon
    <3>2. pos + n = pos /\ total + n = total /\ dic = dec.dic
      BY <2>1, <3>1
    <3> QED
      BY <3>2, <1>2
  <2>2. CASE n # 0
    <3>1. owed > 0
      BY <2>2
    <3>2. PICK r \in Nat : r = dist /\ 1 <= r /\ r <= total /\ r <= size
      BY <3>1, <1>3
    <3>3. \A j \in total + 1 .. total + n : whole[j] = whole[j - r]
      BY <3>1, <3>2, <1>3
    <3>4. Holds(CopyBytes(dec.dic, pos, r, n), pos + n, d.dicBufSize, total + n, whole)
      BY <3>2, <3>3, <1>1, <1>2, CopyKeeps
    <3> QED
      BY <3>2, <3>4, <1>1
  <2> QED
    BY <2>1, <2>2
<1>5. dic \in AnyDic
  BY <1>4, HoldsIsDic
<1>6. CopyOf(dec, dist, n, e)
  BY <1>2, <1>5, CopyFields
<1> HIDE DEF e, dic, dist
<1>7. /\ e \in Decoders /\ e.dic = dic /\ e.dicPos = pos + n /\ e.total = total + n
      /\ e.dicBufSize = size /\ e.reps = dec.reps
  BY <1>1, <1>6 DEF CopyOf, dic, dist
<1>8. DicSize \in Nat
  BY DecoderCallsAssumption
<1>9. Fits(e)
  BY <1>1, <1>2, <1>7, <1>8 DEF Fits
<1>10. Len(whole) = e.total + (owed - n)
  BY <1>2, <1>7
<1>11. Repeats(e, whole)
  <2>1. SUFFICES ASSUME total + n < total + owed
                 PROVE  /\ dist \in 1 .. Smaller(total + n, DicSize)
                        /\ \A j \in total + n + 1 .. total + owed : whole[j] = whole[j - dist]
    BY <1>2, <1>7 DEF Repeats, dist
  <2>2. owed > 0
    BY <2>1
  <2>3. dist \in 1 .. Smaller(total + n, DicSize)
    BY <2>2, <1>3, <1>8 DEF Smaller
  <2>4. \A j \in total + n + 1 .. total + owed : whole[j] = whole[j - dist]
    BY <2>2, <1>3
  <2> QED
    BY <2>3, <2>4
<1>12. Holds(e.dic, e.dicPos, e.dicBufSize, e.total, whole)
  BY <1>4, <1>7
<1>13. e.total + (owed - n) = Len(whole)
  BY <1>10
<1>14. Data(e, whole, owed - n)
  BY <1>2, <1>7, <1>9, <1>11, <1>12, <1>13 DEF Data
<1> QED
  BY <1>6, <1>14 DEF e, dist

\* A match is decoded: all of it is owed.
LEMMA MatchData ==
  ASSUME NEW o, Data(d, o, 0), NEW dist \in Nat, 1 <= dist, dist <= Len(o), dist <= DicSize, NEW len \in Nat,
         NEW e \in Decoders, e.reps[1] = dist, e.dic = d.dic, e.dicPos = d.dicPos, e.dicBufSize = d.dicBufSize,
         e.total = d.total
  PROVE  /\ Data(e, Copied(o, dist, len), len)
         /\ \A k \in 1 .. Len(o) : Copied(o, dist, len)[k] = o[k]
<1> DEFINE c == Copied(o, dist, len)
<1>1. PICK pos \in Nat, total \in Nat, size \in Nat : pos = d.dicPos /\ total = d.total /\ size = d.dicBufSize
  BY DataFacts
<1>2. /\ o \in Seq(Nat) /\ Len(o) = total
      /\ pos <= size /\ (DicSize <= size \/ total = pos) /\ Holds(d.dic, pos, size, total, o)
  BY <1>1, DataFacts
<1>3. DicSize \in Nat
  BY DecoderCallsAssumption
<1>4. dist \in 1 .. total
  BY <1>2
<1>5. CopiedIs(o, total, dist, len, c)
  BY <1>2, <1>4, CopiedFacts
<1> HIDE DEF c
<1>6. /\ c \in Seq(Nat) /\ Len(c) = total + len
      /\ \A k \in 1 .. total : c[k] = o[k]
      /\ \A k \in total + 1 .. total + len : c[k] = c[k - dist]
  BY <1>5 DEF CopiedIs
<1>7. Holds(d.dic, pos, size, total, c)
  <2>1. \A k \in 1 .. total : c[k] = o[k]
    BY <1>6
  <2>2. Holds(d.dic, pos, size, total, o)
    BY <1>2
  <2>3. PICK g : g = d.dic
    OBVIOUS
  <2> QED
    BY <2>1, <2>2, <2>3, HoldsLonger
<1>8. Fits(e)
  BY <1>1, <1>2 DEF Fits
<1>9. Repeats(e, c)
  <2>1. dist \in 1 .. Smaller(total, DicSize)
    BY <1>3, <1>4 DEF Smaller
  <2> QED
    BY <2>1, <1>1, <1>6 DEF Repeats
<1>10. Data(e, c, len)
  BY <1>1, <1>6, <1>7, <1>8, <1>9 DEF Data
<1> QED
  BY <1>2, <1>6, <1>10 DEF c

\* A literal is written.
LEMMA LitData ==
  ASSUME NEW o, Data(d, o, 0), NEW v \in Nat, d.dicPos < d.dicBufSize,
         NEW e \in Decoders, e.dic = [d.dic EXCEPT ![d.dicPos] = v], e.dicPos = d.dicPos + 1,
         e.dicBufSize = d.dicBufSize, e.total = d.total + 1
  PROVE  Data(e, Append(o, v), 0)
<1> DEFINE c == Append(o, v)
<1>1. PICK pos \in Nat, total \in Nat, size \in Nat : pos = d.dicPos /\ total = d.total /\ size = d.dicBufSize
  BY DataFacts
<1>2. /\ o \in Seq(Nat) /\ Len(o) = total
      /\ pos <= size /\ (DicSize <= size \/ total = pos) /\ Holds(d.dic, pos, size, total, o)
  BY <1>1, DataFacts
<1>3. DicSize \in Nat
  BY DecoderCallsAssumption
<1>4. /\ c \in Seq(Nat) /\ Len(c) = total + 1
      /\ \A k \in 1 .. total : c[k] = o[k]
      /\ c[total + 1] = v
  BY <1>2, NatAppend
<1> HIDE DEF c
<1>5. Holds(d.dic, pos, size, total, c)
  <2>1. \A k \in 1 .. total : c[k] = o[k]
    BY <1>4
  <2>2. Holds(d.dic, pos, size, total, o)
    BY <1>2
  <2>3. PICK g : g = d.dic
    OBVIOUS
  <2> QED
    BY <2>1, <2>2, <2>3, HoldsLonger
<1>6. Holds([d.dic EXCEPT ![pos] = v], pos + 1, size, total + 1, c)
  <2>1. PICK g : g = d.dic
    OBVIOUS
  <2>2. pos < size /\ v = c[total + 1] /\ Holds(g, pos, size, total, c)
    BY <1>1, <1>4, <1>5, <2>1
  <2>3. Holds([g EXCEPT ![pos] = v], pos + 1, size, total + 1, c)
    BY <2>2, ByteKeeps
  <2> QED
    BY <2>1, <2>3
<1>7. Fits(e)
  BY <1>1, <1>2, <1>3 DEF Fits
<1>8. Repeats(e, c)
  BY <1>1, <1>4 DEF Repeats
<1>9. Holds(e.dic, e.dicPos, e.dicBufSize, e.total, c)
  BY <1>1, <1>6
<1>10. e.total + 0 = Len(c)
  BY <1>1, <1>4
<1>11. Data(e, c, 0)
  BY <1>4, <1>7, <1>8, <1>9, <1>10 DEF Data
<1> QED
  BY <1>11 DEF c
-----------------------------------------------------------------------------
(* The decoder between two symbols                                         *)

\* A decoder that differs only in what it keeps of the input and in remainLen.
Alike(e, b) ==
  /\ e \in Decoders
  /\ e.dic = b.dic /\ e.dicPos = b.dicPos /\ e.dicBufSize = b.dicBufSize /\ e.total = b.total
  /\ e.sym = b.sym /\ e.reps = b.reps /\ e.afterMatch = b.afterMatch

\* Core depends only on the fields that Alike compares.
LEMMA CoreAlike ==
  ASSUME NEW b, NEW owed, Core(b, owed), NEW e, Alike(e, b)
  PROVE  Core(e, owed)
<1>1. Data(e, Ref(b.sym).out, owed)
  BY DEF Core, Alike, Data, Fits, Repeats
<1> QED
  BY <1>1 DEF Core, Alike

\* The types, from the invariant.
LEMMA TypeFacts ==
  ASSUME LzInv
  PROVE  /\ stream \in Streams /\ d \in Decoders /\ call \in CallTypes /\ real \in RealTypes /\ last \in LastTypes
         /\ pc \in {"idle", "buf", "dic", "loop", "real", "after", "ret", "over"}
         /\ fed \in Nat /\ out \in Seq(Nat)
BY DEF LzInv, TypesInv

\* Core and Checks, from the invariant.
LEMMA CoreNow ==
  ASSUME LzInv
  PROVE  Core(d, Owed(Level)) /\ (pc # "after" => Checks(d))
BY DEF LzInv, CoreInv, CheckInv

\* What Core says, with numbers for the lengths.
LEMMA CoreFacts ==
  ASSUME stream \in Streams, NEW b, NEW owed \in Nat, Core(b, owed)
  PROVE  /\ b \in Decoders /\ b.sym \in Nat /\ b.sym <= NumSyms /\ NumSyms \in Nat
         /\ RefIs(Ref(b.sym), b.sym)
         /\ Ref(b.sym).out \in Seq(Nat) /\ Len(Ref(b.sym).out) = b.total + owed
         /\ b.total \in Nat /\ b.dicPos \in Nat /\ b.dicBufSize \in Nat /\ b.dicPos <= b.dicBufSize
         /\ Data(b, Ref(b.sym).out, owed)
<1>1. b \in Decoders /\ b.sym \in Nat /\ b.sym <= NumSyms /\ NumSyms \in Nat /\ Data(b, Ref(b.sym).out, owed)
  BY DecoderFields, StreamFacts DEF Core
<1>2. RefIs(Ref(b.sym), b.sym)
  BY <1>1, RefFacts
<1>3. PICK o : o = Ref(b.sym).out
  OBVIOUS
<1>4. Data(b, o, owed)
  BY <1>1, <1>3
<1>5. /\ o \in Seq(Nat) /\ b.total \in Nat /\ b.dicPos \in Nat /\ b.dicBufSize \in Nat
      /\ Len(o) = b.total + owed /\ b.dicPos <= b.dicBufSize
  BY <1>4, DataFacts
<1> QED
  BY <1>1, <1>2, <1>3, <1>5

\* The rest of a match that the round of DecodeToDic copies first.
RestIs(n) ==
  /\ n <= d.remainLen /\ d.dicPos + n <= call.dicLimit
  /\ n = d.remainLen \/ d.dicPos + n = call.dicLimit
  /\ Core(Rest, d.remainLen - n) /\ Checks(Rest)
  /\ Rest \in Decoders /\ Rest.remainLen = d.remainLen - n /\ Rest.dicPos = d.dicPos + n /\ Rest.total = d.total + n
  /\ Rest.tempBuf = d.tempBuf /\ Rest.dicBufSize = d.dicBufSize /\ Rest.sym = d.sym

\* What the rest of a match, written first in a round, does to the decoder.
LEMMA RestFacts ==
  ASSUME LzInv, Round
  PROVE  \E n \in Nat : RestIs(n)
<1>1. /\ d \in Decoders /\ call \in CallTypes /\ pc = "loop" /\ d.remainLen # kMatchSpecLenStart
      /\ stream \in Streams
  BY TypeFacts DEF Round
<1>2. d.remainLen \in Nat /\ d.remainLen < kMatchSpecLenStart
  BY <1>1, DecoderFields DEF LzInv, LevelInv, kMatchSpecLenStart
<1>3. Owed(Level) = d.remainLen
  BY <1>1, <1>2 DEF Owed, Level, InReal
<1>4. Core(d, d.remainLen) /\ Checks(d)
  BY <1>1, <1>3, CoreNow
<1>5. PICK pos \in Nat, limit \in Nat, rem \in Nat, total \in Nat, size \in Nat :
        /\ pos = d.dicPos /\ limit = call.dicLimit /\ rem = d.remainLen /\ total = d.total /\ size = d.dicBufSize
  BY <1>1, DecoderFields DEF CallTypes
<1>6. pos <= limit /\ limit <= size
  BY <1>1, <1>5 DEF LzInv, CallInv, InDic
<1>7. PICK n \in Nat : n = Smaller(limit - pos, rem)
  BY <1>6 DEF Smaller
<1>8. n <= rem /\ pos + n <= limit /\ (n = rem \/ pos + n = limit)
  BY <1>6, <1>7 DEF Smaller
<1>9. Rest = IF n = 0 THEN d
             ELSE [CopyMatch(d, d.reps[1], n) EXCEPT
                     !.remainLen = @ - n,
                     !.checkDicSize = IF d.checkDicSize = 0 /\ DicSize - d.processedPos <= n THEN DicSize ELSE @]
  BY <1>5, <1>7 DEF Rest, WriteRem
<1>10. CASE n = 0
  <2>1. Rest = d
    BY <1>9, <1>10
  <2>2. rem - n = rem /\ pos + n = pos /\ total + n = total
    BY <1>10
  <2> QED
    BY <2>1, <2>2, <1>1, <1>4, <1>5, <1>8 DEF RestIs
<1>11. CASE n # 0
  <2> DEFINE o == Ref(d.sym).out
             c == CopyMatch(d, d.reps[1], n)
  <2>1. Data(d, o, rem) /\ d.dicPos + n <= d.dicBufSize
    BY <1>4, <1>5, <1>6, <1>8 DEF Core
  <2> HIDE DEF o
  <2>2. CopyOf(d, d.reps[1], n, c) /\ Data(c, o, rem - n)
    BY <2>1, <1>8, CopyData
  <2> HIDE DEF c
  <2>3. /\ c \in Decoders /\ c.dicPos = pos + n /\ c.total = total + n /\ c.processedPos = (d.processedPos + n) % W
        /\ c.remainLen = rem /\ c.tempBuf = d.tempBuf /\ c.checkDicSize = d.checkDicSize
        /\ c.dicBufSize = d.dicBufSize /\ c.sym = d.sym /\ c.reps = d.reps /\ c.afterMatch = d.afterMatch
    BY <2>2, <1>5 DEF CopyOf
  <2> DEFINE check == IF d.checkDicSize = 0 /\ DicSize - d.processedPos <= n THEN DicSize ELSE d.checkDicSize
             e     == [c EXCEPT !.remainLen = rem - n, !.checkDicSize = check]
  <2>4. Rest = e
    BY <2>3, <1>9, <1>11 DEF c
  <2>5. DicSize \in Nat /\ DicSize > 0 /\ W \in Nat /\ DicSize < W /\ d.checkDicSize \in Nat /\ d.processedPos \in Nat
    BY <1>1, DecoderFields, DecoderCallsAssumption, LzmaDecAssumption
  <2>6. check \in Nat /\ rem - n \in Nat
    BY <2>5, <1>8
  <2>7. /\ total < DicSize => d.checkDicSize = 0 /\ d.processedPos = total
        /\ total >= DicSize => d.checkDicSize = DicSize /\ d.processedPos = total % W
    BY <1>4, <1>5 DEF Checks
  <2>8. /\ total + n < DicSize => check = 0
        /\ total + n >= DicSize => check = DicSize
    BY <2>5, <2>7
  <2> HIDE DEF check
  <2>9. /\ e \in Decoders /\ e.remainLen = rem - n /\ e.checkDicSize = check
        /\ e.dic = c.dic /\ e.dicPos = c.dicPos /\ e.dicBufSize = c.dicBufSize /\ e.total = c.total
        /\ e.sym = c.sym /\ e.reps = c.reps /\ e.afterMatch = c.afterMatch /\ e.tempBuf = c.tempBuf
        /\ e.processedPos = c.processedPos
    BY <2>3, <2>6 DEF Decoders
  <2> HIDE DEF e
  <2>10. (d.processedPos + n) % W = (total + n) % W
    <3>1. CASE total < DicSize
      BY <3>1, <2>7
    <3>2. CASE ~(total < DicSize)
      <4>1. d.processedPos = total % W
        BY <3>2, <2>5, <2>7
      <4> QED
        BY <4>1, WrapsTwice
    <3> QED
      BY <3>1, <3>2
  <2>11. e.processedPos = (total + n) % W /\ e.total = total + n
    BY <2>3, <2>9, <2>10
  <2>12. total + n < DicSize => (total + n) % W = total + n
    <3>1. total + n \in Nat /\ (total + n < DicSize => total + n < W)
      BY <2>5
    <3> QED
      BY <3>1, Wraps
  <2>13. Checks(e)
    <3>1. PICK t \in Nat : t = total + n
      OBVIOUS
    <3>2. e.total = t /\ e.processedPos = t % W /\ e.checkDicSize = check
      BY <3>1, <2>9, <2>11
    <3>3. (t < DicSize => check = 0 /\ t % W = t) /\ (t >= DicSize => check = DicSize)
      BY <3>1, <2>8, <2>12
    <3> QED
      BY <3>2, <3>3 DEF Checks
  <2>14. Core(c, rem - n)
    <3>1. Core(d, rem)
      BY <1>4, <1>5
    <3> QED
      BY <3>1, <2>2, <2>3 DEF Core, o
  <2>15. Alike(e, c)
    BY <2>9 DEF Alike
  <2>16. Core(e, rem - n)
    BY <2>14, <2>15, CoreAlike
  <2> QED
    BY <2>3, <2>4, <2>9, <2>13, <2>16, <1>5, <1>8 DEF RestIs
<1> QED
  BY <1>10, <1>11
-----------------------------------------------------------------------------
(* Bytes of the stream                                                     *)

\* A part of consecutive bytes is consecutive.
LEMMA PartConsecutive ==
  ASSUME NEW s \in Seq(Nat), NEW from \in Int, Consecutive(s, from), NEW a \in Nat, NEW b \in Nat, a <= b, b <= Len(s)
  PROVE  /\ SubSeq(s, a + 1, b) \in Seq(Nat) /\ Len(SubSeq(s, a + 1, b)) = b - a
         /\ Consecutive(SubSeq(s, a + 1, b), from + a)
<1>1. PICK m \in Nat : m = a + 1
  OBVIOUS
<1>2. 1 <= m /\ m <= b + 1
  BY <1>1
<1> DEFINE t == SubSeq(s, m, b)
<1>3. t \in Seq(Nat) /\ Len(t) = b + 1 - m /\ \A k \in 1 .. b + 1 - m : t[k] = s[m - 1 + k]
  BY <1>2, NatPart, Zenon
<1> HIDE DEF t
<1>4. PICK l \in Nat : l = Len(s)
  BY NatSeq
<1>5. \A k \in 1 .. l : s[k] = from + k
  BY <1>4 DEF Consecutive
<1>6. Len(t) = b - a
  BY <1>1, <1>3
<1>7. ASSUME NEW k \in 1 .. b - a PROVE t[k] = (from + a) + k
  <2>1. PICK j \in Nat : j = m - 1 + k
    BY <1>1
  <2>2. k \in 1 .. b + 1 - m /\ j \in 1 .. l /\ from + j = (from + a) + k
    BY <2>1, <1>1, <1>4
  <2>3. t[k] = s[j]
    BY <2>1, <2>2, <1>3
  <2>4. s[j] = from + j
    BY <2>2, <1>5
  <2> QED
    BY <2>2, <2>3, <2>4
<1>8. Consecutive(t, from + a)
  BY <1>6, <1>7 DEF Consecutive
<1>9. t = SubSeq(s, a + 1, b)
  BY <1>1 DEF t
<1> QED
  BY <1>3, <1>6, <1>8, <1>9

\* Consecutive bytes behind consecutive bytes are.
LEMMA BothConsecutive ==
  ASSUME NEW s \in Seq(Nat), NEW t \in Seq(Nat), NEW from \in Int, NEW l \in Nat, l = Len(s),
         Consecutive(s, from), Consecutive(t, from + l)
  PROVE  s \o t \in Seq(Nat) /\ Len(s \o t) = l + Len(t) /\ Consecutive(s \o t, from)
<1>1. PICK m \in Nat : m = Len(t)
  BY NatSeq
<1>2. /\ s \o t \in Seq(Nat) /\ Len(s \o t) = Len(s) + Len(t)
      /\ \A k \in 1 .. Len(s) : (s \o t)[k] = s[k]
      /\ \A k \in 1 .. Len(t) : (s \o t)[Len(s) + k] = t[k]
  BY NatConcat
<1> DEFINE c == s \o t
<1>3. c \in Seq(Nat) /\ Len(c) = l + m /\ (\A k \in 1 .. l : c[k] = s[k]) /\ (\A k \in 1 .. m : c[l + k] = t[k])
  BY <1>1, <1>2
<1> HIDE DEF c
<1>4. (\A k \in 1 .. l : s[k] = from + k) /\ (\A k \in 1 .. m : t[k] = (from + l) + k)
  BY <1>1 DEF Consecutive
<1>5. ASSUME NEW k \in 1 .. l + m PROVE c[k] = from + k
  <2>1. CASE k <= l
    <3>1. k \in 1 .. l
      BY <2>1
    <3> QED
      BY <3>1, <1>3, <1>4
  <2>2. CASE ~(k <= l)
    <3>1. PICK j \in Nat : j = k - l
      BY <2>2
    <3>2. j \in 1 .. m /\ l + j = k /\ (from + l) + j = from + k
      BY <2>2, <3>1
    <3> QED
      BY <3>2, <1>3, <1>4
  <2> QED
    BY <2>1, <2>2
<1>6. Consecutive(c, from)
  BY <1>3, <1>5 DEF Consecutive
<1> QED
  BY <1>1, <1>3, <1>6 DEF c

\* No bytes are consecutive from anywhere.
LEMMA NoneConsecutive ==
  ASSUME NEW from
  PROVE  <<>> \in Seq(Nat) /\ Len(<<>>) = 0 /\ Consecutive(<<>>, from)
<1>1. <<>> \in Seq(Nat) /\ Len(<<>>) = 0
  BY EmptySeq
<1> QED
  BY <1>1 DEF Consecutive

\* The fields of a call.
LEMMA CallFields ==
  ASSUME NEW c \in CallTypes
  PROVE  /\ c.op \in {"none", "buf", "one"} /\ c.in \in Seq(Nat) /\ c.given \in Nat /\ c.outSize \in Nat
         /\ c.finish \in {"any", "end"} /\ c.dicLimit \in Nat /\ c.curFinish \in {"any", "end"} /\ c.from \in Nat
         /\ c.res \in Results /\ c.status \in Statuses
BY DEF CallTypes

\* The fields of the locals of LZMA_DECODE_REAL.
LEMMA RealFields ==
  ASSUME NEW r \in RealTypes
  PROVE  /\ r.src \in {"in", "temp"} /\ r.off \in Nat /\ r.limit \in Nat /\ r.bufLimit \in Nat
         /\ r.dummy \in Nat \cup {-1} /\ r.len \in Nat /\ r.garbled \in BOOLEAN
BY DEF RealTypes

\* The constants.
LEMMA ConstantFacts ==
  /\ DicSize \in Nat /\ DicSize > 0 /\ RcInit \in Nat /\ RcInit > 0 /\ W \in Nat /\ W > DicSize
  /\ Required \in Nat /\ Required >= RcInit
BY DecoderCallsAssumption, LzmaDecAssumption

\* The bytes at hand, as numbers: w come from before the call, i are left of it.
Hand(p, i, w) ==
  /\ p = Position /\ i = Len(call.in) /\ w = Len(d.tempBuf)
  /\ p + i = fed + call.given /\ p + i <= NumBytes /\ i <= call.given
  /\ w <= p /\ w <= Required
  /\ call.in \in Seq(Nat) /\ Consecutive(call.in, p)
  /\ d.tempBuf \in Seq(Nat) /\ Consecutive(d.tempBuf, p - w)
  /\ NotStarted => p = w /\ w <= RcInit
  /\ ~NotStarted => (p - w) + (IF InReal THEN real.off ELSE 0) = Start(d.sym)
  /\ ~NotStarted /\ ~InReal /\ w > 0 =>
       d.sym < NumSyms /\ w <= stream.syms[d.sym + 1].bytes /\ d.remainLen < kMatchSpecLenStart

\* InputInv gives Hand.
LEMMA HandFacts ==
  ASSUME LzInv
  PROVE  \E p, i, w \in Nat : Hand(p, i, w)
<1>1. call \in CallTypes /\ d \in Decoders /\ fed \in Nat
  BY TypeFacts
<1>2. call.in \in Seq(Nat) /\ d.tempBuf \in Seq(Nat) /\ call.given \in Nat
  BY <1>1, CallFields, DecoderFields
<1>3. PICK i \in Nat, w \in Nat : i = Len(call.in) /\ w = Len(d.tempBuf)
  BY <1>2, NatSeq
<1>4. i <= call.given
  BY <1>3 DEF LzInv, InputInv
<1>5. PICK p \in Nat : p = fed + call.given - i
  BY <1>1, <1>2, <1>4
<1>6. p = Position /\ p + i = fed + call.given
  BY <1>1, <1>2, <1>3, <1>4, <1>5 DEF Position
<1>7. /\ fed + call.given <= NumBytes /\ w <= p /\ w <= Required
      /\ Consecutive(call.in, p) /\ Consecutive(d.tempBuf, p - w)
      /\ NotStarted => p = w /\ w <= RcInit
      /\ ~NotStarted => (p - w) + (IF InReal THEN real.off ELSE 0) = Start(d.sym)
  BY <1>3, <1>6 DEF LzInv, InputInv
<1>8. w > 0 => d.tempBuf # <<>>
  BY <1>3, EmptySeq
<1>9. ~NotStarted /\ ~InReal /\ w > 0 =>
        d.sym < NumSyms /\ w <= stream.syms[d.sym + 1].bytes /\ d.remainLen < kMatchSpecLenStart
  BY <1>3, <1>8 DEF LzInv, InputInv
<1> QED
  BY <1>2, <1>3, <1>4, <1>6, <1>7, <1>9 DEF Hand
-----------------------------------------------------------------------------
(* The next state                                                          *)

\* What the reference says is about the stream, and that stays.
LEMMA SameStream ==
  ASSUME stream' = stream
  PROVE  /\ Ref(d.sym)' = Ref(d'.sym) /\ Start(d.sym)' = Start(d'.sym) /\ NumSyms' = NumSyms /\ NumBytes' = NumBytes
         /\ Symbol' = stream.syms[d'.sym + 1]
         /\ CodeIsZero' = (d'.sym \in stream.zeros)
BY DEF Ref, Start, NumSyms, NumBytes, Symbol, CodeIsZero

\* Core of the next decoder, under the next level, is CoreInv of the next state.
LEMMA CoreNext ==
  ASSUME stream' = stream, NEW x, Core(d', x), x = Owed(IF pc' \in {"real", "after"} THEN real'.len ELSE d'.remainLen)
  PROVE  CoreInv'
BY DEF CoreInv, Core, Level, InReal, Ref, NumSyms

\* Hand of the next state.
HandNext(p, i, w) ==
  /\ fed' \in Nat /\ call'.given \in Nat /\ d'.tempBuf \in Seq(Nat)
  /\ i = Len(call'.in) /\ w = Len(d'.tempBuf)
  /\ p + i = fed' + call'.given /\ p + i <= NumBytes /\ i <= call'.given
  /\ w <= p /\ w <= Required
  /\ Consecutive(call'.in, p) /\ Consecutive(d'.tempBuf, p - w)
  /\ d'.remainLen = kMatchSpecLenStart + 2 => p = w /\ w <= RcInit
  /\ d'.remainLen # kMatchSpecLenStart + 2 =>
       (p - w) + (IF pc' \in {"real", "after"} THEN real'.off ELSE 0) = Start(d'.sym)
  /\ d'.remainLen # kMatchSpecLenStart + 2 /\ pc' \notin {"real", "after"} /\ w > 0 =>
       d'.sym < NumSyms /\ w <= stream.syms[d'.sym + 1].bytes /\ d'.remainLen < kMatchSpecLenStart

\* HandNext gives InputInv of the next state.
LEMMA InputNext ==
  ASSUME stream' = stream, NEW p \in Nat, NEW i \in Nat, NEW w \in Nat, HandNext(p, i, w)
  PROVE  InputInv'
<1>1. Position' = p
  <2>1. fed' \in Nat /\ call'.given \in Nat /\ i = Len(call'.in) /\ p + i = fed' + call'.given
    BY DEF HandNext
  <2>2. fed' + call'.given - i = p
    BY <2>1
  <2> QED
    BY <2>1, <2>2 DEF Position
<1>2. NotStarted' <=> d'.remainLen = kMatchSpecLenStart + 2
  BY DEF NotStarted
<1>3. InReal' <=> pc' \in {"real", "after"}
  BY DEF InReal
<1>4. NumBytes' = NumBytes /\ Start(d.sym)' = Start(d'.sym) /\ NumSyms' = NumSyms
  BY SameStream
<1>5. /\ Len(call'.in) <= call'.given /\ fed' + call'.given <= NumBytes
      /\ Len(d'.tempBuf) <= p /\ Len(d'.tempBuf) <= Required
      /\ Consecutive(call'.in, p)
      /\ Consecutive(d'.tempBuf, p - Len(d'.tempBuf))
  BY DEF HandNext
<1>6. d'.remainLen = kMatchSpecLenStart + 2 => p = Len(d'.tempBuf) /\ Len(d'.tempBuf) <= RcInit
  BY DEF HandNext
<1>7. d'.remainLen # kMatchSpecLenStart + 2 =>
        p - Len(d'.tempBuf) + (IF pc' \in {"real", "after"} THEN real'.off ELSE 0) = Start(d'.sym)
  BY DEF HandNext
<1>8. d'.tempBuf # <<>> => w > 0
  BY EmptySeq DEF HandNext
<1>9. d'.remainLen # kMatchSpecLenStart + 2 /\ pc' \notin {"real", "after"} /\ w > 0 =>
        d'.sym < NumSyms /\ Len(d'.tempBuf) <= stream.syms[d'.sym + 1].bytes /\ d'.remainLen < kMatchSpecLenStart
  BY DEF HandNext
<1> QED
  BY <1>1, <1>2, <1>3, <1>4, <1>5, <1>6, <1>7, <1>8, <1>9 DEF InputInv
-----------------------------------------------------------------------------
(* A round of DecodeToDic                                                  *)

\* What every end of the first part of a round has in common.
RoundNext ==
  /\ stream' = stream /\ fed' = fed /\ out' = out /\ last' = last
  /\ Alike(d', Rest) /\ d'.checkDicSize = Rest.checkDicSize /\ d'.processedPos = Rest.processedPos
  /\ d'.remainLen = Rest.remainLen
  /\ call' \in CallTypes /\ call'.op = call.op /\ call'.from = call.from /\ call'.dicLimit = call.dicLimit
  /\ call'.outSize = call.outSize
  /\ real' \in RealTypes
  /\ pc' = "ret" \/ (pc' = "real" /\ real'.len = 0 /\ d'.remainLen = 0)

\* A round that only wrote the rest of a match keeps what does not depend on the input.
LEMMA RoundKeeps ==
  ASSUME LzInv, Round, NEW n \in Nat, RestIs(n), RoundNext
  PROVE  /\ TypesInv' /\ CoreInv' /\ WideInv' /\ CheckInv' /\ OutInv' /\ LevelInv' /\ CallInv' /\ LastInv'
         /\ d'.sym = d.sym /\ d'.remainLen < kMatchSpecLenStart /\ d.remainLen < kMatchSpecLenStart
<1>1. /\ stream \in Streams /\ d \in Decoders /\ call \in CallTypes /\ last \in LastTypes /\ pc = "loop"
      /\ fed \in Nat /\ out \in Seq(Nat)
  BY TypeFacts DEF Round
<1>2. d' \in Decoders /\ d'.sym = d.sym /\ d'.dicPos = d.dicPos + n /\ d'.total = d.total + n
      /\ d'.dicBufSize = d.dicBufSize /\ d'.remainLen = d.remainLen - n
  BY DEF RestIs, RoundNext, Alike
<1>3. PICK rem \in Nat, pos \in Nat, limit \in Nat, total \in Nat, from \in Nat :
        rem = d.remainLen /\ pos = d.dicPos /\ limit = call.dicLimit /\ total = d.total /\ from = call.from
  BY <1>1, DecoderFields, CallFields
<1>4. n <= rem /\ pos + n <= limit /\ rem < kMatchSpecLenStart
  BY <1>1, <1>3 DEF RestIs, LzInv, LevelInv, Round, kMatchSpecLenStart
<1>5. d'.remainLen \in Nat /\ d'.remainLen < kMatchSpecLenStart
  BY <1>2, <1>3, <1>4 DEF kMatchSpecLenStart
<1>6. TypesInv'
  BY <1>1, <1>2 DEF TypesInv, RoundNext
<1>7. CoreInv'
  <2>1. Core(d', rem - n)
    <3>1. Core(Rest, rem - n)
      BY <1>3 DEF RestIs
    <3> QED
      BY <3>1, CoreAlike DEF RoundNext
  <2>2. rem - n = Owed(d'.remainLen)
    BY <1>2, <1>3, <1>5 DEF Owed
  <2>3. rem - n = Owed(IF pc' \in {"real", "after"} THEN real'.len ELSE d'.remainLen)
    BY <2>2 DEF RoundNext
  <2> QED
    BY <2>1, <2>3, CoreNext DEF RoundNext
<1>8. WideInv'
  BY <1>1, <1>2 DEF LzInv, WideInv, InDic, RoundNext
<1>9. CheckInv'
  <2>1. Checks(Rest)
    BY DEF RestIs
  <2> QED
    BY <2>1 DEF CheckInv, Checks, RoundNext, Alike
<1>10. Ref(d.sym)' = Ref(d.sym) /\ NumSyms' = NumSyms
  BY <1>2, SameStream DEF RoundNext
<1>11. OutInv'
  <2>1. InDic /\ InDic'
    BY <1>1 DEF InDic, RoundNext
  <2>2. total = Len(out) + (pos - from) /\ from <= pos /\ \A k \in 1 .. Len(out) : out[k] = Ref(d.sym).out[k]
    BY <2>1, <1>3 DEF LzInv, OutInv
  <2>3. PICK l \in Nat : l = Len(out)
    BY <1>1, NatSeq
  <2>6. d'.total = total + n /\ d'.dicPos = pos + n
    BY <1>2, <1>3
  <2>7. total + n = l + ((pos + n) - from) /\ from <= pos + n
    BY <2>2, <2>3
  <2>4. d'.total = Len(out) + (d'.dicPos - from) /\ from <= d'.dicPos
    BY <2>3, <2>6, <2>7
  <2>5. call'.from = from /\ out' = out
    BY <1>3 DEF RoundNext
  <2> QED
    BY <2>1, <2>2, <2>4, <2>5, <1>10 DEF OutInv
<1>12. LevelInv'
  <2>1. ~Ref(d.sym).bad /\ ~Ref(d.sym).ended
    <3>1. Level = rem
      BY <1>1, <1>3 DEF Level, InReal
    <3> QED
      BY <3>1, <1>4 DEF LzInv, LevelInv, kMatchSpecLenStart, kMatchSpecLen_ErrorData
  <2>2. Level' = d'.remainLen
    BY DEF Level, InReal, RoundNext
  <2>3. ~NotStarted /\ ~NotStarted'
    BY <1>3, <1>4, <1>5 DEF NotStarted, kMatchSpecLenStart
  <2>4. d.sym = 0 /\ NumSyms > 0 => stream.syms[1].kind # "rep"
    BY <2>3 DEF LzInv, LevelInv
  <2>5. d'.remainLen \in 0 .. kMatchSpecLenStart
    BY <1>5 DEF kMatchSpecLenStart
  <2>6. ~(Level' >= kMatchSpecLen_ErrorData) /\ Level' # kMatchSpecLenStart
    BY <2>2, <1>5 DEF kMatchSpecLenStart, kMatchSpecLen_ErrorData
  <2>7. pc' \in {"ret", "real"} /\ (pc' = "real" => real'.len = 0 /\ d'.remainLen = 0) /\ stream' = stream
    BY DEF RoundNext
  <2> QED
    BY <2>1, <2>3, <2>4, <2>5, <2>6, <2>7, <1>2, <1>10 DEF LevelInv, InReal
<1>13. CallInv'
  <2>1. InDic
    BY <1>1 DEF InDic
  <2>2. /\ call.op # "none" /\ limit <= d.dicBufSize /\ limit - from <= call.outSize
        /\ limit - from = call.outSize \/ (call.op = "buf" /\ from < limit)
        /\ call.op = "one" => from = 0 /\ fed = 0 /\ out = <<>>
    BY <2>1, <1>1, <1>3 DEF LzInv, CallInv
  <2>3. d'.dicPos <= limit
    BY <1>2, <1>3, <1>4
  <2>4. call'.from = from /\ out' = out /\ fed' = fed /\ call'.op = call.op /\ call'.dicLimit = limit
        /\ call'.outSize = call.outSize /\ d'.dicBufSize = d.dicBufSize
    BY <1>2, <1>3 DEF RoundNext
  <2>5. pc' \notin {"idle", "over", "buf"}
    BY DEF RoundNext
  <2> QED
    BY <2>2, <2>3, <2>4, <2>5 DEF CallInv
<1>14. LastInv'
  <2>1. last.res # "fail" /\ last' = last /\ pc' \notin {"idle", "over"}
    BY DEF LzInv, LastInv, RoundNext
  <2> QED
    BY <2>1 DEF LastInv
<1> QED
  BY <1>2, <1>3, <1>4, <1>5, <1>6, <1>7, <1>8, <1>9, <1>11, <1>12, <1>13, <1>14

\* DecodeToDic returns from a round.
LEMMA ReturnFacts ==
  ASSUME LzInv, NEW res \in Results, NEW status \in Statuses, NEW in \in Seq(Nat), NEW dec, Return(res, status, in, dec)
  PROVE  /\ pc' = "ret" /\ d' = dec /\ stream' = stream /\ real' = real /\ fed' = fed /\ out' = out /\ last' = last
         /\ call' \in CallTypes /\ call'.op = call.op /\ call'.from = call.from /\ call'.dicLimit = call.dicLimit
         /\ call'.outSize = call.outSize /\ call'.given = call.given
         /\ call'.in = in /\ call'.res = res /\ call'.status = status
<1>1. call \in CallTypes
  BY TypeFacts
<1>2. call' = [call EXCEPT !.in = in, !.res = res, !.status = status]
  BY DEF Return
<1>3. call' \in CallTypes
  BY <1>1, <1>2 DEF CallTypes
<1>4. /\ call'.op = call.op /\ call'.from = call.from /\ call'.dicLimit = call.dicLimit
      /\ call'.outSize = call.outSize /\ call'.given = call.given
      /\ call'.in = in /\ call'.res = res /\ call'.status = status
  BY <1>1, <1>2 DEF CallTypes
<1> QED
  BY <1>3, <1>4 DEF Return

\* Outside LZMA_DECODE_REAL there is nothing to say of it but that it read the right bytes.
LEMMA LoopElsewhere ==
  ASSUME LzInv, real' = real, pc' \notin {"real", "after"}
  PROVE  LoopInv'
BY DEF LzInv, LoopInv, InReal

\* ReturnInv speaks of the moment of the return only.
LEMMA NotReturned ==
  ASSUME pc' # "ret"
  PROVE  ReturnInv'
BY DEF ReturnInv

\* A return of an ordinary round: what is kept of the input, and what the caller is told.
LEMMA RoundReturns ==
  ASSUME LzInv, Round, NEW n \in Nat, RestIs(n), NEW res \in {"ok", "data"}, NEW status \in Statuses,
         NEW in \in Seq(Nat), NEW temp \in Seq(Nat), Return(res, status, in, [Rest EXCEPT !.tempBuf = temp]),
         NEW p \in Nat, NEW i \in Nat, NEW w \in Nat, i = Len(in), w = Len(temp),
         p + i = fed + call.given, p + i <= NumBytes, i <= call.given, w <= p, w <= Required,
         Consecutive(in, p), Consecutive(temp, p - w), p - w = Start(d.sym),
         w > 0 => d.sym < NumSyms /\ w <= stream.syms[d.sym + 1].bytes,
         res = "data" => status = "not_finished",
         status \in {"not_finished", "maybe_finished"} => Full,
         status = "needs_input" => in = <<>> /\ res = "ok",
         status # "finished_with_mark"
  PROVE  LzInv'
<1>1. Rest \in Decoders
  BY DEF RestIs
<1> DEFINE e == [Rest EXCEPT !.tempBuf = temp]
<1>2. e \in Decoders /\ Alike(e, Rest) /\ e.checkDicSize = Rest.checkDicSize /\ e.processedPos = Rest.processedPos
      /\ e.remainLen = Rest.remainLen /\ e.tempBuf = temp
  BY <1>1 DEF Decoders, Alike
<1> HIDE DEF e
<1>3. res \in Results /\ Return(res, status, in, e)
  BY DEF Results, e
<1>4. /\ pc' = "ret" /\ d' = e /\ stream' = stream /\ real' = real /\ fed' = fed /\ out' = out /\ last' = last
      /\ call' \in CallTypes /\ call'.op = call.op /\ call'.from = call.from /\ call'.dicLimit = call.dicLimit
      /\ call'.outSize = call.outSize /\ call'.given = call.given
      /\ call'.in = in /\ call'.res = res /\ call'.status = status
  BY <1>3, ReturnFacts
<1>5. real \in RealTypes /\ fed \in Nat /\ call \in CallTypes
  BY TypeFacts
<1>6. RoundNext
  BY <1>2, <1>4, <1>5 DEF RoundNext
<1>7. /\ TypesInv' /\ CoreInv' /\ WideInv' /\ CheckInv' /\ OutInv' /\ LevelInv' /\ CallInv' /\ LastInv'
      /\ d'.sym = d.sym /\ d'.remainLen < kMatchSpecLenStart
  BY <1>6, RoundKeeps
<1>8. LoopInv'
  BY <1>4, LoopElsewhere
<1>9. InputInv'
  <2>1. call.given \in Nat
    BY <1>5, CallFields
  <2>2. d'.remainLen # kMatchSpecLenStart + 2
    <3>1. d'.remainLen \in Nat
      BY <1>2, <1>4, DecoderFields
    <3> QED
      BY <3>1, <1>7 DEF kMatchSpecLenStart
  <2>3. d'.tempBuf = temp /\ pc' \notin {"real", "after"}
    BY <1>2, <1>4
  <2>4. (p - w) + 0 = Start(d.sym)
    OBVIOUS
  <2>5. HandNext(p, i, w)
    BY <1>4, <1>5, <1>7, <2>1, <2>2, <2>3, <2>4 DEF HandNext
  <2> QED
    BY <2>5, <1>4, InputNext
<1>10. ReturnInv'
  <2>1. res = "data" => CauseOf(status)'
    BY DEF CauseOf
  <2>2. status \in {"not_finished", "maybe_finished"} => d'.dicPos = call'.dicLimit
    <3>1. SUFFICES ASSUME Full PROVE d'.dicPos = call'.dicLimit
      OBVIOUS
    <3>2. d'.dicPos = Rest.dicPos /\ Rest.dicPos = d.dicPos + n /\ d.dicPos + n <= call.dicLimit
      BY <1>2, <1>4 DEF Alike, RestIs
    <3>3. Rest.dicPos \in Nat /\ call.dicLimit \in Nat /\ Rest.dicPos >= call.dicLimit
      BY <1>1, <1>5, <3>1, DecoderFields, CallFields DEF Full
    <3> QED
      BY <3>2, <3>3, <1>4
  <2> QED
    BY <2>1, <2>2, <1>4 DEF ReturnInv, CauseOf
<1> QED
  BY <1>7, <1>8, <1>9, <1>10 DEF LzInv

\* In a round the bytes that wait are the first ones of the next symbol.
LEMMA RoundHand ==
  ASSUME LzInv, Round, NEW p \in Nat, NEW i \in Nat, NEW w \in Nat, Hand(p, i, w)
  PROVE  /\ p - w = Start(d.sym) /\ ~NotStarted
         /\ w > 0 => d.sym < NumSyms /\ w <= stream.syms[d.sym + 1].bytes
<1>1. pc = "loop" /\ d \in Decoders
  BY TypeFacts DEF Round
<1>2. d.remainLen \in Nat /\ d.remainLen <= kMatchSpecLenStart
  BY <1>1, DecoderFields DEF LzInv, LevelInv
<1>3. ~NotStarted /\ ~InReal
  BY <1>1, <1>2 DEF NotStarted, InReal, kMatchSpecLenStart
<1>4. (p - w) + 0 = Start(d.sym)
  BY <1>3 DEF Hand
<1> QED
  BY <1>3, <1>4 DEF Hand

\* The round stops at the limit for output.
LEMMA LimitReachedStep ==
  ASSUME LzInv, LimitReached
  PROVE  LzInv'
<1>1. Round /\ Full
  BY DEF LimitReached, Stop
<1>2. PICK n \in Nat : RestIs(n)
  BY <1>1, RestFacts
<1>3. PICK p \in Nat, i \in Nat, w \in Nat : Hand(p, i, w)
  BY HandFacts
<1>4. /\ p - w = Start(d.sym)
      /\ w > 0 => d.sym < NumSyms /\ w <= stream.syms[d.sym + 1].bytes
  BY <1>1, <1>3, RoundHand
<1>5. /\ i = Len(call.in) /\ w = Len(d.tempBuf) /\ p + i = fed + call.given /\ p + i <= NumBytes /\ i <= call.given
      /\ w <= p /\ w <= Required /\ call.in \in Seq(Nat) /\ Consecutive(call.in, p)
      /\ d.tempBuf \in Seq(Nat) /\ Consecutive(d.tempBuf, p - w)
  BY <1>3 DEF Hand
<1>6. [Rest EXCEPT !.tempBuf = d.tempBuf] = Rest
  BY <1>2 DEF RestIs, Decoders
<1>7. \/ Return("ok", "maybe_finished", call.in, Rest) \/ Return("ok", "not_finished", call.in, Rest)
      \/ Return("data", "not_finished", call.in, Rest)
  BY DEF LimitReached
<1>8. PICK res \in {"ok", "data"}, status \in {"maybe_finished", "not_finished"} :
        Return(res, status, call.in, Rest) /\ (res = "data" => status = "not_finished")
  BY <1>7
<1>9. status \in Statuses
  BY DEF Statuses
<1>10. PICK in \in Seq(Nat), temp \in Seq(Nat) : in = call.in /\ temp = d.tempBuf
  BY <1>5
<1>11. Return(res, status, in, [Rest EXCEPT !.tempBuf = temp])
  BY <1>6, <1>8, <1>10
<1>12. i = Len(in) /\ w = Len(temp) /\ Consecutive(in, p) /\ Consecutive(temp, p - w)
  BY <1>5, <1>10
<1>13. /\ res = "data" => status = "not_finished"
       /\ status \in {"not_finished", "maybe_finished"} => Full
       /\ status = "needs_input" => in = <<>> /\ res = "ok"
       /\ status # "finished_with_mark"
  BY <1>1, <1>8
<1> QED
  BY <1>1, <1>2, <1>4, <1>5, <1>9, <1>11, <1>12, <1>13, RoundReturns

\* LZMA_DECODE_REAL is entered.
LEMMA RealStarts ==
  ASSUME LzInv, Round, ~Stop, NEW n \in Nat, RestIs(n),
         NEW src \in {"in", "temp"}, NEW bufLimit \in Nat, NEW dummy \in Nat \cup {-1}, StartReal(src, bufLimit, dummy),
         src = "in" => d.tempBuf = <<>>,
         Full => d.sym < NumSyms /\ Symbol.kind \in {"match", "end"},
         dummy >= 0 => /\ bufLimit = 0 /\ d.sym < NumSyms /\ dummy = Symbol.bytes
                       /\ dummy <= Len(IF src = "in" THEN call.in ELSE Joined),
         dummy = -1 /\ src = "in" => bufLimit = Len(call.in) - Required,
         dummy = -1 /\ src = "temp" => bufLimit = 0 /\ Required <= Len(Joined)
  PROVE  LzInv'
<1>1. call \in CallTypes /\ d \in Decoders /\ fed \in Nat /\ stream \in Streams
  BY TypeFacts
<1>2. PICK rest : rest = Rest
  OBVIOUS
<1>3. /\ rest \in Decoders /\ rest.remainLen = d.remainLen - n /\ rest.dicPos = d.dicPos + n /\ rest.total = d.total + n
      /\ rest.tempBuf = d.tempBuf /\ rest.sym = d.sym /\ Checks(rest)
      /\ d.dicPos + n <= call.dicLimit /\ (n = d.remainLen \/ d.dicPos + n = call.dicLimit)
  BY <1>2 DEF RestIs
<1>4. PICK pos \in Nat, total \in Nat, limit \in Nat, rem \in Nat :
        pos = rest.dicPos /\ total = rest.total /\ limit = call.dicLimit /\ rem = d.remainLen
  BY <1>1, <1>3, DecoderFields, CallFields
<1>5. Full <=> pos >= limit
  BY <1>2, <1>4 DEF Full
<1>6. pos <= limit
  BY <1>3, <1>4
<1>7. rest.remainLen = 0
  <2>1. CASE Full
    BY <2>1, <1>2 DEF Stop
  <2>2. CASE ~Full
    <3>1. pos = d.dicPos + n
      BY <1>3, <1>4
    <3>2. n = rem
      BY <2>2, <3>1, <1>3, <1>4, <1>5
    <3> QED
      BY <3>2, <1>3, <1>4
  <2> QED
    BY <2>1, <2>2
<1>8. /\ rest.checkDicSize \in Nat /\ rest.processedPos \in Nat
      /\ total < DicSize => rest.checkDicSize = 0 /\ rest.processedPos = total
      /\ total >= DicSize => rest.checkDicSize = DicSize
  BY <1>3, <1>4, DecoderFields DEF Checks
<1>9. PICK rl : rl = RealLimit(rest)
  OBVIOUS
<1>10. /\ rl \in Nat /\ pos <= rl /\ rl <= limit /\ (pos = rl => Full)
       /\ rest.checkDicSize = 0 => total < DicSize /\ rl <= pos + (DicSize - total)
  <2>1. CASE total < DicSize
    <3>1. rl = Smaller(limit, pos + (DicSize - total))
      BY <2>1, <1>4, <1>8, <1>9, ConstantFacts DEF RealLimit
    <3>2. pos + (DicSize - total) \in Nat /\ pos < pos + (DicSize - total)
      BY <2>1, ConstantFacts
    <3> QED
      BY <2>1, <3>1, <3>2, <1>5, <1>6 DEF Smaller
  <2>2. CASE ~(total < DicSize)
    <3>1. rest.checkDicSize = DicSize /\ DicSize # 0
      BY <2>2, <1>8, ConstantFacts
    <3>2. rl = limit
      BY <3>1, <1>4, <1>9 DEF RealLimit
    <3> QED
      BY <3>1, <3>2, <1>5, <1>6
  <2> QED
    BY <2>1, <2>2
<1>11. /\ pc' = "real" /\ d' = rest /\ stream' = stream /\ call' = call /\ fed' = fed /\ out' = out /\ last' = last
       /\ real' = [NoReal EXCEPT !.src = src, !.limit = rl, !.bufLimit = bufLimit, !.dummy = dummy]
  BY <1>2, <1>9 DEF StartReal
<1>12. /\ real'.src = src /\ real'.off = 0 /\ real'.limit = rl /\ real'.bufLimit = bufLimit /\ real'.dummy = dummy
       /\ real'.len = 0 /\ real'.garbled = FALSE
  BY <1>11 DEF NoReal
<1>13. real' \in RealTypes
  BY <1>10, <1>11 DEF NoReal, RealTypes
<1>14. RoundNext
  BY <1>1, <1>2, <1>3, <1>7, <1>11, <1>12, <1>13 DEF RoundNext, Alike
<1>15. /\ TypesInv' /\ CoreInv' /\ WideInv' /\ CheckInv' /\ OutInv' /\ LevelInv' /\ CallInv' /\ LastInv'
  BY <1>14, RoundKeeps
<1>16. PICK p \in Nat, i \in Nat, w \in Nat : Hand(p, i, w)
  BY HandFacts
<1>17. /\ p - w = Start(d.sym)
       /\ w > 0 => d.sym < NumSyms /\ w <= stream.syms[d.sym + 1].bytes
  BY <1>16, RoundHand
<1>18. InputInv'
  <2>1. d'.remainLen # kMatchSpecLenStart + 2
    BY <1>7, <1>11 DEF kMatchSpecLenStart
  <2>2. call.given \in Nat
    BY <1>1, CallFields
  <2>3. (p - w) + 0 = Start(d.sym)
    BY <1>17
  <2>4. /\ i = Len(call.in) /\ w = Len(d.tempBuf) /\ p + i = fed + call.given /\ p + i <= NumBytes /\ i <= call.given
        /\ w <= p /\ w <= Required /\ call.in \in Seq(Nat) /\ Consecutive(call.in, p)
        /\ d.tempBuf \in Seq(Nat) /\ Consecutive(d.tempBuf, p - w)
    BY <1>16 DEF Hand
  <2>5. HandNext(p, i, w)
    BY <2>1, <2>2, <2>3, <2>4, <1>1, <1>3, <1>11, <1>12 DEF HandNext
  <2> QED
    BY <2>5, <1>11, InputNext
<1>19. LoopInv'
  <2>1. Symbol' = Symbol /\ NumSyms' = NumSyms
    BY <1>3, <1>11, SameStream DEF Symbol
  <2>2. Joined' = Joined
    BY <1>3, <1>11 DEF Joined, Ahead
  <2>3. Buffer' = IF src = "in" THEN call.in ELSE Joined
    BY <2>2, <1>11, <1>12 DEF Buffer
  <2>4. d.sym < NumSyms => Len(d.tempBuf) <= Symbol.bytes
    <3>1. SUFFICES ASSUME d.sym < NumSyms PROVE Len(d.tempBuf) <= Symbol.bytes
      OBVIOUS
    <3>2. w = Len(d.tempBuf)
      BY <1>16 DEF Hand
    <3>3. stream.syms[d.sym + 1].bytes \in Nat
      <4>1. d.sym \in Nat /\ NumSyms \in Nat /\ d.sym + 1 \in 1 .. NumSyms
        BY <1>1, <3>1, DecoderFields, StreamFacts
      <4> QED
        BY <4>1, <1>1, StreamFacts, SymbolFacts
    <3> QED
      BY <3>2, <3>3, <1>17 DEF Symbol
  <2>5. d'.dicPos = pos /\ d'.total = total /\ d'.checkDicSize = rest.checkDicSize /\ d'.sym = d.sym /\ d'.tempBuf = d.tempBuf
    BY <1>3, <1>4, <1>11
  <2>6. call'.in = call.in /\ call'.dicLimit = limit
    BY <1>4, <1>11
  <2>7. pos <= rl /\ rl <= limit
    BY <1>10
  <2>8. pos = rl => d.sym < NumSyms /\ Symbol.kind \in {"match", "end"}
    BY <1>10
  <2>9. dummy = -1 /\ src = "in" => 0 <= bufLimit
    OBVIOUS
  <2> QED
    BY <2>1, <2>2, <2>3, <2>4, <2>5, <2>6, <2>7, <2>8, <2>9, <1>10, <1>11, <1>12 DEF LoopInv, InReal
<1>20. ReturnInv'
  BY <1>11, NotReturned
<1> QED
  BY <1>15, <1>18, <1>19, <1>20 DEF LzInv

\* The bytes that waited with those of the call behind them are consecutive.
LEMMA JoinedFacts ==
  ASSUME LzInv, NEW p \in Nat, NEW i \in Nat, NEW w \in Nat, Hand(p, i, w)
  PROVE  \E a \in Nat : /\ a = Ahead /\ a <= i /\ w + a <= Required /\ (a = i \/ w + a = Required)
                        /\ Joined \in Seq(Nat) /\ Len(Joined) = w + a /\ Consecutive(Joined, p - w)
<1>1. /\ i = Len(call.in) /\ w = Len(d.tempBuf) /\ w <= Required /\ w <= p
      /\ call.in \in Seq(Nat) /\ Consecutive(call.in, p)
      /\ d.tempBuf \in Seq(Nat) /\ Consecutive(d.tempBuf, p - w)
  BY DEF Hand
<1>2. PICK a \in Nat : a = Smaller(Required - w, i)
  BY <1>1, ConstantFacts DEF Smaller
<1>3. a <= i /\ w + a <= Required /\ (a = i \/ w + a = Required)
  <2>1. Required \in Nat /\ w <= Required
    BY <1>1, ConstantFacts
  <2>2. a = IF Required - w < i THEN Required - w ELSE i
    BY <1>2 DEF Smaller
  <2> QED
    BY <2>1, <2>2
<1>4. a = Ahead
  BY <1>1, <1>2 DEF Ahead
<1>5. PICK in \in Seq(Nat), temp \in Seq(Nat) : in = call.in /\ temp = d.tempBuf
  BY <1>1
<1>6. PICK z \in Nat : z = 0
  OBVIOUS
<1> DEFINE t == SubSeq(in, z + 1, a)
<1>7. t \in Seq(Nat) /\ Len(t) = a - z /\ Consecutive(t, p + z)
  <2>1. Consecutive(in, p) /\ z <= a /\ a <= Len(in) /\ p \in Int
    BY <1>1, <1>3, <1>5, <1>6
  <2> QED
    BY <2>1, PartConsecutive
<1> HIDE DEF t
<1>8. Len(t) = a /\ p + z = (p - w) + w
  BY <1>1, <1>6, <1>7
<1>9. PICK f \in Int : f = p - w
  OBVIOUS
<1>10. Consecutive(temp, f) /\ Consecutive(t, f + w) /\ w = Len(temp)
  BY <1>1, <1>5, <1>7, <1>8, <1>9
<1>11. temp \o t \in Seq(Nat) /\ Len(temp \o t) = w + Len(t) /\ Consecutive(temp \o t, f)
  <2>1. PICK u \in Seq(Nat) : u = t
    BY <1>7
  <2>2. Consecutive(temp, f) /\ Consecutive(u, f + w) /\ w = Len(temp)
    BY <2>1, <1>10
  <2>3. temp \o u \in Seq(Nat) /\ Len(temp \o u) = w + Len(u) /\ Consecutive(temp \o u, f)
    BY <2>2, BothConsecutive
  <2> QED
    BY <2>1, <2>3
<1>12. Joined = temp \o t
  <2>1. z + 1 = 1
    BY <1>6
  <2>2. t = SubSeq(in, 1, a)
    BY <2>1 DEF t
  <2> QED
    BY <2>2, <1>4, <1>5 DEF Joined
<1>13. Joined \in Seq(Nat) /\ Len(Joined) = w + a /\ Consecutive(Joined, p - w)
  BY <1>8, <1>9, <1>11, <1>12
<1> QED
  BY <1>3, <1>4, <1>13

\* What comes next in the stream, and what TryDummy says of it.
LEMMA SymbolNow ==
  ASSUME LzInv
  PROVE  /\ d.sym \in Nat /\ NumSyms \in Nat /\ d.sym <= NumSyms
         /\ Start(d.sym) \in Nat /\ Start(d.sym) <= NumBytes /\ (d.sym = NumSyms => Start(d.sym) = NumBytes)
         /\ d.sym < NumSyms =>
              /\ IsSymbol(Symbol) /\ Symbol = stream.syms[d.sym + 1] /\ DummyBytes = Symbol.bytes
              /\ Symbol.bytes \in Nat /\ Symbol.bytes <= Required /\ Symbol.kind \in {"lit", "end", "match", "rep"}
              /\ Start(d.sym + 1) = Start(d.sym) + Symbol.bytes
<1>1. stream \in Streams /\ d \in Decoders
  BY TypeFacts
<1>2. d.sym \in Nat /\ NumSyms \in Nat
  BY <1>1, DecoderFields, StreamFacts
<1>3. d.sym <= NumSyms
  BY CoreNow DEF Core
<1>4. d.sym \in 0 .. NumSyms
  BY <1>2, <1>3
<1>5. Start(d.sym) \in Nat /\ Start(d.sym) <= NumBytes /\ NumBytes = Start(NumSyms)
  BY <1>1, <1>4, StartFacts
<1>6. ASSUME d.sym < NumSyms
      PROVE  /\ IsSymbol(Symbol) /\ Symbol = stream.syms[d.sym + 1] /\ DummyBytes = Symbol.bytes
             /\ Symbol.bytes \in Nat /\ Symbol.bytes <= Required /\ Symbol.kind \in {"lit", "end", "match", "rep"}
             /\ Start(d.sym + 1) = Start(d.sym) + Symbol.bytes
  <2>1. d.sym + 1 \in 1 .. NumSyms
    BY <1>2, <1>6
  <2>2. IsSymbol(Symbol)
    BY <2>1, <1>1, StreamFacts DEF Symbol
  <2>3. Start(d.sym + 1) = Start(d.sym) + stream.syms[d.sym + 1].bytes
    BY <1>1, <1>2, <1>6, StartFacts
  <2> QED
    BY <2>2, <2>3, SymbolFacts DEF Symbol, DummyBytes
<1> QED
  BY <1>2, <1>3, <1>5, <1>6

\* LzmaDec_TryDummy names the next symbol exactly if its bytes are there.
LEMMA DummyFacts ==
  ASSUME LzInv, NEW n \in Nat
  PROVE  /\ TryDummy(n) = "eof" => d.sym = NumSyms \/ (d.sym < NumSyms /\ Symbol.bytes > n)
         /\ TryDummy(n) # "eof" => d.sym < NumSyms /\ Symbol.bytes <= n /\ TryDummy(n) = Symbol.kind
<1>1. /\ d.sym \in Nat /\ NumSyms \in Nat /\ d.sym <= NumSyms
      /\ d.sym < NumSyms => /\ Symbol = stream.syms[d.sym + 1] /\ Symbol.bytes \in Nat
                            /\ Symbol.kind \in {"lit", "end", "match", "rep"}
  BY SymbolNow
<1>2. CASE d.sym = NumSyms
  BY <1>2 DEF TryDummy
<1>3. CASE d.sym < NumSyms
  BY <1>1, <1>3 DEF TryDummy
<1> QED
  BY <1>1, <1>2, <1>3

\* The symbol comes from the input of the call.
LEMMA FromInputStep ==
  ASSUME LzInv, FromInput
  PROVE  LzInv'
<1>1. Round /\ ~Stop /\ d.tempBuf = <<>>
  BY DEF FromInput
<1>2. PICK n \in Nat : RestIs(n)
  BY <1>1, RestFacts
<1>3. PICK p \in Nat, i \in Nat, w \in Nat : Hand(p, i, w)
  BY HandFacts
<1>4. p - w = Start(d.sym)
  BY <1>1, <1>3, RoundHand
<1>5. /\ i = Len(call.in) /\ w = Len(d.tempBuf) /\ p + i = fed + call.given /\ p + i <= NumBytes /\ i <= call.given
      /\ call.in \in Seq(Nat) /\ Consecutive(call.in, p)
  BY <1>3 DEF Hand
<1>6. w = 0 /\ p = Start(d.sym)
  BY <1>1, <1>4, <1>5, EmptySeq
<1>7. PICK in \in Seq(Nat) : in = call.in
  BY <1>5
<1>8. IF i >= Required /\ ~Full THEN StartReal("in", i - Required, -1)
      ELSE IF TryDummy(i) = "eof"
      THEN IF i >= Required THEN FailNow
           ELSE Return("ok", "needs_input", <<>>, [Rest EXCEPT !.tempBuf = in])
      ELSE IF DummyBytes > Required THEN FailNow
      ELSE IF Full /\ TryDummy(i) \notin {"match", "end"}
      THEN Return("data", "not_finished", SubSeq(in, DummyBytes + 1, i),
                  [Rest EXCEPT !.tempBuf = SubSeq(in, 1, DummyBytes)])
      ELSE StartReal("in", 0, DummyBytes)
  BY <1>5, <1>7 DEF FromInput
<1>9. /\ TryDummy(i) = "eof" => d.sym = NumSyms \/ (d.sym < NumSyms /\ Symbol.bytes > i)
      /\ TryDummy(i) # "eof" => d.sym < NumSyms /\ Symbol.bytes <= i /\ TryDummy(i) = Symbol.kind
  BY DummyFacts
<1>10. /\ d.sym \in Nat /\ NumSyms \in Nat /\ NumBytes = NumBytes
       /\ d.sym = NumSyms => Start(d.sym) = NumBytes
       /\ d.sym < NumSyms => Symbol = stream.syms[d.sym + 1] /\ DummyBytes = Symbol.bytes
                             /\ Symbol.bytes \in Nat /\ Symbol.bytes <= Required
  BY SymbolNow
<1>11. d.sym = NumSyms => i = 0
  <2>1. SUFFICES ASSUME d.sym = NumSyms PROVE i = 0
    OBVIOUS
  <2>2. p + i <= p
    BY <2>1, <1>5, <1>6, <1>10
  <2> QED
    BY <2>2
<1>12. CASE i >= Required /\ ~Full
  <2>1. StartReal("in", i - Required, -1)
    BY <1>8, <1>12
  <2>2. PICK bufLimit \in Nat, dummy \in Nat \cup {-1} : bufLimit = i - Required /\ dummy = -1
    BY <1>12, ConstantFacts
  <2>3. StartReal("in", bufLimit, dummy)
    BY <2>1, <2>2
  <2>4. ~(dummy >= 0) /\ bufLimit = Len(call.in) - Required
    BY <2>2, <1>5
  <2> QED
    BY <2>2, <2>3, <2>4, <1>1, <1>2, <1>12, RealStarts
<1>13. CASE ~(i >= Required /\ ~Full) /\ TryDummy(i) = "eof"
  <2>1. ~(i >= Required)
    BY <1>9, <1>10, <1>11, <1>13, ConstantFacts
  <2>2. Return("ok", "needs_input", <<>>, [Rest EXCEPT !.tempBuf = in])
    BY <2>1, <1>8, <1>13
  <2>3. PICK none \in Seq(Nat), z \in Nat, q \in Nat : none = <<>> /\ z = 0 /\ q = p + i
    <3>1. <<>> \in Seq(Nat) /\ p + i \in Nat
      BY EmptySeq
    <3> QED
      BY <3>1
  <2>4. z = Len(none) /\ Consecutive(none, q)
    BY <2>3, NoneConsecutive
  <2>5. i = Len(in) /\ Consecutive(in, q - i) /\ q - i = Start(d.sym)
    <3>1. q - i = p
      BY <2>3
    <3> QED
      BY <3>1, <1>5, <1>6, <1>7
  <2>6. q + z = fed + call.given /\ q + z <= NumBytes /\ z <= call.given /\ i <= q /\ i <= Required
    <3>1. q + z = p + i /\ z <= i
      BY <2>3
    <3>2. i <= Required /\ i <= q
      BY <2>1, <2>3, ConstantFacts
    <3>3. call.given \in Nat
      BY TypeFacts, CallFields
    <3> QED
      BY <3>1, <3>2, <3>3, <1>5
  <2>7. i > 0 => d.sym < NumSyms /\ i <= stream.syms[d.sym + 1].bytes
    BY <1>9, <1>10, <1>11, <1>13
  <2>8. PICK res \in {"ok", "data"}, status \in Statuses : res = "ok" /\ status = "needs_input"
    BY DEF Statuses
  <2>9. Return(res, status, none, [Rest EXCEPT !.tempBuf = in])
    BY <2>2, <2>3, <2>8
  <2>10. /\ res = "data" => status = "not_finished"
         /\ status \in {"not_finished", "maybe_finished"} => Full
         /\ status = "needs_input" => none = <<>> /\ res = "ok"
         /\ status # "finished_with_mark"
    BY <2>3, <2>8
  <2> QED
    BY <2>4, <2>5, <2>6, <2>7, <2>9, <2>10, <1>1, <1>2, RoundReturns
<1>14. CASE ~(i >= Required /\ ~Full) /\ TryDummy(i) # "eof"
  <2>1. d.sym < NumSyms /\ Symbol.bytes <= i /\ TryDummy(i) = Symbol.kind
    BY <1>9, <1>14
  <2>2. PICK b \in Nat : b = DummyBytes /\ b = Symbol.bytes /\ b <= Required
    BY <2>1, <1>10
  <2>3. ~(DummyBytes > Required)
    BY <2>2, ConstantFacts
  <2>4. CASE Full /\ TryDummy(i) \notin {"match", "end"}
    <3>1. Return("data", "not_finished", SubSeq(in, b + 1, i), [Rest EXCEPT !.tempBuf = SubSeq(in, 1, b)])
      BY <2>2, <2>3, <2>4, <1>8, <1>14
    <3>2. PICK z \in Nat : z = 0
      OBVIOUS
    <3>3. Consecutive(in, p) /\ z <= b /\ b <= i /\ i <= Len(in) /\ b <= Len(in) /\ p \in Int
      BY <2>1, <2>2, <3>2, <1>5, <1>7
    <3>4. SubSeq(in, z + 1, b) \in Seq(Nat) /\ Len(SubSeq(in, z + 1, b)) = b - z /\ Consecutive(SubSeq(in, z + 1, b), p + z)
      BY <3>3, PartConsecutive
    <3>5. SubSeq(in, b + 1, i) \in Seq(Nat) /\ Len(SubSeq(in, b + 1, i)) = i - b /\ Consecutive(SubSeq(in, b + 1, i), p + b)
      BY <3>3, PartConsecutive
    <3>6. PICK temp \in Seq(Nat), rest \in Seq(Nat) : temp = SubSeq(in, z + 1, b) /\ rest = SubSeq(in, b + 1, i)
      BY <3>4, <3>5
    <3>7. PICK q \in Nat, j \in Nat : q = p + b /\ j = i - b
      BY <3>3
    <3>8. z + 1 = 1 /\ b - z = b /\ p + z = p /\ q - b = p /\ q + j = p + i /\ j <= i
      BY <3>2, <3>7
    <3>9. j = Len(rest) /\ b = Len(temp) /\ Consecutive(rest, q) /\ Consecutive(temp, q - b) /\ q - b = Start(d.sym)
      BY <3>4, <3>5, <3>6, <3>7, <3>8, <1>6
    <3>10. q + j = fed + call.given /\ q + j <= NumBytes /\ j <= call.given /\ b <= q /\ b <= Required
      <4>1. call.given \in Nat /\ i <= call.given /\ p + i = fed + call.given /\ p + i <= NumBytes
        BY <1>5, TypeFacts, CallFields
      <4>2. q + j = p + i /\ j <= i /\ b <= q
        BY <3>7, <3>8
      <4>3. j <= call.given
        BY <4>1, <4>2
      <4> QED
        BY <4>1, <4>2, <4>3, <2>2
    <3>11. b > 0 => d.sym < NumSyms /\ b <= stream.syms[d.sym + 1].bytes
      BY <2>1, <2>2, <1>10
    <3>12. PICK res \in {"ok", "data"}, status \in Statuses : res = "data" /\ status = "not_finished"
      BY DEF Statuses
    <3>13. Return(res, status, rest, [Rest EXCEPT !.tempBuf = temp])
      BY <3>1, <3>6, <3>8, <3>12
    <3>14. /\ res = "data" => status = "not_finished"
           /\ status \in {"not_finished", "maybe_finished"} => Full
           /\ status = "needs_input" => rest = <<>> /\ res = "ok"
           /\ status # "finished_with_mark"
      BY <3>12, <2>4
    <3> QED
      BY <3>9, <3>10, <3>11, <3>13, <3>14, <1>1, <1>2, RoundReturns
  <2>5. CASE ~(Full /\ TryDummy(i) \notin {"match", "end"})
    <3>1. StartReal("in", 0, b)
      BY <2>2, <2>3, <2>5, <1>8, <1>14
    <3>2. PICK bufLimit \in Nat, dummy \in Nat \cup {-1} : bufLimit = 0 /\ dummy = b
      OBVIOUS
    <3>3. StartReal("in", bufLimit, dummy)
      BY <3>1, <3>2
    <3>4. Full => d.sym < NumSyms /\ Symbol.kind \in {"match", "end"}
      BY <2>1, <2>5
    <3>5. dummy # -1 /\ bufLimit = 0 /\ dummy = Symbol.bytes /\ dummy <= Len(call.in)
      BY <3>2, <2>1, <2>2, <1>5
    <3> QED
      BY <3>2, <3>3, <3>4, <3>5, <2>1, <1>1, <1>2, RealStarts
  <2> QED
    BY <2>4, <2>5
<1> QED
  BY <1>12, <1>13, <1>14

\* The symbol comes from the bytes that waited.
LEMMA FromTempStep ==
  ASSUME LzInv, FromTemp
  PROVE  LzInv'
<1>1. Round /\ ~Stop /\ d.tempBuf # <<>>
  BY DEF FromTemp
<1>2. PICK n \in Nat : RestIs(n)
  BY <1>1, RestFacts
<1>3. PICK p \in Nat, i \in Nat, w \in Nat : Hand(p, i, w)
  BY HandFacts
<1>4. p - w = Start(d.sym)
  BY <1>1, <1>3, RoundHand
<1>5. /\ i = Len(call.in) /\ w = Len(d.tempBuf) /\ p + i = fed + call.given /\ p + i <= NumBytes /\ i <= call.given
      /\ call.in \in Seq(Nat) /\ Consecutive(call.in, p) /\ d.tempBuf \in Seq(Nat) /\ w <= p
  BY <1>3 DEF Hand
<1>6. w > 0
  BY <1>1, <1>5, EmptySeq
<1>7. d.sym < NumSyms /\ w <= stream.syms[d.sym + 1].bytes
  BY <1>1, <1>3, <1>6, RoundHand
<1>8. PICK a \in Nat : /\ a = Ahead /\ a <= i /\ w + a <= Required /\ (a = i \/ w + a = Required)
                       /\ Joined \in Seq(Nat) /\ Len(Joined) = w + a /\ Consecutive(Joined, p - w)
  BY <1>3, JoinedFacts
<1>9. PICK in \in Seq(Nat), joined \in Seq(Nat), r \in Nat : in = call.in /\ joined = Joined /\ r = w + a
  BY <1>5, <1>8
<1>10. PICK b \in Nat : b = DummyBytes /\ b = Symbol.bytes /\ b <= Required /\ b = stream.syms[d.sym + 1].bytes
  BY <1>7, SymbolNow
<1>11. IF r >= Required /\ ~Full THEN StartReal("temp", 0, -1)
       ELSE IF TryDummy(r) = "eof"
       THEN IF r >= Required THEN FailNow
            ELSE Return("ok", "needs_input", SubSeq(in, a + 1, i), [Rest EXCEPT !.tempBuf = joined])
       ELSE IF b < w THEN FailNow
       ELSE IF Full /\ TryDummy(r) \notin {"match", "end"}
       THEN Return("data", "not_finished", SubSeq(in, b - w + 1, i), [Rest EXCEPT !.tempBuf = SubSeq(joined, 1, b)])
       ELSE StartReal("temp", 0, b)
  BY <1>5, <1>8, <1>9, <1>10 DEF FromTemp
<1>12. /\ TryDummy(r) = "eof" => b > r
       /\ TryDummy(r) # "eof" => b <= r /\ TryDummy(r) = Symbol.kind
  <2>1. d.sym # NumSyms
    BY <1>7, SymbolNow
  <2> QED
    BY <2>1, <1>10, DummyFacts
<1>13. Required \in Nat /\ call.given \in Nat
  BY ConstantFacts, TypeFacts, CallFields
<1>14. ~(b < w)
  BY <1>7, <1>10
<1>15. CASE r >= Required /\ ~Full
  <2>1. StartReal("temp", 0, -1)
    BY <1>11, <1>15
  <2>2. PICK bufLimit \in Nat, dummy \in Nat \cup {-1} : bufLimit = 0 /\ dummy = -1
    OBVIOUS
  <2>3. StartReal("temp", bufLimit, dummy)
    BY <2>1, <2>2
  <2>4. ~(dummy >= 0) /\ Required <= Len(Joined)
    BY <2>2, <1>8, <1>9, <1>13, <1>15
  <2> QED
    BY <2>2, <2>3, <2>4, <1>1, <1>2, <1>15, RealStarts
<1>16. CASE ~(r >= Required /\ ~Full) /\ TryDummy(r) = "eof"
  <2>1. ~(r >= Required) /\ b > r
    BY <1>10, <1>12, <1>13, <1>16
  <2>2. a = i
    BY <2>1, <1>8, <1>9, <1>13
  <2>3. Return("ok", "needs_input", SubSeq(in, a + 1, i), [Rest EXCEPT !.tempBuf = joined])
    BY <2>1, <1>11, <1>16
  <2>4. PICK none \in Seq(Nat), z \in Nat, q \in Nat : none = <<>> /\ z = 0 /\ q = p + i
    <3>1. <<>> \in Seq(Nat) /\ p + i \in Nat
      BY EmptySeq
    <3> QED
      BY <3>1
  <2>5. SubSeq(in, a + 1, i) = none
    <3>1. i < a + 1 /\ a + 1 \in Int /\ i \in Int
      BY <2>2
    <3> QED
      BY <3>1, <2>4, SubSeqEmpty
  <2>6. z = Len(none) /\ Consecutive(none, q)
    BY <2>4, NoneConsecutive
  <2>7. r = Len(joined) /\ Consecutive(joined, q - r) /\ q - r = Start(d.sym)
    <3>1. q - r = p - w
      BY <2>2, <2>4, <1>9
    <3> QED
      BY <3>1, <1>4, <1>8, <1>9
  <2>8. q + z = fed + call.given /\ q + z <= NumBytes /\ z <= call.given /\ r <= q /\ r <= Required
    <3>1. q + z = p + i /\ z <= call.given /\ r <= q
      BY <2>2, <2>4, <1>5, <1>9, <1>13
    <3>2. r <= Required
      BY <2>1, <1>13
    <3> QED
      BY <3>1, <3>2, <1>5
  <2>9. r > 0 => d.sym < NumSyms /\ r <= stream.syms[d.sym + 1].bytes
    <3>1. r <= b
      BY <2>1
    <3> QED
      BY <3>1, <1>7, <1>10
  <2>10. PICK res \in {"ok", "data"}, status \in Statuses : res = "ok" /\ status = "needs_input"
    BY DEF Statuses
  <2>11. Return(res, status, none, [Rest EXCEPT !.tempBuf = joined])
    BY <2>3, <2>5, <2>10
  <2>12. /\ res = "data" => status = "not_finished"
         /\ status \in {"not_finished", "maybe_finished"} => Full
         /\ status = "needs_input" => none = <<>> /\ res = "ok"
         /\ status # "finished_with_mark"
    BY <2>4, <2>10
  <2> QED
    BY <2>6, <2>7, <2>8, <2>9, <2>11, <2>12, <1>1, <1>2, RoundReturns
<1>17. CASE ~(r >= Required /\ ~Full) /\ TryDummy(r) # "eof"
  <2>1. b <= r /\ TryDummy(r) = Symbol.kind
    BY <1>12, <1>17
  <2>2. CASE Full /\ TryDummy(r) \notin {"match", "end"}
    <3>1. Return("data", "not_finished", SubSeq(in, b - w + 1, i), [Rest EXCEPT !.tempBuf = SubSeq(joined, 1, b)])
      BY <2>2, <1>11, <1>14, <1>17
    <3>2. PICK z \in Nat, c \in Nat, f \in Int : z = 0 /\ c = b - w /\ f = p - w
      BY <1>14
    <3>3. c <= a /\ c <= i
      BY <3>2, <2>1, <1>8, <1>9
    <3>4. Consecutive(joined, f) /\ z <= b /\ b <= Len(joined)
      BY <3>2, <2>1, <1>8, <1>9
    <3>5. /\ SubSeq(joined, z + 1, b) \in Seq(Nat) /\ Len(SubSeq(joined, z + 1, b)) = b - z
          /\ Consecutive(SubSeq(joined, z + 1, b), f + z)
      BY <3>4, PartConsecutive
    <3>6. Consecutive(in, p) /\ i <= Len(in) /\ p \in Int
      BY <1>5, <1>9
    <3>7. SubSeq(in, c + 1, i) \in Seq(Nat) /\ Len(SubSeq(in, c + 1, i)) = i - c /\ Consecutive(SubSeq(in, c + 1, i), p + c)
      BY <3>3, <3>6, PartConsecutive
    <3>8. PICK temp \in Seq(Nat), rest \in Seq(Nat) : temp = SubSeq(joined, z + 1, b) /\ rest = SubSeq(in, c + 1, i)
      BY <3>5, <3>7
    <3>9. PICK q \in Nat, j \in Nat : q = p + c /\ j = i - c
      BY <3>3
    <3>10. z + 1 = 1 /\ b - z = b /\ f + z = p - w /\ q - b = p - w /\ q + j = p + i /\ j <= i /\ b <= q /\ b - w + 1 = c + 1
      <4>1. j <= i /\ q + j = p + i /\ z + 1 = 1 /\ b - z = b /\ f + z = p - w
        BY <3>2, <3>3, <3>9
      <4>2. b = c + w /\ b - w + 1 = c + 1
        BY <3>2, <1>14
      <4>3. q - b = p - w /\ b <= q
        BY <4>2, <3>9, <1>5
      <4> QED
        BY <4>1, <4>2, <4>3
    <3>11. j = Len(rest) /\ b = Len(temp) /\ Consecutive(rest, q) /\ Consecutive(temp, q - b) /\ q - b = Start(d.sym)
      BY <3>5, <3>7, <3>8, <3>9, <3>10, <1>4
    <3>12. q + j = fed + call.given /\ q + j <= NumBytes /\ j <= call.given /\ b <= q /\ b <= Required
      <4>1. call.given \in Nat /\ i <= call.given /\ p + i = fed + call.given /\ p + i <= NumBytes
        BY <1>5, <1>13
      <4>2. j <= call.given
        BY <3>10, <4>1
      <4> QED
        BY <4>1, <4>2, <3>10, <1>10
    <3>13. b > 0 => d.sym < NumSyms /\ b <= stream.syms[d.sym + 1].bytes
      BY <1>7, <1>10
    <3>14. PICK res \in {"ok", "data"}, status \in Statuses : res = "data" /\ status = "not_finished"
      BY DEF Statuses
    <3>15. Return(res, status, rest, [Rest EXCEPT !.tempBuf = temp])
      BY <3>1, <3>8, <3>10, <3>14
    <3>16. /\ res = "data" => status = "not_finished"
           /\ status \in {"not_finished", "maybe_finished"} => Full
           /\ status = "needs_input" => rest = <<>> /\ res = "ok"
           /\ status # "finished_with_mark"
      BY <3>14, <2>2
    <3> QED
      BY <3>11, <3>12, <3>13, <3>15, <3>16, <1>1, <1>2, RoundReturns
  <2>3. CASE ~(Full /\ TryDummy(r) \notin {"match", "end"})
    <3>1. StartReal("temp", 0, b)
      BY <2>3, <1>11, <1>14, <1>17
    <3>2. PICK bufLimit \in Nat, dummy \in Nat \cup {-1} : bufLimit = 0 /\ dummy = b
      OBVIOUS
    <3>3. StartReal("temp", bufLimit, dummy)
      BY <3>1, <3>2
    <3>4. Full => d.sym < NumSyms /\ Symbol.kind \in {"match", "end"}
      BY <2>1, <2>3, <1>7
    <3>5. dummy # -1 /\ bufLimit = 0 /\ dummy = Symbol.bytes /\ dummy <= Len(Joined)
      BY <3>2, <2>1, <1>8, <1>9, <1>10
    <3> QED
      BY <3>2, <3>3, <3>4, <3>5, <1>7, <1>1, <1>2, RealStarts
  <2> QED
    BY <2>2, <2>3
<1> QED
  BY <1>15, <1>16, <1>17
-----------------------------------------------------------------------------
(* LZMA_DECODE_REAL                                                        *)

\* The bytes of the symbol are there.
LEMMA BytesAtHand ==
  ASSUME LzInv, pc = "real", d.sym < NumSyms
  PROVE  /\ RightBytes /\ real.off + Symbol.bytes <= Len(Buffer) /\ Len(Buffer) \in Nat
         /\ real.src = "temp" => real.off = 0
         /\ real.src = "in" => d.tempBuf = <<>>
         /\ Len(d.tempBuf) <= Symbol.bytes
<1>1. PICK p \in Nat, i \in Nat, w \in Nat : Hand(p, i, w)
  BY HandFacts
<1>2. /\ i = Len(call.in) /\ w = Len(d.tempBuf) /\ call.in \in Seq(Nat) /\ Consecutive(call.in, p) /\ d.tempBuf \in Seq(Nat)
      /\ ~NotStarted => (p - w) + (IF InReal THEN real.off ELSE 0) = Start(d.sym)
  BY <1>1 DEF Hand
<1>3. InReal /\ ~NotStarted
  <2>1. InReal
    BY DEF InReal
  <2>2. d.remainLen = 0
    BY <2>1 DEF LzInv, LevelInv
  <2> QED
    BY <2>1, <2>2 DEF NotStarted, kMatchSpecLenStart
<1>4. PICK off \in Nat, b \in Nat : off = real.off /\ b = Symbol.bytes /\ b <= Required
  BY TypeFacts, RealFields, SymbolNow
<1>5. (p - w) + off = Start(d.sym)
  BY <1>2, <1>3, <1>4
<1>6. /\ real.src = "in" => d.tempBuf = <<>>
      /\ real.dummy >= 0 => off = 0 /\ real.dummy = b /\ real.dummy <= Len(Buffer)
      /\ real.dummy = -1 /\ real.src = "in" => real.bufLimit = i - Required /\ off <= real.bufLimit
      /\ real.dummy = -1 /\ real.src = "temp" => off = 0 /\ Required <= Len(Joined)
      /\ w <= b
  BY <1>2, <1>3, <1>4 DEF LzInv, LoopInv
<1>7. real.src \in {"in", "temp"} /\ real.dummy \in Nat \cup {-1} /\ real.bufLimit \in Nat
  BY TypeFacts, RealFields
<1>8. Required \in Nat
  BY ConstantFacts
<1>9. PICK q \in Int, l \in Nat : q + off = Start(d.sym) /\ l = Len(Buffer) /\ Consecutive(Buffer, q) /\ off + b <= l
                                  /\ (real.src = "temp" => off = 0)
  <2>1. CASE real.src = "in"
    <3>1. w = 0 /\ Buffer = call.in
      BY <2>1, <1>2, <1>6, EmptySeq DEF Buffer
    <3>2. p + off = Start(d.sym)
      BY <3>1, <1>5
    <3>3. off + b <= i
      <4>1. CASE real.dummy >= 0
        BY <4>1, <3>1, <1>2, <1>6
      <4>2. CASE real.dummy = -1
        <5>1. off <= i - Required
          BY <4>2, <2>1, <1>6
        <5> QED
          BY <5>1, <1>4, <1>8
      <4> QED
        BY <4>1, <4>2, <1>7
    <3> QED
      BY <3>1, <3>2, <3>3, <2>1, <1>2
  <2>2. CASE real.src = "temp"
    <3>1. PICK a \in Nat : Joined \in Seq(Nat) /\ Len(Joined) = w + a /\ Consecutive(Joined, p - w)
      BY <1>1, JoinedFacts
    <3>2. Buffer = Joined
      BY <2>2 DEF Buffer
    <3>3. off = 0 /\ b <= Len(Joined)
      <4>1. CASE real.dummy >= 0
        BY <4>1, <3>2, <1>6
      <4>2. CASE real.dummy = -1
        BY <4>2, <2>2, <3>1, <1>4, <1>6, <1>8
      <4> QED
        BY <4>1, <4>2, <1>7
    <3>4. off + b <= w + a
      BY <3>1, <3>3
    <3>5. PICK q \in Int, l \in Nat : q = p - w /\ l = w + a
      OBVIOUS
    <3>6. q + off = Start(d.sym) /\ l = Len(Buffer) /\ Consecutive(Buffer, q) /\ off + b <= l
      BY <3>1, <3>2, <3>4, <3>5, <1>5
    <3> QED
      BY <3>3, <3>6
  <2> QED
    BY <2>1, <2>2, <1>7
<1>10. RightBytes
  <2>1. SUFFICES ASSUME NEW k \in 1 .. b PROVE real.off + k <= Len(Buffer) /\ Buffer[real.off + k] = Start(d.sym) + k
    BY <1>4 DEF RightBytes
  <2>2. off + k \in 1 .. l
    BY <1>9
  <2>3. Buffer[off + k] = q + (off + k)
    BY <2>2, <1>9 DEF Consecutive
  <2>4. q + (off + k) = Start(d.sym) + k
    BY <1>9
  <2> QED
    BY <2>2, <2>3, <2>4, <1>4, <1>9
<1> QED
  BY <1>2, <1>4, <1>6, <1>9, <1>10

\* What every symbol does: n bytes are written, len bytes of it are still owed or
\* len says how the stream ended.
SymbolNext(n, len) ==
  /\ pc = "real" /\ d.sym < NumSyms
  /\ stream' = stream /\ call' = call /\ fed' = fed /\ out' = out /\ last' = last
  /\ d' \in Decoders /\ d'.sym = d.sym + 1
  /\ d'.tempBuf = d.tempBuf /\ d'.remainLen = d.remainLen /\ d'.checkDicSize = d.checkDicSize
  /\ d'.dicBufSize = d.dicBufSize /\ d'.dicPos = d.dicPos + n /\ d'.total = d.total + n
  /\ d'.processedPos = (d.processedPos + n) % W
  /\ real' \in RealTypes /\ real'.src = real.src /\ real'.off = real.off + Symbol.bytes /\ real'.limit = real.limit
  /\ real'.bufLimit = real.bufLimit /\ real'.dummy = real.dummy /\ real'.len = len
  /\ real'.garbled = (real.garbled \/ ~RightBytes)
  /\ \/ pc' = "after"
     \/ pc' = "real" /\ len = 0 /\ d.dicPos + n < real.limit /\ real.off + Symbol.bytes - Symbol.late < real.bufLimit

\* What it does to the output.
SymbolOutput(n, len) ==
  /\ d.dicPos + n <= real.limit
  /\ len <= kMatchSpecLenStart \/ len >= kMatchSpecLen_ErrorData
  /\ Core(d', Owed(len))
  /\ \A k \in 1 .. Len(Ref(d.sym).out) : Ref(d.sym + 1).out[k] = Ref(d.sym).out[k]
  /\ Ref(d.sym + 1).bad <=> len >= kMatchSpecLen_ErrorData
  /\ Ref(d.sym + 1).ended <=> len = kMatchSpecLenStart

\* A symbol takes its bytes and no others.
LEMMA SymbolInput ==
  ASSUME LzInv, NEW n \in Nat, NEW len \in Nat, SymbolNext(n, len)
  PROVE  InputInv'
<1>1. PICK p \in Nat, i \in Nat, w \in Nat : Hand(p, i, w)
  BY HandFacts
<1>2. /\ i = Len(call.in) /\ w = Len(d.tempBuf) /\ p + i = fed + call.given /\ p + i <= NumBytes /\ i <= call.given
      /\ w <= p /\ w <= Required /\ Consecutive(call.in, p) /\ d.tempBuf \in Seq(Nat) /\ Consecutive(d.tempBuf, p - w)
      /\ ~NotStarted => (p - w) + (IF InReal THEN real.off ELSE 0) = Start(d.sym)
  BY <1>1 DEF Hand
<1>3. pc = "real" /\ d.sym < NumSyms /\ InReal
  BY DEF SymbolNext, InReal
<1>4. d.remainLen = 0
  BY <1>3 DEF LzInv, LevelInv
<1>5. (p - w) + real.off = Start(d.sym)
  BY <1>2, <1>3, <1>4 DEF NotStarted, kMatchSpecLenStart
<1>6. PICK off \in Nat, b \in Nat : off = real.off /\ b = Symbol.bytes
  BY <1>3, TypeFacts, RealFields, SymbolNow
<1>7. Start(d.sym + 1) = Start(d.sym) + b
  BY <1>3, <1>6, SymbolNow
<1>8. (p - w) + (off + b) = Start(d.sym + 1)
  BY <1>5, <1>6, <1>7
<1>9. real'.off = off + b /\ d'.sym = d.sym + 1 /\ pc' \in {"real", "after"} /\ d'.remainLen = 0 /\ d'.tempBuf = d.tempBuf
      /\ call' = call /\ fed' = fed /\ stream' = stream
  BY <1>4, <1>6 DEF SymbolNext
<1>10. fed \in Nat /\ call.given \in Nat
  BY TypeFacts, CallFields
<1>11. HandNext(p, i, w)
  <2>1. d'.remainLen # kMatchSpecLenStart + 2
    BY <1>9 DEF kMatchSpecLenStart
  <2>2. (p - w) + (IF pc' \in {"real", "after"} THEN real'.off ELSE 0) = Start(d'.sym)
    BY <1>8, <1>9
  <2>3. i = Len(call'.in) /\ w = Len(d'.tempBuf) /\ p + i = fed' + call'.given /\ i <= call'.given
    BY <1>2, <1>9
  <2>4. Consecutive(call'.in, p) /\ Consecutive(d'.tempBuf, p - w) /\ d'.tempBuf \in Seq(Nat)
    BY <1>2, <1>9
  <2>5. fed' \in Nat /\ call'.given \in Nat
    BY <1>9, <1>10
  <2> QED
    BY <2>1, <2>2, <2>3, <2>4, <2>5, <1>2, <1>9 DEF HandNext
<1> QED
  BY <1>9, <1>11, InputNext

\* There is room and input for the next symbol, or LZMA_DECODE_REAL ends.
LEMMA SymbolLoop ==
  ASSUME LzInv, NEW n \in Nat, NEW len \in Nat, SymbolNext(n, len), d.dicPos + n <= real.limit
  PROVE  LoopInv'
<1>1. pc = "real" /\ d.sym < NumSyms /\ InReal
  BY DEF SymbolNext, InReal
<1>2. PICK off \in Nat, b \in Nat, late \in Nat, l \in Nat, pos \in Nat, total \in Nat, limit \in Nat, bl \in Nat :
        /\ off = real.off /\ b = Symbol.bytes /\ late = Symbol.late /\ l = Len(Buffer) /\ pos = d.dicPos
        /\ total = d.total /\ limit = real.limit /\ bl = real.bufLimit /\ late <= 1 /\ late <= b /\ b <= Required
  <2>1. real.off \in Nat /\ real.limit \in Nat /\ real.bufLimit \in Nat /\ d.dicPos \in Nat /\ d.total \in Nat
    BY TypeFacts, RealFields, DecoderFields
  <2>2. IsSymbol(Symbol) /\ Len(Buffer) \in Nat
    BY <1>1, SymbolNow, BytesAtHand
  <2>3. Symbol.bytes \in Nat /\ Symbol.late \in Nat /\ Symbol.late <= 1 /\ Symbol.late <= Symbol.bytes /\ Symbol.bytes <= Required
    BY <2>2, SymbolFacts
  <2> QED
    BY <2>1, <2>2, <2>3
<1>3. /\ RightBytes /\ off + b <= l
      /\ real.src = "temp" => off = 0
      /\ real.src = "in" => d.tempBuf = <<>>
      /\ Len(d.tempBuf) <= b
  BY <1>1, <1>2, BytesAtHand
<1>4. /\ ~real.garbled
      /\ limit <= call.dicLimit
      /\ d.checkDicSize = 0 => total < DicSize /\ limit <= pos + (DicSize - total)
      /\ real.dummy >= 0 => off = 0 /\ bl = 0 /\ real.dummy = b
      /\ real.dummy = -1 /\ real.src = "in" => bl = Len(call.in) - Required /\ off <= bl
      /\ real.dummy = -1 /\ real.src = "temp" => off = 0 /\ bl = 0 /\ Required <= Len(Joined)
  BY <1>1, <1>2 DEF LzInv, LoopInv
<1>5. real.src \in {"in", "temp"} /\ real.dummy \in Nat \cup {-1}
  BY TypeFacts, RealFields
<1>6. /\ call' = call /\ d'.tempBuf = d.tempBuf /\ d'.dicPos = pos + n /\ d'.total = total + n
      /\ d'.checkDicSize = d.checkDicSize
      /\ real'.src = real.src /\ real'.off = off + b /\ real'.limit = limit /\ real'.bufLimit = bl
      /\ real'.dummy = real.dummy /\ ~real'.garbled
  BY <1>2, <1>3, <1>4 DEF SymbolNext
<1>7. Buffer' = Buffer /\ Joined' = Joined
  BY <1>6 DEF Buffer, Joined, Ahead
<1>8. /\ pc' \in {"real", "after"}
      /\ pc' = "real" => pos + n < limit /\ (off + b) - late < bl
  BY <1>2 DEF SymbolNext
<1>9. pc' = "real" => real.dummy = -1 /\ real.src = "in" /\ off + b <= bl
  <2>1. (off + b) - late < bl => bl # 0 /\ off + b <= bl
    <3>1. late <= 1 /\ late <= b
      BY <1>2
    <3> QED
      BY <3>1
  <2> QED
    BY <2>1, <1>4, <1>5, <1>8
<1>10. CASE pc' = "real"
  <2>1. d.tempBuf = <<>>
    BY <1>3, <1>9, <1>10
  <2>2. d'.sym < NumSyms' => Len(d'.tempBuf) <= Symbol'.bytes
    <3>1. SUFFICES ASSUME d'.sym < NumSyms' PROVE Len(d'.tempBuf) <= Symbol'.bytes
      OBVIOUS
    <3>2. stream' = stream /\ stream \in Streams /\ d'.sym = d.sym + 1 /\ d.sym \in Nat
      BY TypeFacts, DecoderFields DEF SymbolNext
    <3>3. NumSyms' = NumSyms /\ Symbol' = stream.syms[d'.sym + 1]
      BY <3>2, SameStream
    <3>4. d'.sym + 1 \in 1 .. NumSyms /\ NumSyms \in Nat
      BY <3>1, <3>2, <3>3, StreamFacts
    <3>5. Symbol'.bytes \in Nat
      BY <3>2, <3>3, <3>4, StreamFacts, SymbolFacts
    <3>6. Len(d'.tempBuf) = 0
      BY <2>1, <1>6, EmptySeq
    <3> QED
      BY <3>5, <3>6
  <2>3. pos + n < limit
    BY <1>8, <1>10
  <2>4. d'.checkDicSize = 0 => d'.total < DicSize /\ limit <= d'.dicPos + (DicSize - d'.total)
    <3>1. SUFFICES ASSUME d.checkDicSize = 0 PROVE total + n < DicSize /\ limit <= (pos + n) + (DicSize - (total + n))
      BY <1>6
    <3>2. limit <= pos + (DicSize - total) /\ DicSize \in Nat
      BY <3>1, <1>4, ConstantFacts
    <3> QED
      BY <2>3, <3>2
  <2>5. d'.dicPos <= real'.limit /\ d'.dicPos # real'.limit /\ real'.limit <= call'.dicLimit
    BY <2>3, <1>4, <1>6
  <2>6. real'.dummy = -1 /\ real'.src = "in" /\ real'.bufLimit = Len(call'.in) - Required /\ real'.off <= real'.bufLimit
    BY <1>4, <1>6, <1>9, <1>10
  <2>7. ~(real'.dummy >= 0) /\ d'.tempBuf = <<>> /\ pc' # "after"
    BY <2>1, <2>6, <1>6, <1>10
  <2> QED
    BY <2>2, <2>4, <2>5, <2>6, <2>7, <1>6 DEF LoopInv, InReal
<1>11. CASE pc' = "after"
  <2>1. real'.off <= Len(Buffer') /\ Len(d'.tempBuf) <= real'.off
    <3>1. Len(d.tempBuf) \in Nat
      BY TypeFacts, DecoderFields, NatSeq
    <3>2. Len(d.tempBuf) <= off + b
      BY <3>1, <1>3
    <3> QED
      BY <3>2, <1>2, <1>3, <1>6, <1>7
  <2>2. real'.dummy >= 0 => real'.dummy = real'.off
    BY <1>4, <1>6
  <2>3. real'.src = "temp" => real'.off <= Required
    BY <1>2, <1>3, <1>6
  <2>4. real'.src = "in" => d'.tempBuf = <<>>
    BY <1>3, <1>6
  <2>5. pc' # "real"
    BY <1>11
  <2> QED
    BY <2>1, <2>2, <2>3, <2>4, <2>5, <1>6, <1>11 DEF LoopInv, InReal
<1> QED
  BY <1>8, <1>10, <1>11

\* checkDicSize and processedPos follow the bytes that a symbol wrote.
LEMMA SymbolChecks ==
  ASSUME LzInv, NEW n \in Nat, NEW len \in Nat, SymbolNext(n, len), d.dicPos + n <= real.limit
  PROVE  CheckInv'
<1>1. pc = "real"
  BY DEF SymbolNext
<1>2. PICK pos \in Nat, total \in Nat, limit \in Nat, proc \in Nat, dic \in Nat :
        pos = d.dicPos /\ total = d.total /\ limit = real.limit /\ proc = d.processedPos /\ dic = DicSize
  BY TypeFacts, RealFields, DecoderFields, ConstantFacts
<1>3. /\ total < dic => d.checkDicSize = 0 /\ proc = total
      /\ total >= dic => d.checkDicSize = dic /\ proc = total % W
  BY <1>1, <1>2, CoreNow DEF Checks
<1>4. dic > 0 /\ W \in Nat /\ W > dic
  BY <1>2, ConstantFacts
<1>5. /\ d'.checkDicSize = d.checkDicSize /\ d'.total = total + n /\ d'.processedPos = (proc + n) % W
      /\ pc' = "after" \/ (pc' = "real" /\ pos + n < limit)
  BY <1>2 DEF SymbolNext
<1>6. CASE total >= dic
  <2>1. (proc + n) % W = (total + n) % W
    BY <1>3, <1>6, WrapsTwice
  <2>2. total + n >= dic
    BY <1>6
  <2> QED
    BY <2>1, <2>2, <1>2, <1>3, <1>5, <1>6 DEF CheckInv, Checks
<1>7. CASE total < dic
  <2>1. limit <= pos + (dic - total) /\ pos + n <= limit
    BY <1>1, <1>2, <1>3, <1>7 DEF LzInv, LoopInv
  <2>2. total + n <= dic /\ (pos + n < limit => total + n < dic)
    BY <2>1, <1>7
  <2>3. (proc + n) % W = (total + n) % W
    BY <1>3, <1>7
  <2>4. CASE total + n < dic
    <3>1. (total + n) % W = total + n
      <4>1. total + n \in Nat /\ total + n < W
        BY <2>4, <1>4
      <4> QED
        BY <4>1, Wraps
    <3> QED
      BY <2>3, <2>4, <3>1, <1>2, <1>3, <1>5, <1>7 DEF CheckInv, Checks
  <2>5. CASE ~(total + n < dic)
    <3>1. total + n = dic /\ pc' = "after"
      BY <2>2, <2>5, <1>5
    <3> QED
      BY <2>3, <3>1, <1>2, <1>3, <1>5, <1>7 DEF CheckInv, LateChecks
  <2> QED
    BY <2>4, <2>5
<1> QED
  BY <1>6, <1>7

\* Types, output, level and call after a symbol.
LEMMA SymbolRest ==
  ASSUME LzInv, NEW n \in Nat, NEW len \in Nat, SymbolNext(n, len), SymbolOutput(n, len)
  PROVE  TypesInv' /\ WideInv' /\ OutInv' /\ LevelInv' /\ CallInv' /\ ReturnInv' /\ LastInv'
<1>1. /\ stream \in Streams /\ d \in Decoders /\ call \in CallTypes /\ last \in LastTypes
      /\ fed \in Nat /\ out \in Seq(Nat)
  BY TypeFacts
<1>2. /\ pc = "real" /\ InReal /\ InDic /\ pc' \in {"real", "after"} /\ InDic' /\ InReal'
      /\ (pc' = "real" => len = 0)
  BY DEF SymbolNext, InReal, InDic
<1>3. PICK pos \in Nat, total \in Nat, limit \in Nat, from \in Nat, l \in Nat :
        pos = d.dicPos /\ total = d.total /\ limit = real.limit /\ from = call.from /\ l = Len(out)
  BY <1>1, TypeFacts, DecoderFields, CallFields, RealFields, NatSeq
<1>4. /\ stream' = stream /\ call' = call /\ fed' = fed /\ out' = out /\ last' = last
      /\ d' \in Decoders /\ d'.sym = d.sym + 1 /\ d'.remainLen = d.remainLen /\ d'.dicBufSize = d.dicBufSize
      /\ d'.dicPos = pos + n /\ d'.total = total + n /\ real'.len = len
  BY <1>3 DEF SymbolNext
<1>5. Ref(d.sym)' = Ref(d.sym + 1) /\ NumSyms' = NumSyms
  BY <1>4, SameStream
<1>6. TypesInv'
  BY <1>1, <1>2, <1>4 DEF TypesInv, SymbolNext
<1>7. WideInv'
  BY <1>2, <1>4 DEF LzInv, WideInv
<1>8. OutInv'
  <2>1. total = l + (pos - from) /\ from <= pos /\ \A k \in 1 .. l : out[k] = Ref(d.sym).out[k]
    BY <1>2, <1>3 DEF LzInv, OutInv
  <2>2. l <= Len(Ref(d.sym).out) /\ Len(Ref(d.sym).out) \in Nat
    <3>1. Owed(Level) \in Nat
      BY <1>2, TypeFacts, RealFields DEF Level, Owed
    <3>2. Len(Ref(d.sym).out) = total + Owed(Level)
      BY <3>1, <1>1, <1>3, CoreNow, CoreFacts
    <3> QED
      BY <2>1, <3>1, <3>2
  <2>3. \A k \in 1 .. l : out[k] = Ref(d.sym + 1).out[k]
    BY <2>1, <2>2 DEF SymbolOutput
  <2>4. total + n = l + ((pos + n) - from) /\ from <= pos + n
    BY <2>1
  <2> QED
    BY <2>3, <2>4, <1>2, <1>3, <1>4, <1>5 DEF OutInv
<1>9. LevelInv'
  <2>1. d.remainLen = 0
    BY <1>2 DEF LzInv, LevelInv
  <2>2. Level' = len
    BY <1>2, <1>4 DEF Level
  <2>3. d'.sym # 0
    <3>1. d.sym \in Nat
      BY <1>1, DecoderFields
    <3> QED
      BY <3>1, <1>4
  <2>4. ~NotStarted'
    BY <2>1, <1>4 DEF NotStarted, kMatchSpecLenStart
  <2>5. /\ len <= kMatchSpecLenStart \/ len >= kMatchSpecLen_ErrorData
        /\ Ref(d.sym + 1).bad <=> len >= kMatchSpecLen_ErrorData
        /\ Ref(d.sym + 1).ended <=> len = kMatchSpecLenStart
    BY DEF SymbolOutput
  <2>6. d'.remainLen = 0 /\ 0 \in 0 .. kMatchSpecLenStart
    BY <2>1, <1>4 DEF kMatchSpecLenStart
  <2>7. pc' # "loop"
    BY <1>2
  <2> QED
    BY <2>2, <2>3, <2>4, <2>5, <2>6, <2>7, <1>2, <1>4, <1>5 DEF LevelInv
<1>10. CallInv'
  <2>1. /\ call.op # "none" /\ call.dicLimit <= d.dicBufSize /\ call.dicLimit - from <= call.outSize
        /\ call.dicLimit - from = call.outSize \/ (call.op = "buf" /\ from < call.dicLimit)
        /\ call.op = "one" => from = 0 /\ fed = 0 /\ out = <<>>
    BY <1>2, <1>3 DEF LzInv, CallInv
  <2>2. limit <= call.dicLimit /\ pos + n <= limit
    BY <1>2, <1>3 DEF LzInv, LoopInv, SymbolOutput
  <2>3. pos + n <= call.dicLimit
    <3>1. call.dicLimit \in Nat
      BY <1>1, CallFields
    <3> QED
      BY <3>1, <2>2
  <2>4. pc' \notin {"idle", "over", "buf"}
    BY <1>2
  <2> QED
    BY <2>1, <2>3, <2>4, <1>3, <1>4 DEF CallInv
<1>11. ReturnInv'
  BY <1>2, NotReturned
<1>12. LastInv'
  <2>1. last.res # "fail" /\ last' = last /\ pc' \notin {"idle", "over"}
    BY <1>2, <1>4 DEF LzInv, LastInv
  <2> QED
    BY <2>1 DEF LastInv
<1> QED
  BY <1>6, <1>7, <1>8, <1>9, <1>10, <1>11, <1>12

\* The end of an iteration keeps the invariant.
LEMMA SymbolStep ==
  ASSUME LzInv, NEW n \in Nat, NEW len \in Nat, SymbolNext(n, len), SymbolOutput(n, len)
  PROVE  LzInv'
<1>1. d.dicPos + n <= real.limit /\ Core(d', Owed(len))
  BY DEF SymbolOutput
<1>2. InputInv' /\ LoopInv' /\ CheckInv'
  BY <1>1, SymbolInput, SymbolLoop, SymbolChecks
<1>3. stream' = stream /\ pc' \in {"real", "after"} /\ real'.len = len
  BY DEF SymbolNext
<1>4. CoreInv'
  <2>1. PICK x : x = Owed(len)
    OBVIOUS
  <2>2. x = Owed(IF pc' \in {"real", "after"} THEN real'.len ELSE d'.remainLen) /\ Core(d', x)
    BY <2>1, <1>1, <1>3
  <2> QED
    BY <2>2, <1>3, CoreNext
<1>5. TypesInv' /\ WideInv' /\ OutInv' /\ LevelInv' /\ CallInv' /\ ReturnInv' /\ LastInv'
  BY SymbolRest
<1> QED
  BY <1>2, <1>4, <1>5 DEF LzInv

\* What Decoded says of a decoder that is changed as SymbolNext wants.
LEMMA DecodedNext ==
  ASSUME LzInv, d.sym < NumSyms, NEW dec \in Decoders, NEW len \in Nat, NEW break \in BOOLEAN, Decoded(dec, len, break),
         NEW n \in Nat, dec.sym = d.sym, dec.tempBuf = d.tempBuf, dec.remainLen = d.remainLen,
         dec.checkDicSize = d.checkDicSize, dec.dicBufSize = d.dicBufSize, dec.dicPos = d.dicPos + n,
         dec.total = d.total + n, dec.processedPos = (d.processedPos + n) % W,
         ~break /\ d.dicPos + n < real.limit => len = 0
  PROVE  SymbolNext(n, len) /\ d'.dic = dec.dic /\ d'.reps = dec.reps /\ d'.afterMatch = dec.afterMatch
<1>1. /\ pc = "real" /\ d' = [dec EXCEPT !.sym = @ + 1]
      /\ real' = [real EXCEPT !.off = @ + Symbol.bytes, !.len = len, !.garbled = @ \/ ~RightBytes]
      /\ pc' = IF ~break /\ dec.dicPos < real.limit
                  /\ real.off + Symbol.bytes - Symbol.late < real.bufLimit THEN "real" ELSE "after"
      /\ stream' = stream /\ call' = call /\ fed' = fed /\ out' = out /\ last' = last
  BY DEF Decoded
<1>2. d' \in Decoders /\ d'.sym = d.sym + 1 /\ d'.tempBuf = dec.tempBuf /\ d'.remainLen = dec.remainLen
      /\ d'.checkDicSize = dec.checkDicSize /\ d'.dicBufSize = dec.dicBufSize /\ d'.dicPos = dec.dicPos
      /\ d'.total = dec.total /\ d'.processedPos = dec.processedPos
      /\ d'.dic = dec.dic /\ d'.reps = dec.reps /\ d'.afterMatch = dec.afterMatch
  <2>1. PICK m \in Nat : m = dec.sym + 1
    BY DecoderFields
  <2>2. d' = [dec EXCEPT !.sym = m]
    BY <2>1, <1>1
  <2>3. d' \in Decoders /\ d'.sym = m /\ d'.tempBuf = dec.tempBuf /\ d'.remainLen = dec.remainLen
        /\ d'.checkDicSize = dec.checkDicSize /\ d'.dicBufSize = dec.dicBufSize /\ d'.dicPos = dec.dicPos
        /\ d'.total = dec.total /\ d'.processedPos = dec.processedPos
        /\ d'.dic = dec.dic /\ d'.reps = dec.reps /\ d'.afterMatch = dec.afterMatch
    BY <2>2 DEF Decoders
  <2> QED
    BY <2>1, <2>3
<1>3. real \in RealTypes /\ Symbol.bytes \in Nat
  BY TypeFacts, SymbolNow
<1>4. /\ real' \in RealTypes /\ real'.src = real.src /\ real'.off = real.off + Symbol.bytes /\ real'.limit = real.limit
      /\ real'.bufLimit = real.bufLimit /\ real'.dummy = real.dummy /\ real'.len = len
      /\ real'.garbled = (real.garbled \/ ~RightBytes)
  <2>1. PICK g \in BOOLEAN : g = (real.garbled \/ ~RightBytes)
    BY DEF RightBytes
  <2>2. PICK o \in Nat : o = real.off + Symbol.bytes
    BY <1>3, RealFields
  <2>3. real' = [real EXCEPT !.off = o, !.len = len, !.garbled = g]
    BY <2>1, <2>2, <1>1
  <2>4. real' \in RealTypes /\ real'.src = real.src /\ real'.off = o /\ real'.limit = real.limit
        /\ real'.bufLimit = real.bufLimit /\ real'.dummy = real.dummy /\ real'.len = len /\ real'.garbled = g
    BY <2>3, <1>3 DEF RealTypes
  <2> QED
    BY <2>1, <2>2, <2>4
<1>5. \/ pc' = "after"
      \/ pc' = "real" /\ len = 0 /\ d.dicPos + n < real.limit /\ real.off + Symbol.bytes - Symbol.late < real.bufLimit
  BY <1>1
<1> QED
  BY <1>1, <1>2, <1>4, <1>5 DEF SymbolNext

\* The decoder before a symbol, with numbers for its fields; o is the output so far.
AtSymbol(o, pos, total, size, limit) ==
  /\ pc = "real" /\ d.sym < NumSyms /\ IsSymbol(Symbol)
  /\ o = Ref(d.sym).out /\ o \in Seq(Nat) /\ Len(o) = total
  /\ pos = d.dicPos /\ total = d.total /\ size = d.dicBufSize /\ limit = real.limit
  /\ Data(d, o, 0) /\ Holds(d.dic, pos, size, total, o)
  /\ pos <= limit /\ limit <= size /\ (DicSize <= size \/ total = pos)
  /\ pos = limit => Symbol.kind \in {"match", "end"}
  /\ d.reps = Ref(d.sym).reps /\ Len(d.reps) = 4 /\ d.reps \in Seq(Nat)
  /\ \A k \in 1 .. 4 : d.reps[k] \in Nat \ {0}
  /\ total > 0 => \A k \in 1 .. 4 : d.reps[k] <= total /\ d.reps[k] <= DicSize /\ d.reps[k] <= size
  /\ d.afterMatch \/ Symbol.kind = "rep" => total > 0
  /\ ~Ref(d.sym).bad /\ ~Ref(d.sym).ended
  /\ Ref(d.sym + 1) = RefStep(Ref(d.sym), Symbol)

\* Names for what a symbol starts from.
LEMMA SymbolReal ==
  ASSUME LzInv, pc = "real", d.sym < NumSyms
  PROVE  \E o \in Seq(Nat), pos \in Nat, total \in Nat, size \in Nat, limit \in Nat : AtSymbol(o, pos, total, size, limit)
<1>1. stream \in Streams /\ d \in Decoders /\ call \in CallTypes /\ real \in RealTypes
  BY TypeFacts
<1>2. InReal /\ InDic /\ real.len = 0 /\ Level = 0 /\ d.remainLen = 0
  BY DEF InReal, InDic, Level, LzInv, LevelInv
<1>3. PICK pos \in Nat, total \in Nat, size \in Nat, limit \in Nat, z \in Nat, m \in Nat :
        pos = d.dicPos /\ total = d.total /\ size = d.dicBufSize /\ limit = real.limit /\ z = 0 /\ m = d.sym
  BY <1>1, DecoderFields, RealFields
<1>4. Core(d, z)
  BY <1>2, <1>3, CoreNow DEF Owed, kMatchSpecLenStart
<1>5. /\ RefIs(Ref(m), m) /\ Ref(m).out \in Seq(Nat) /\ Len(Ref(m).out) = total + z /\ Data(d, Ref(m).out, z)
  BY <1>1, <1>3, <1>4, CoreFacts
<1>6. PICK o \in Seq(Nat) : o = Ref(m).out
  BY <1>5
<1>7. /\ DicSize <= size \/ total = pos
      /\ Holds(d.dic, pos, size, total, o) /\ pos <= size /\ Data(d, o, 0) /\ Len(o) = total
  <2>1. Data(d, o, z) /\ Len(o) = total + z
    BY <1>5, <1>6
  <2> QED
    BY <2>1, <1>3, DataFacts
<1>8. ~Ref(m).bad /\ ~Ref(m).ended
  BY <1>2, <1>3 DEF LzInv, LevelInv, kMatchSpecLenStart, kMatchSpecLen_ErrorData
<1>9. d.reps = Ref(m).reps /\ (\A k \in 1 .. 4 : d.reps[k] \in Nat \ {0}) /\ (d.afterMatch => m > 0)
  BY <1>3, <1>4, <1>8 DEF Core
<1>10. Len(d.reps) = 4 /\ d.reps \in Seq(Nat) /\ (\A k \in 1 .. 4 : d.reps[k] \in 1 .. DicSize /\ (d.reps[k] <= Len(o) \/ d.reps[k] = 1))
  BY <1>5, <1>6, <1>9 DEF RefIs
<1>11. total > 0 => \A k \in 1 .. 4 : d.reps[k] <= total /\ d.reps[k] <= DicSize /\ d.reps[k] <= size
  <2>1. SUFFICES ASSUME total > 0, NEW k \in 1 .. 4 PROVE d.reps[k] <= total /\ d.reps[k] <= DicSize /\ d.reps[k] <= size
    OBVIOUS
  <2>2. PICK x \in Nat : x = d.reps[k]
    BY <1>9
  <2>3. x <= DicSize /\ (x <= total \/ x = 1)
    <3>1. d.reps[k] \in 1 .. DicSize /\ (d.reps[k] <= Len(o) \/ d.reps[k] = 1)
      BY <1>10
    <3>2. x \in 1 .. DicSize /\ (x <= total \/ x = 1)
      BY <3>1, <2>2, <1>7
    <3> QED
      BY <3>2, ConstantFacts
  <2>4. x <= total
    BY <2>1, <2>3
  <2>5. x <= size
    BY <2>3, <2>4, <1>7, ConstantFacts
  <2> QED
    BY <2>2, <2>3, <2>4, <2>5
<1>12. m > 0 => total > 0
  BY <1>5, <1>6, <1>7, <1>8 DEF RefIs
<1>13. IsSymbol(Symbol) /\ Symbol = stream.syms[m + 1] /\ m < NumSyms /\ NumSyms \in Nat
  BY <1>3, SymbolNow
<1>14. Symbol.kind = "rep" => m > 0
  <2>1. SUFFICES ASSUME m = 0 PROVE Symbol.kind # "rep"
    BY <1>3
  <2>2. ~NotStarted /\ NumSyms > 0
    BY <2>1, <1>2, <1>13 DEF NotStarted, kMatchSpecLenStart
  <2>3. stream.syms[1].kind # "rep"
    BY <2>1, <2>2, <1>3 DEF LzInv, LevelInv
  <2> QED
    BY <2>1, <2>3, <1>13
<1>15. Ref(m + 1) = RefStep(Ref(m), Symbol)
  <2>1. Ref(m + 1) = RefStep(Ref(m), stream.syms[m + 1])
    BY <1>1, <1>13, RefFacts
  <2> QED
    BY <2>1, <1>13
<1>16. pos <= limit /\ limit <= size /\ (pos = limit => Symbol.kind \in {"match", "end"})
  <2>1. pos <= limit /\ limit <= call.dicLimit /\ (pos = limit => Symbol.kind \in {"match", "end"})
    BY <1>3 DEF LzInv, LoopInv
  <2>2. call.dicLimit <= size /\ call.dicLimit \in Nat
    BY <1>1, <1>2, <1>3, CallFields DEF LzInv, CallInv
  <2> QED
    BY <2>1, <2>2
<1>17. d.afterMatch \/ Symbol.kind = "rep" => total > 0
  BY <1>9, <1>12, <1>14
<1> QED
  BY <1>3, <1>6, <1>7, <1>8, <1>9, <1>10, <1>11, <1>13, <1>15, <1>16, <1>17 DEF AtSymbol

\* The bytes that choose the probabilities of a literal are those of the stream.
LEMMA ContextHolds ==
  ASSUME LzInv, NEW o, NEW pos \in Nat, NEW total \in Nat, NEW size \in Nat, NEW limit \in Nat,
         AtSymbol(o, pos, total, size, limit)
  PROVE  LiteralContext
<1>1. /\ o = Ref(d.sym).out /\ o \in Seq(Nat) /\ Len(o) = total /\ pos = d.dicPos /\ size = d.dicBufSize /\ total = d.total
      /\ Holds(d.dic, pos, size, total, o) /\ pos <= size /\ (DicSize <= size \/ total = pos)
      /\ d.reps = Ref(d.sym).reps /\ (d.afterMatch => total > 0)
      /\ \A k \in 1 .. 4 : d.reps[k] \in Nat \ {0}
      /\ total > 0 => \A k \in 1 .. 4 : d.reps[k] <= total /\ d.reps[k] <= DicSize /\ d.reps[k] <= size
  <2>1. pos <= limit /\ limit <= size
    BY DEF AtSymbol
  <2>2. pos <= size
    BY <2>1
  <2> QED
    BY <2>2 DEF AtSymbol
<1>2. PICK dic \in Nat : dic = DicSize /\ dic > 0
  BY ConstantFacts
<1>3. /\ total < dic => d.checkDicSize = 0 /\ d.processedPos = total
      /\ total >= dic => d.checkDicSize = dic
  BY <1>1, <1>2, CoreNow DEF Checks, AtSymbol
<1>4. \A k \in 1 .. size : k <= total => d.dic[Place(pos, k, size)] = o[total + 1 - k]
  BY <1>1 DEF Holds
<1>5. (d.processedPos # 0 \/ d.checkDicSize # 0) =>
        d.dic[(IF d.dicPos = 0 THEN d.dicBufSize ELSE d.dicPos) - 1] = Last(Ref(d.sym).out)
  <2>1. SUFFICES ASSUME d.processedPos # 0 \/ d.checkDicSize # 0
                 PROVE  d.dic[(IF pos = 0 THEN size ELSE pos) - 1] = o[total]
    BY <1>1 DEF Last
  <2>2. total >= 1
    BY <2>1, <1>2, <1>3
  <2>3. PICK k \in Nat : k = 1
    OBVIOUS
  <2>4. k \in 1 .. size /\ k <= total
    BY <2>2, <2>3, <1>1, <1>2
  <2>5. d.dic[Place(pos, k, size)] = o[total + 1 - k]
    BY <2>4, <1>4
  <2>6. total + 1 - k = total /\ Place(pos, k, size) = (IF pos = 0 THEN size ELSE pos) - 1
    BY <2>3 DEF Place
  <2> QED
    BY <2>5, <2>6
<1>6. d.processedPos = 0 /\ d.checkDicSize = 0 => Ref(d.sym).out = <<>>
  <2>1. SUFFICES ASSUME d.processedPos = 0, d.checkDicSize = 0 PROVE o = <<>>
    BY <1>1
  <2>2. total = 0
    BY <2>1, <1>2, <1>3
  <2> QED
    BY <2>2, <1>1, EmptySeq
<1>7. d.afterMatch => d.dic[Back(d.dicPos, d.reps[1])] = Ref(d.sym).out[Len(Ref(d.sym).out) + 1 - Ref(d.sym).reps[1]]
  <2>1. SUFFICES ASSUME d.afterMatch PROVE d.dic[Back(pos, d.reps[1])] = o[total + 1 - d.reps[1]]
    BY <1>1
  <2>2. PICK k \in Nat : k = d.reps[1] /\ k >= 1 /\ k <= total /\ k <= size
    <3>1. 1 \in 1 .. 4
      OBVIOUS
    <3>2. d.reps[1] \in Nat \ {0} /\ d.reps[1] <= total /\ d.reps[1] <= size
      BY <2>1, <3>1, <1>1
    <3> QED
      BY <3>2
  <2>3. d.dic[Place(pos, k, size)] = o[total + 1 - k]
    BY <2>2, <1>4
  <2>4. Back(pos, k) = Place(pos, k, size)
    BY <2>2, <1>1 DEF Back, Place
  <2> QED
    BY <2>2, <2>3, <2>4
<1> QED
  BY <1>5, <1>6, <1>7 DEF LiteralContext

\* A literal is decoded to its byte.
LEMMA LiteralStep ==
  ASSUME LzInv, Literal
  PROVE  LzInv'
<1>1. pc = "real" /\ d.sym < NumSyms /\ Symbol.kind = "lit"
  BY DEF Literal
<1>2. PICK o \in Seq(Nat), pos \in Nat, total \in Nat, size \in Nat, limit \in Nat : AtSymbol(o, pos, total, size, limit)
  BY <1>1, SymbolReal
<1>3. /\ IsSymbol(Symbol) /\ o = Ref(d.sym).out /\ o \in Seq(Nat) /\ Len(o) = total
      /\ pos = d.dicPos /\ total = d.total /\ size = d.dicBufSize /\ limit = real.limit
      /\ Data(d, o, 0) /\ Holds(d.dic, pos, size, total, o)
      /\ pos <= limit /\ limit <= size /\ pos # limit
      /\ d.reps = Ref(d.sym).reps /\ ~Ref(d.sym).bad /\ ~Ref(d.sym).ended /\ Ref(d.sym + 1) = RefStep(Ref(d.sym), Symbol)
      /\ \A k \in 1 .. 4 : d.reps[k] \in Nat \ {0}
  BY <1>1, <1>2 DEF AtSymbol
<1>4. PICK v \in Nat : v = Symbol.value
  BY <1>1, <1>3, SymbolFacts
<1>5. PICK dec :
        dec = [d EXCEPT !.dic[d.dicPos] = v, !.dicPos = @ + 1, !.processedPos = (@ + 1) % W,
                           !.total = @ + 1, !.afterMatch = FALSE]
  OBVIOUS
<1>6. PICK len \in Nat, break \in BOOLEAN, n \in Nat, m \in Nat : len = 0 /\ break = FALSE /\ n = 1 /\ m = d.sym
  BY TypeFacts, DecoderFields
<1>7. Decoded(dec, len, break)
  <2>1. LiteralContext
    BY <1>2, ContextHolds
  <2>2. Decoded([d EXCEPT !.dic[d.dicPos] = IF LiteralContext THEN Symbol.value ELSE 0,
                          !.dicPos = @ + 1, !.processedPos = (@ + 1) % W, !.total = @ + 1,
                          !.afterMatch = FALSE], 0, FALSE)
    BY DEF Literal
  <2>3. (IF LiteralContext THEN Symbol.value ELSE 0) = v
    BY <2>1, <1>4
  <2> QED
    BY <2>2, <2>3, <1>5, <1>6
<1>8. pos + n <= limit /\ pos + n <= size /\ pos < size
  <2>1. pos <= limit /\ limit <= size /\ pos # limit /\ n = 1
    BY <1>3, <1>6
  <2> QED
    BY <2>1
<1>9. d \in Decoders
  BY TypeFacts
<1>10. PICK dic : dic = [d.dic EXCEPT ![pos] = v]
  OBVIOUS
<1>11. PICK proc \in Nat : proc = (d.processedPos + 1) % W
  <2>1. PICK a \in Nat : a = d.processedPos + 1
    BY <1>9, DecoderFields
  <2>2. a % W \in Nat
    BY Wraps
  <2> QED
    BY <2>1, <2>2
<1>12. dic \in AnyDic
  <2>1. dic \in [0 .. size - 1 -> Nat]
    <3>1. d.dic \in [0 .. size - 1 -> Nat]
      BY <1>3 DEF Holds
    <3> QED
      BY <3>1, <1>10
  <2> QED
    BY <2>1 DEF AnyDic
<1>13. PICK q \in Nat, t \in Nat : q = pos + 1 /\ t = total + 1
  OBVIOUS
<1>14. dec = [d EXCEPT !.dic = dic, !.dicPos = q, !.processedPos = proc, !.total = t, !.afterMatch = FALSE]
  BY <1>3, <1>5, <1>6, <1>9, <1>11, <1>10, <1>13 DEF Decoders
<1>15. /\ dec \in Decoders /\ dec.dic = dic /\ dec.dicPos = q /\ dec.processedPos = proc /\ dec.total = t
       /\ dec.afterMatch = FALSE /\ dec.sym = d.sym /\ dec.tempBuf = d.tempBuf /\ dec.remainLen = d.remainLen
       /\ dec.checkDicSize = d.checkDicSize /\ dec.dicBufSize = d.dicBufSize /\ dec.reps = d.reps
  BY <1>9, <1>12, <1>14 DEF Decoders
<1>16. dec.dicPos = d.dicPos + n /\ dec.total = d.total + n /\ dec.processedPos = (d.processedPos + n) % W
  BY <1>3, <1>5, <1>6, <1>11, <1>10, <1>13, <1>15
<1>17. SymbolNext(n, len) /\ d'.dic = dic /\ d'.reps = d.reps /\ d'.afterMatch = FALSE
  <2>1. ~break /\ d.dicPos + n < real.limit => len = 0
    BY <1>6
  <2>2. SymbolNext(n, len) /\ d'.dic = dec.dic /\ d'.reps = dec.reps /\ d'.afterMatch = dec.afterMatch
    BY <2>1, <1>1, <1>7, <1>15, <1>16, DecodedNext
  <2> QED
    BY <2>2, <1>15
<1>18. d' \in Decoders /\ d'.dicPos = pos + 1 /\ d'.total = total + 1 /\ d'.dicBufSize = size /\ d'.sym = m + 1
  BY <1>3, <1>5, <1>6, <1>17 DEF SymbolNext
<1>19. Data(d', Append(o, v), 0)
  <2>1. PICK e \in Decoders : e = d'
    BY <1>18
  <2>2. e.dic = [d.dic EXCEPT ![d.dicPos] = v] /\ e.dicPos = d.dicPos + 1 /\ e.dicBufSize = d.dicBufSize /\ e.total = d.total + 1
    BY <2>1, <1>3, <1>11, <1>10, <1>17, <1>18
  <2>3. d.dicPos < d.dicBufSize
    BY <1>3, <1>8
  <2>4. Data(e, Append(o, v), 0)
    BY <2>2, <2>3, <1>3, LitData
  <2> QED
    BY <2>1, <2>4
<1>20. Ref(m + 1) = [Ref(m) EXCEPT !.out = Append(@, v)]
  BY <1>1, <1>3, <1>4, <1>5, <1>6, RefCases
<1>21. stream \in Streams /\ m \in Nat /\ m < NumSyms /\ NumSyms \in Nat
  BY <1>1, <1>5, <1>6, TypeFacts, SymbolNow
<1>22. Ref(m) \in [out : Seq(Nat), reps : Seq(Nat), ended : BOOLEAN, bad : BOOLEAN]
  <2>1. m <= NumSyms
    BY <1>21
  <2> QED
    BY <2>1, <1>21, RefFacts DEF RefIs
<1>23. /\ Ref(m + 1).out = Append(o, v) /\ Ref(m + 1).reps = Ref(m).reps
       /\ Ref(m + 1).ended = Ref(m).ended /\ Ref(m + 1).bad = Ref(m).bad
  BY <1>3, <1>5, <1>6, <1>20, <1>22
<1>24. Core(d', 0)
  <2>1. d'.sym <= NumSyms
    BY <1>18, <1>21
  <2>2. d'.reps = Ref(d'.sym).reps
    BY <1>3, <1>5, <1>6, <1>17, <1>18, <1>23
  <2> QED
    BY <2>1, <2>2, <1>3, <1>17, <1>18, <1>19, <1>23 DEF Core
<1>25. \A k \in 1 .. Len(o) : Append(o, v)[k] = o[k]
  BY <1>3, NatAppend
<1>26. SymbolOutput(n, len)
  <2>1. Owed(len) = 0 /\ len <= kMatchSpecLenStart /\ ~(len >= kMatchSpecLen_ErrorData) /\ len # kMatchSpecLenStart
    BY <1>6 DEF Owed, kMatchSpecLenStart, kMatchSpecLen_ErrorData
  <2>2. ~Ref(d.sym + 1).bad /\ ~Ref(d.sym + 1).ended
    BY <1>3, <1>5, <1>6, <1>23
  <2>3. \A k \in 1 .. Len(Ref(d.sym).out) : Ref(d.sym + 1).out[k] = Ref(d.sym).out[k]
    BY <1>3, <1>5, <1>6, <1>23, <1>25
  <2>4. d.dicPos + n <= real.limit
    BY <1>3, <1>8
  <2> QED
    BY <2>1, <2>2, <2>3, <2>4, <1>24 DEF SymbolOutput
<1> QED
  BY <1>17, <1>26, SymbolStep

\* A decoder that took the distance of a match, and the output with the match.
MatchReady(o, dec, dist, len) ==
  /\ dec.sym = d.sym /\ dec.tempBuf = d.tempBuf /\ dec.remainLen = d.remainLen
  /\ dec.checkDicSize = d.checkDicSize /\ dec.processedPos = d.processedPos
  /\ dec.dicBufSize = d.dicBufSize /\ dec.dicPos = d.dicPos /\ dec.dic = d.dic /\ dec.total = d.total
  /\ dist = dec.reps[1] /\ 1 <= dist /\ dist <= Len(o) /\ dist <= DicSize /\ len < kMatchSpecLenStart
  /\ Ref(d.sym + 1).out = Copied(o, dist, len) /\ ~Ref(d.sym + 1).bad /\ ~Ref(d.sym + 1).ended
  /\ dec.reps = Ref(d.sym + 1).reps /\ \A k \in 1 .. 4 : dec.reps[k] \in Nat \ {0}

\* n bytes of it are written, left are owed.
MatchPart(dec, dist, len, n, left, break) ==
  /\ n <= len /\ left = len - n /\ d.dicPos + n <= real.limit /\ (n = len \/ d.dicPos + n = real.limit)
  /\ Decoded(CopyMatch(dec, dist, n), left, break)

\* A match: n of its len bytes are written before the limit.
LEMMA MatchCopied ==
  ASSUME LzInv, NEW o \in Seq(Nat), NEW pos \in Nat, NEW total \in Nat, NEW size \in Nat, NEW limit \in Nat,
         AtSymbol(o, pos, total, size, limit),
         NEW dec \in Decoders, NEW dist \in Nat, NEW len \in Nat, MatchReady(o, dec, dist, len),
         NEW n \in Nat, NEW left \in Nat, NEW break \in BOOLEAN, MatchPart(dec, dist, len, n, left, break)
  PROVE  LzInv'
<1>1. /\ o = Ref(d.sym).out /\ Len(o) = total /\ pc = "real" /\ d.sym < NumSyms
      /\ pos = d.dicPos /\ total = d.total /\ size = d.dicBufSize /\ limit = real.limit
      /\ Data(d, o, 0) /\ limit <= size
  BY DEF AtSymbol
<1>2. PICK whole : whole = Copied(o, dist, len)
  OBVIOUS
<1>3. Data(dec, whole, len) /\ \A k \in 1 .. total : whole[k] = o[k]
  <2>1. /\ dec.reps[1] = dist /\ dec.dic = d.dic /\ dec.dicPos = d.dicPos /\ dec.dicBufSize = d.dicBufSize
        /\ dec.total = d.total /\ 1 <= dist /\ dist <= Len(o) /\ dist <= DicSize
    BY DEF MatchReady
  <2>3. Data(d, o, 0)
    BY <1>1
  <2>2. Data(dec, Copied(o, dist, len), len) /\ \A k \in 1 .. Len(o) : Copied(o, dist, len)[k] = o[k]
    BY <2>1, <2>3, MatchData
  <2> QED
    BY <2>2, <1>1, <1>2
<1>4. left = len - n /\ n <= len /\ pos + n <= limit /\ (n = len \/ pos + n = limit)
  BY <1>1 DEF MatchPart
<1>5. PICK c : c = CopyMatch(dec, dist, n)
  OBVIOUS
<1>6. CopyOf(dec, dist, n, c) /\ Data(c, whole, left)
  <2>1. dec.dicBufSize = size /\ dec.dicPos = pos /\ dec.reps[1] = dist /\ size = d.dicBufSize
    BY <1>1 DEF MatchReady
  <2>3. dec.dicBufSize = d.dicBufSize /\ dec.dicPos + n <= dec.dicBufSize
    BY <2>1, <1>1, <1>4
  <2>2. CopyOf(dec, dec.reps[1], n, CopyMatch(dec, dec.reps[1], n)) /\ Data(CopyMatch(dec, dec.reps[1], n), whole, len - n)
    BY <2>3, <1>3, <1>4, CopyData
  <2> QED
    BY <2>1, <2>2, <1>4, <1>5
<1>7. /\ c \in Decoders /\ c.sym = d.sym /\ c.tempBuf = d.tempBuf /\ c.remainLen = d.remainLen
      /\ c.checkDicSize = d.checkDicSize /\ c.dicBufSize = d.dicBufSize /\ c.dicPos = d.dicPos + n
      /\ c.total = d.total + n /\ c.processedPos = (d.processedPos + n) % W /\ c.reps = dec.reps
  BY <1>6 DEF CopyOf, MatchReady
<1>8. ~break /\ d.dicPos + n < real.limit => left = 0
  BY <1>1, <1>4
<1>9. SymbolNext(n, left) /\ d'.dic = c.dic /\ d'.reps = c.reps /\ d'.afterMatch = c.afterMatch
  <2>1. Decoded(c, left, break)
    BY <1>5 DEF MatchPart
  <2> QED
    BY <2>1, <1>1, <1>7, <1>8, DecodedNext
<1>10. d' \in Decoders /\ d'.dicPos = c.dicPos /\ d'.total = c.total /\ d'.dicBufSize = c.dicBufSize /\ d'.sym = d.sym + 1
  BY <1>7, <1>9 DEF SymbolNext
<1>11. Data(d', whole, left)
  <2>1. Fits(d') /\ Repeats(d', whole) /\ Holds(d'.dic, d'.dicPos, d'.dicBufSize, d'.total, whole)
    BY <1>6, <1>9, <1>10 DEF Data, Fits, Repeats
  <2> QED
    BY <2>1, <1>6, <1>10 DEF Data
<1>12. Core(d', left)
  <2>1. stream \in Streams /\ d.sym \in Nat /\ NumSyms \in Nat
    BY TypeFacts, SymbolNow
  <2>2. d'.sym <= NumSyms /\ d'.sym > 0
    <3>1. d'.sym = d.sym + 1 /\ d.sym < NumSyms
      BY <1>1, <1>10
    <3> QED
      BY <2>1, <3>1
  <2>3. d'.reps = Ref(d'.sym).reps /\ Ref(d'.sym).out = whole
    BY <1>2, <1>7, <1>9, <1>10 DEF MatchReady
  <2>4. \A k \in 1 .. 4 : d'.reps[k] \in Nat \ {0}
    BY <1>7, <1>9 DEF MatchReady
  <2> QED
    BY <2>2, <2>3, <2>4, <1>10, <1>11 DEF Core
<1>13. SymbolOutput(n, left)
  <2>1. Owed(left) = left /\ left <= kMatchSpecLenStart /\ ~(left >= kMatchSpecLen_ErrorData) /\ left # kMatchSpecLenStart
    <3>1. len < kMatchSpecLenStart
      BY DEF MatchReady
    <3> QED
      BY <3>1, <1>4 DEF Owed, kMatchSpecLenStart, kMatchSpecLen_ErrorData
  <2>2. \A k \in 1 .. Len(Ref(d.sym).out) : Ref(d.sym + 1).out[k] = Ref(d.sym).out[k]
    BY <1>1, <1>2, <1>3 DEF MatchReady
  <2>3. d.dicPos + n <= real.limit
    BY <1>1, <1>4
  <2> QED
    BY <2>1, <2>2, <2>3, <1>12 DEF SymbolOutput, MatchReady
<1> QED
  BY <1>9, <1>13, SymbolStep

\* The smaller of two numbers is one of them.
LEMMA SmallerFacts ==
  ASSUME NEW a \in Nat, NEW b \in Nat
  PROVE  Smaller(a, b) \in Nat /\ Smaller(a, b) <= a /\ Smaller(a, b) <= b /\ (Smaller(a, b) = a \/ Smaller(a, b) = b)
BY DEF Smaller

\* The same of CopyUpToLimit.
LEMMA UpToLimit ==
  ASSUME LzInv, NEW o \in Seq(Nat), NEW pos \in Nat, NEW total \in Nat, NEW size \in Nat, NEW limit \in Nat,
         AtSymbol(o, pos, total, size, limit),
         NEW dec \in Decoders, NEW dist \in Nat, NEW len \in Nat, MatchReady(o, dec, dist, len),
         CopyUpToLimit(dec, len)
  PROVE  LzInv'
<1>1. limit = real.limit /\ pos <= limit
  BY DEF AtSymbol
<1>2. PICK room \in Nat : room = limit - pos
  BY <1>1
<1>3. PICK n \in Nat : n = Smaller(room, len) /\ n <= room /\ n <= len /\ (n = room \/ n = len)
  BY SmallerFacts
<1>4. PICK break \in BOOLEAN : break = (n = 0)
  OBVIOUS
<1>5. n = Smaller(real.limit - dec.dicPos, len) /\ dec.reps[1] = dist
  BY <1>1, <1>2, <1>3 DEF MatchReady, AtSymbol
<1>8. PICK left \in Nat : left = len - n
  BY <1>3
<1>6. Decoded(CopyMatch(dec, dist, n), left, break)
  BY <1>4, <1>5, <1>8 DEF CopyUpToLimit
<1>7. pos + n <= limit /\ (n = len \/ pos + n = limit)
  BY <1>1, <1>2, <1>3
<1>9. MatchPart(dec, dist, len, n, left, break)
  BY <1>3, <1>6, <1>7, <1>8 DEF MatchPart, AtSymbol
<1> QED
  BY <1>9, MatchCopied

\* The decoder when the stream ends with the symbol, or is refused there.
EndReady(dec, len) ==
  /\ dec.sym = d.sym /\ dec.tempBuf = d.tempBuf /\ dec.remainLen = d.remainLen
  /\ dec.checkDicSize = d.checkDicSize /\ dec.processedPos = d.processedPos
  /\ dec.dicBufSize = d.dicBufSize /\ dec.dicPos = d.dicPos /\ dec.dic = d.dic /\ dec.total = d.total
  /\ \A k \in 1 .. 4 : dec.reps[k] \in Nat \ {0}
  /\ len = kMatchSpecLenStart \/ len >= kMatchSpecLen_ErrorData
  /\ Ref(d.sym + 1).out = Ref(d.sym).out
  /\ Ref(d.sym + 1).bad <=> len >= kMatchSpecLen_ErrorData
  /\ Ref(d.sym + 1).ended <=> len = kMatchSpecLenStart
  /\ ~Ref(d.sym + 1).bad => dec.reps = Ref(d.sym + 1).reps

\* Nothing is written then.
LEMMA EndsHere ==
  ASSUME LzInv, NEW o \in Seq(Nat), NEW pos \in Nat, NEW total \in Nat, NEW size \in Nat, NEW limit \in Nat,
         AtSymbol(o, pos, total, size, limit),
         NEW dec \in Decoders, NEW len \in Nat, EndReady(dec, len), Decoded(dec, len, TRUE)
  PROVE  LzInv'
<1>1. /\ o = Ref(d.sym).out /\ Len(o) = total /\ pc = "real" /\ d.sym < NumSyms
      /\ pos = d.dicPos /\ total = d.total /\ size = d.dicBufSize /\ limit = real.limit /\ pos <= limit
      /\ Data(d, o, 0)
  BY DEF AtSymbol
<1>2. PICK n \in Nat, break \in BOOLEAN, none \in Nat : n = 0 /\ break = TRUE /\ none = 0
  OBVIOUS
<1>3. dec.dicPos = d.dicPos + n /\ dec.total = d.total + n
  BY <1>1, <1>2 DEF EndReady
<1>4. dec.processedPos = (d.processedPos + n) % W
  <2>1. PICK a \in Nat : a = d.processedPos
    BY TypeFacts, DecoderFields
  <2>2. a < W
    <3>1. PICK dic \in Nat, w \in Nat : dic = DicSize /\ w = W /\ dic < w
      BY ConstantFacts
    <3>2. (total < dic => a = total) /\ (total >= dic => a = total % w)
      BY <2>1, <3>1, <1>1, CoreNow DEF Checks
    <3>3. total % w < w
      BY <3>1, Wraps
    <3> QED
      BY <3>1, <3>2, <3>3
  <2>3. a % W = a
    BY <2>2, Wraps
  <2>4. a + n = a
    BY <1>2
  <2> QED
    BY <2>1, <2>3, <2>4 DEF EndReady
<1>5. SymbolNext(n, len) /\ d'.dic = dec.dic /\ d'.reps = dec.reps /\ d'.afterMatch = dec.afterMatch
  <2>1. Decoded(dec, len, break) /\ (~break /\ d.dicPos + n < real.limit => len = 0)
    BY <1>2
  <2>2. /\ dec.sym = d.sym /\ dec.tempBuf = d.tempBuf /\ dec.remainLen = d.remainLen
        /\ dec.checkDicSize = d.checkDicSize /\ dec.dicBufSize = d.dicBufSize
    BY DEF EndReady
  <2> QED
    BY <2>1, <2>2, <1>1, <1>3, <1>4, DecodedNext
<1>6. /\ d' \in Decoders /\ d'.dicPos = pos /\ d'.total = total /\ d'.dicBufSize = size /\ d'.sym = d.sym + 1
      /\ d'.dic = d.dic
  BY <1>1, <1>2, <1>5 DEF SymbolNext, EndReady
<1>7. Data(d', o, none)
  <2>1. /\ DicSize <= size \/ total = pos
        /\ Holds(d.dic, pos, size, total, o) /\ pos <= size /\ Len(o) = total + none
    <3>1. Data(d, o, none)
      BY <1>1, <1>2
    <3> QED
      BY <3>1, <1>1, DataFacts
  <2>2. Repeats(d', o) /\ Fits(d')
    BY <2>1, <1>1, <1>6 DEF Repeats, Fits
  <2>3. total + none = Len(o)
    BY <2>1
  <2> QED
    BY <2>1, <2>2, <2>3, <1>6 DEF Data
<1>8. Core(d', none)
  <2>1. stream \in Streams /\ d.sym \in Nat /\ NumSyms \in Nat
    BY TypeFacts, SymbolNow
  <2>2. d'.sym <= NumSyms /\ d'.sym > 0
    <3>1. d'.sym = d.sym + 1 /\ d.sym < NumSyms
      BY <1>1, <1>6
    <3> QED
      BY <2>1, <3>1
  <2>3. (~Ref(d'.sym).bad => d'.reps = Ref(d'.sym).reps) /\ Ref(d'.sym).out = o
    BY <1>1, <1>5, <1>6 DEF EndReady
  <2>4. \A k \in 1 .. 4 : d'.reps[k] \in Nat \ {0}
    BY <1>5 DEF EndReady
  <2> QED
    BY <2>2, <2>3, <2>4, <1>6, <1>7 DEF Core
<1>9. SymbolOutput(n, len)
  <2>1. Owed(len) = none /\ (len <= kMatchSpecLenStart \/ len >= kMatchSpecLen_ErrorData)
    <3>1. len = kMatchSpecLenStart \/ len >= kMatchSpecLen_ErrorData
      BY DEF EndReady
    <3> QED
      BY <3>1, <1>2 DEF Owed, kMatchSpecLenStart, kMatchSpecLen_ErrorData
  <2>2. \A k \in 1 .. Len(Ref(d.sym).out) : Ref(d.sym + 1).out[k] = Ref(d.sym).out[k]
    BY DEF EndReady
  <2>3. d.dicPos + n <= real.limit
    <3>1. pos + n <= limit
      BY <1>1, <1>2
    <3> QED
      BY <3>1, <1>1
  <2> QED
    BY <2>1, <2>2, <2>3, <1>8 DEF SymbolOutput, EndReady
<1> QED
  BY <1>5, <1>9, SymbolStep

\* The end mark ends LZMA_DECODE_REAL.
LEMMA EndMarkerStep ==
  ASSUME LzInv, EndMarker
  PROVE  LzInv'
<1>1. pc = "real" /\ d.sym < NumSyms /\ Symbol.kind = "end" /\ Decoded(d, kMatchSpecLenStart, TRUE)
  BY DEF EndMarker
<1>2. PICK o \in Seq(Nat), pos \in Nat, total \in Nat, size \in Nat, limit \in Nat : AtSymbol(o, pos, total, size, limit)
  BY <1>1, SymbolReal
<1>3. /\ IsSymbol(Symbol) /\ d.reps = Ref(d.sym).reps /\ ~Ref(d.sym).bad /\ ~Ref(d.sym).ended
      /\ Ref(d.sym + 1) = RefStep(Ref(d.sym), Symbol) /\ \A k \in 1 .. 4 : d.reps[k] \in Nat \ {0}
  BY <1>2 DEF AtSymbol
<1>4. PICK len \in Nat, dec \in Decoders : len = kMatchSpecLenStart /\ dec = d
  BY TypeFacts DEF kMatchSpecLenStart
<1>5. PICK m \in Nat : m = d.sym /\ m <= NumSyms /\ stream \in Streams
  BY TypeFacts, SymbolNow
<1>6. Ref(m) \in [out : Seq(Nat), reps : Seq(Nat), ended : BOOLEAN, bad : BOOLEAN]
  <2>1. RefIs(Ref(m), m)
    BY <1>5, RefFacts
  <2> QED
    BY <2>1 DEF RefIs
<1>7. Ref(m + 1) = [Ref(m) EXCEPT !.ended = TRUE]
  BY <1>1, <1>3, <1>5, RefCases
<1>8. Ref(m + 1).out = Ref(m).out /\ Ref(m + 1).reps = Ref(m).reps /\ Ref(m + 1).ended /\ Ref(m + 1).bad = Ref(m).bad
  BY <1>6, <1>7
<1>9. EndReady(dec, len)
  <2>1. ~(len >= kMatchSpecLen_ErrorData)
    BY <1>4 DEF kMatchSpecLenStart, kMatchSpecLen_ErrorData
  <2> QED
    BY <2>1, <1>3, <1>4, <1>5, <1>8 DEF EndReady
<1>10. Decoded(dec, len, TRUE)
  BY <1>1, <1>4
<1> QED
  BY <1>2, <1>9, <1>10, EndsHere

\* A decoder that took new distances.
LEMMA TakenFacts ==
  ASSUME d \in Decoders, NEW reps \in Seq(Nat), NEW dec, dec = [d EXCEPT !.reps = reps, !.afterMatch = TRUE]
  PROVE  /\ dec \in Decoders /\ dec.reps = reps
         /\ dec.sym = d.sym /\ dec.tempBuf = d.tempBuf /\ dec.remainLen = d.remainLen
         /\ dec.checkDicSize = d.checkDicSize /\ dec.processedPos = d.processedPos
         /\ dec.dicBufSize = d.dicBufSize /\ dec.dicPos = d.dicPos /\ dec.dic = d.dic /\ dec.total = d.total
BY DEF Decoders

\* A match is copied, or refused when its distance reaches too far.
LEMMA MatchStep ==
  ASSUME LzInv, Match
  PROVE  LzInv'
<1>1. pc = "real" /\ d.sym < NumSyms /\ Symbol.kind = "match"
  BY DEF Match
<1>2. PICK o \in Seq(Nat), pos \in Nat, total \in Nat, size \in Nat, limit \in Nat : AtSymbol(o, pos, total, size, limit)
  BY <1>1, SymbolReal
<1>3. /\ IsSymbol(Symbol) /\ d.reps = Ref(d.sym).reps /\ ~Ref(d.sym).bad /\ ~Ref(d.sym).ended
      /\ Ref(d.sym + 1) = RefStep(Ref(d.sym), Symbol) /\ (\A k \in 1 .. 4 : d.reps[k] \in Nat \ {0})
      /\ o = Ref(d.sym).out /\ Len(o) = total /\ total = d.total /\ d.reps \in Seq(Nat) /\ Len(d.reps) = 4
  BY <1>2 DEF AtSymbol
<1>4. PICK dist \in Nat, len \in Nat : dist = Symbol.dist /\ len = Symbol.len /\ dist >= 1 /\ len < kMatchSpecLenStart
  BY <1>1, <1>3, SymbolFacts
<1>5. PICK m \in Nat : m = d.sym /\ m <= NumSyms /\ stream \in Streams
  BY TypeFacts, SymbolNow
<1>6. Ref(m) \in [out : Seq(Nat), reps : Seq(Nat), ended : BOOLEAN, bad : BOOLEAN]
  <2>1. RefIs(Ref(m), m)
    BY <1>5, RefFacts
  <2> QED
    BY <2>1 DEF RefIs
<1>7. PICK olds \in Seq(Nat) : olds = d.reps
  BY <1>3
<1>8. /\ Newer(olds, dist) \in Seq(Nat) /\ Newer(olds, dist)[1] = dist
      /\ \A k \in 2 .. 4 : Newer(olds, dist)[k] = olds[k - 1]
  BY <1>3, <1>7, NewerFacts
<1>9. PICK reps \in Seq(Nat) : reps = Newer(olds, dist)
  BY <1>8
<1>10. \A k \in 1 .. 4 : reps[k] \in Nat \ {0}
  <2>1. SUFFICES ASSUME NEW k \in 1 .. 4 PROVE reps[k] \in Nat \ {0}
    OBVIOUS
  <2>2. CASE k = 1
    BY <2>2, <1>4, <1>8, <1>9
  <2>3. CASE k \in 2 .. 4
    <3>1. reps[k] = olds[k - 1] /\ k - 1 \in 1 .. 4
      <4>1. k - 1 \in 1 .. 4
        BY <2>3
      <4>2. \A j \in 2 .. 4 : reps[j] = olds[j - 1]
        BY <1>8, <1>9
      <4> QED
        BY <2>3, <4>1, <4>2
    <3> QED
      BY <3>1, <1>3, <1>7
  <2> QED
    BY <2>2, <2>3
<1>11. PICK dec : dec = [d EXCEPT !.reps = reps, !.afterMatch = TRUE]
  OBVIOUS
<1>12. /\ dec \in Decoders /\ dec.reps = reps
       /\ dec.sym = d.sym /\ dec.tempBuf = d.tempBuf /\ dec.remainLen = d.remainLen
       /\ dec.checkDicSize = d.checkDicSize /\ dec.processedPos = d.processedPos
       /\ dec.dicBufSize = d.dicBufSize /\ dec.dicPos = d.dicPos /\ dec.dic = d.dic /\ dec.total = d.total
  <2>1. d \in Decoders
    BY TypeFacts
  <2> QED
    BY <2>1, <1>11, TakenFacts
<1>13. dec = [d EXCEPT !.reps = Newer(@, Symbol.dist), !.afterMatch = TRUE]
  BY <1>4, <1>7, <1>9, <1>11
<1>14. IF dist > (IF d.checkDicSize = 0 THEN d.processedPos ELSE d.checkDicSize)
       THEN Decoded(dec, kMatchSpecLen_ErrorData + len, TRUE)
       ELSE CopyUpToLimit(dec, len)
  BY <1>4, <1>13 DEF Match
<1>15. PICK dic \in Nat : dic = DicSize /\ dic > 0
  BY ConstantFacts
<1>16. (IF d.checkDicSize = 0 THEN d.processedPos ELSE d.checkDicSize) = Smaller(total, dic)
  <2>1. (total < dic => d.checkDicSize = 0 /\ d.processedPos = total) /\ (total >= dic => d.checkDicSize = dic)
    BY <1>1, <1>3, <1>15, CoreNow DEF Checks
  <2> QED
    BY <2>1, <1>15 DEF Smaller
<1>17. Ref(m + 1) = IF dist > Smaller(total, dic) THEN [Ref(m) EXCEPT !.bad = TRUE]
                    ELSE [Ref(m) EXCEPT !.out = Copied(@, dist, len), !.reps = Newer(@, dist)]
  BY <1>1, <1>3, <1>4, <1>5, <1>15, RefCases
<1>18. CASE dist > Smaller(total, dic)
  <2>1. Ref(m + 1).out = o /\ Ref(m + 1).bad /\ ~Ref(m + 1).ended
    <3>1. Ref(m + 1) = [Ref(m) EXCEPT !.bad = TRUE]
      BY <1>17, <1>18
    <3>2. Ref(m + 1).out = Ref(m).out /\ Ref(m + 1).bad = TRUE /\ Ref(m + 1).ended = Ref(m).ended
      BY <3>1, <1>6
    <3> QED
      BY <3>2, <1>3, <1>5
  <2>2. PICK l \in Nat : l = kMatchSpecLen_ErrorData + len
    BY DEF kMatchSpecLen_ErrorData
  <2>3. l >= kMatchSpecLen_ErrorData /\ l # kMatchSpecLenStart
    BY <2>2 DEF kMatchSpecLen_ErrorData, kMatchSpecLenStart
  <2>4. Decoded(dec, l, TRUE)
    BY <2>2, <1>14, <1>16, <1>18
  <2>5. EndReady(dec, l)
    BY <2>1, <2>3, <1>3, <1>5, <1>10, <1>12 DEF EndReady
  <2> QED
    BY <2>4, <2>5, <1>2, <1>12, EndsHere
<1>19. CASE ~(dist > Smaller(total, dic))
  <2>1. dist <= total /\ dist <= dic
    BY <1>15, <1>19, WithinFacts
  <2>2. Ref(m + 1).out = Copied(o, dist, len) /\ ~Ref(m + 1).bad /\ ~Ref(m + 1).ended /\ Ref(m + 1).reps = reps
    <3>1. Ref(m + 1) = [Ref(m) EXCEPT !.out = Copied(@, dist, len), !.reps = Newer(@, dist)]
      BY <1>17, <1>19
    <3>2. /\ Ref(m + 1).out = Copied(Ref(m).out, dist, len) /\ Ref(m + 1).reps = Newer(Ref(m).reps, dist)
          /\ Ref(m + 1).bad = Ref(m).bad /\ Ref(m + 1).ended = Ref(m).ended
      BY <3>1, <1>6
    <3> QED
      BY <3>2, <1>3, <1>5, <1>7, <1>9
  <2>3. CopyUpToLimit(dec, len)
    BY <1>14, <1>16, <1>19
  <2>4. dist = dec.reps[1]
    BY <1>8, <1>9, <1>12
  <2>5. MatchReady(o, dec, dist, len)
    BY <2>1, <2>2, <2>4, <1>3, <1>4, <1>5, <1>10, <1>12, <1>15 DEF MatchReady
  <2> QED
    BY <2>3, <2>5, <1>2, <1>12, UpToLimit
<1> QED
  BY <1>18, <1>19

\* The decoder with its distances in the order after a repeated match.
RepTaken(dec) == dec = [d EXCEPT !.reps = Renewed(@, Symbol.index), !.afterMatch = TRUE]

\* What a repeated match makes of the stream's output.
LEMMA RepReady ==
  ASSUME LzInv, d.sym < NumSyms, Symbol.kind = "rep",
         NEW o \in Seq(Nat), NEW pos \in Nat, NEW total \in Nat, NEW size \in Nat, NEW limit \in Nat,
         AtSymbol(o, pos, total, size, limit), NEW dec, RepTaken(dec)
  PROVE  dec \in Decoders /\ \E dist, len \in Nat : len = Symbol.len /\ MatchReady(o, dec, dist, len)
<1>3. /\ IsSymbol(Symbol) /\ d.reps = Ref(d.sym).reps /\ ~Ref(d.sym).bad /\ ~Ref(d.sym).ended
      /\ Ref(d.sym + 1) = RefStep(Ref(d.sym), Symbol) /\ (\A k \in 1 .. 4 : d.reps[k] \in Nat \ {0})
      /\ o = Ref(d.sym).out /\ Len(o) = total /\ total = d.total /\ d.reps \in Seq(Nat) /\ Len(d.reps) = 4
  BY DEF AtSymbol
<1>1. total > 0 /\ \A k \in 1 .. 4 : d.reps[k] <= total /\ d.reps[k] <= DicSize
  BY DEF AtSymbol
<1>4. PICK i \in 1 .. 4, len \in Nat : i = Symbol.index /\ len = Symbol.len /\ len < kMatchSpecLenStart
  BY <1>3, SymbolFacts
<1>5. PICK m \in Nat : m = d.sym /\ m <= NumSyms /\ stream \in Streams
  BY TypeFacts, SymbolNow
<1>6. Ref(m) \in [out : Seq(Nat), reps : Seq(Nat), ended : BOOLEAN, bad : BOOLEAN]
  <2>1. RefIs(Ref(m), m)
    BY <1>5, RefFacts
  <2> QED
    BY <2>1 DEF RefIs
<1>7. PICK olds \in Seq(Nat) : olds = d.reps
  BY <1>3
<1>8. /\ Renewed(olds, i) \in Seq(Nat) /\ Renewed(olds, i)[1] = olds[i]
      /\ \A k \in 2 .. 4 : Renewed(olds, i)[k] = olds[IF k <= i THEN k - 1 ELSE k]
  BY <1>3, <1>7, RenewedFacts
<1>9. PICK reps \in Seq(Nat), dist \in Nat : reps = Renewed(olds, i) /\ dist = olds[i] /\ dist >= 1
  <2>1. d.reps[i] \in Nat \ {0}
    BY <1>3
  <2>2. olds[i] \in Nat /\ olds[i] >= 1
    BY <2>1, <1>7
  <2>3. Renewed(olds, i) \in Seq(Nat)
    BY <1>8
  <2> QED
    BY <2>2, <2>3
<1>10. \A k \in 1 .. 4 : reps[k] \in Nat \ {0}
  <2>1. SUFFICES ASSUME NEW k \in 1 .. 4 PROVE reps[k] \in Nat \ {0}
    OBVIOUS
  <2>2. CASE k = 1
    <3>1. reps[1] = dist
      BY <1>8, <1>9, Zenon
    <3> QED
      BY <3>1, <2>2, <1>9
  <2>3. CASE k \in 2 .. 4
    <3>1. PICK j \in 1 .. 4 : j = IF k <= i THEN k - 1 ELSE k
      BY <2>3
    <3>2. reps[k] = olds[j]
      BY <2>3, <3>1, <1>8, <1>9
    <3> QED
      BY <3>2, <1>3, <1>7
  <2> QED
    BY <2>2, <2>3
<1>11. dec = [d EXCEPT !.reps = reps, !.afterMatch = TRUE]
  BY <1>4, <1>7, <1>9 DEF RepTaken
<1>12. /\ dec \in Decoders /\ dec.reps = reps
       /\ dec.sym = d.sym /\ dec.tempBuf = d.tempBuf /\ dec.remainLen = d.remainLen
       /\ dec.checkDicSize = d.checkDicSize /\ dec.processedPos = d.processedPos
       /\ dec.dicBufSize = d.dicBufSize /\ dec.dicPos = d.dicPos /\ dec.dic = d.dic /\ dec.total = d.total
  <2>1. d \in Decoders
    BY TypeFacts
  <2> QED
    BY <2>1, <1>11, TakenFacts
<1>13. o # <<>>
  <2>1. Len(o) = total
    BY <1>3
  <2> QED
    BY <2>1, <1>1, EmptySeq
<1>14. Ref(m + 1) = [Ref(m) EXCEPT !.out = Copied(@, Ref(m).reps[i], len), !.reps = Renewed(@, i)]
  <2>1. PICK r, s : r = Ref(m) /\ s = Symbol
    OBVIOUS
  <2>2. IsSymbol(s) /\ ~r.bad /\ ~r.ended /\ s.kind = "rep" /\ r.out # <<>> /\ s.index = i /\ s.len = len
    BY <2>1, <1>3, <1>4, <1>5, <1>13
  <2>3. RefStep(r, s) = IF r.out = <<>> THEN [r EXCEPT !.bad = TRUE]
                        ELSE [r EXCEPT !.out = Copied(@, r.reps[s.index], s.len), !.reps = Renewed(@, s.index)]
    BY <2>2, RefCases
  <2>4. RefStep(r, s) = [r EXCEPT !.out = Copied(@, r.reps[i], len), !.reps = Renewed(@, i)]
    BY <2>2, <2>3
  <2> QED
    BY <2>1, <2>4, <1>3, <1>5
<1>15. Ref(m + 1).out = Copied(o, dist, len) /\ ~Ref(m + 1).bad /\ ~Ref(m + 1).ended /\ Ref(m + 1).reps = reps
  <2>1. /\ Ref(m + 1).out = Copied(Ref(m).out, Ref(m).reps[i], len) /\ Ref(m + 1).reps = Renewed(Ref(m).reps, i)
        /\ Ref(m + 1).bad = Ref(m).bad /\ Ref(m + 1).ended = Ref(m).ended
    BY <1>6, <1>14
  <2> QED
    BY <2>1, <1>3, <1>5, <1>7, <1>9
<1>16. dist = dec.reps[1] /\ dist <= Len(o) /\ dist <= DicSize
  <2>1. dist = d.reps[i]
    BY <1>7, <1>9
  <2>2. dist <= total /\ dist <= DicSize
    BY <2>1, <1>1
  <2> QED
    BY <2>2, <1>3, <1>8, <1>9, <1>12
<1>17. MatchReady(o, dec, dist, len)
  BY <1>4, <1>5, <1>9, <1>10, <1>12, <1>15, <1>16 DEF MatchReady
<1> QED
  BY <1>4, <1>12, <1>17

\* A match with one of the last distances is copied.
LEMMA RepStep ==
  ASSUME LzInv, Rep
  PROVE  LzInv'
<1>1. pc = "real" /\ d.sym < NumSyms /\ Symbol.kind = "rep"
  BY DEF Rep
<1>2. PICK o \in Seq(Nat), pos \in Nat, total \in Nat, size \in Nat, limit \in Nat : AtSymbol(o, pos, total, size, limit)
  BY <1>1, SymbolReal
<1>3. PICK dec : dec = [d EXCEPT !.reps = Renewed(@, Symbol.index), !.afterMatch = TRUE]
  OBVIOUS
<1>4. dec \in Decoders /\ \E dist, len \in Nat : len = Symbol.len /\ MatchReady(o, dec, dist, len)
  BY <1>1, <1>2, <1>3, RepReady DEF RepTaken
<1>5. PICK dist \in Nat, len \in Nat : len = Symbol.len /\ MatchReady(o, dec, dist, len)
  BY <1>4
<1>6. CopyUpToLimit(dec, len)
  BY <1>3, <1>5 DEF Rep
<1> QED
  BY <1>2, <1>4, <1>5, <1>6, UpToLimit

\* One byte is repeated at the last distance.
LEMMA ShortRepStep ==
  ASSUME LzInv, ShortRep
  PROVE  LzInv'
<1>1. pc = "real" /\ d.sym < NumSyms /\ Symbol.kind = "rep" /\ Symbol.len = 1
      /\ Decoded(CopyMatch([d EXCEPT !.afterMatch = TRUE], d.reps[1], 1), 0, FALSE)
  BY DEF ShortRep
<1>2. PICK o \in Seq(Nat), pos \in Nat, total \in Nat, size \in Nat, limit \in Nat : AtSymbol(o, pos, total, size, limit)
  BY <1>1, SymbolReal
<1>3. PICK dec : dec = [d EXCEPT !.reps = Renewed(@, Symbol.index), !.afterMatch = TRUE]
  OBVIOUS
<1>4. dec \in Decoders /\ \E dist, len \in Nat : len = Symbol.len /\ MatchReady(o, dec, dist, len)
  BY <1>1, <1>2, <1>3, RepReady DEF RepTaken
<1>5. PICK dist \in Nat, len \in Nat : len = Symbol.len /\ MatchReady(o, dec, dist, len)
  BY <1>4
<1>6. /\ IsSymbol(Symbol) /\ pos = d.dicPos /\ limit = real.limit /\ pos <= limit /\ pos # limit
      /\ d.reps \in Seq(Nat) /\ Len(d.reps) = 4
  BY <1>1, <1>2 DEF AtSymbol
<1>7. Symbol.index = 1
  BY <1>1, <1>6, SymbolFacts
<1>8. Renewed(d.reps, 1) = d.reps
  <2>1. PICK olds \in Seq(Nat) : olds = d.reps
    BY <1>6
  <2>2. Renewed(olds, 1) = olds
    BY <2>1, <1>6, FirstRenewed
  <2> QED
    BY <2>1, <2>2
<1>9. dec = [d EXCEPT !.afterMatch = TRUE]
  BY <1>3, <1>7, <1>8, TypeFacts DEF Decoders
<1>10. dist = d.reps[1]
  <2>1. dist = dec.reps[1]
    BY <1>5 DEF MatchReady
  <2> QED
    BY <2>1, <1>9, TypeFacts DEF Decoders
<1>11. PICK n \in Nat, left \in Nat, break \in BOOLEAN : n = 1 /\ left = 0 /\ break = FALSE
  OBVIOUS
<1>12. Decoded(CopyMatch(dec, dist, n), left, break)
  BY <1>1, <1>9, <1>10, <1>11
<1>13. n <= len /\ left = len - n /\ n = len /\ pos + n <= limit
  BY <1>1, <1>5, <1>6, <1>11
<1>14. MatchPart(dec, dist, len, n, left, break)
  BY <1>6, <1>12, <1>13 DEF MatchPart
<1> QED
  BY <1>2, <1>4, <1>5, <1>14, MatchCopied
-----------------------------------------------------------------------------
(* The steps of DecodeToDic around its rounds                              *)

\* A step that writes nothing and goes on, or returns.
DicNext ==
  /\ InDic /\ pc' \in {"loop", "ret"}
  /\ stream' = stream /\ fed' = fed /\ out' = out /\ last' = last /\ real' = real
  /\ Alike(d', d)
  /\ call' \in CallTypes /\ call'.op = call.op /\ call'.from = call.from /\ call'.dicLimit = call.dicLimit
  /\ call'.outSize = call.outSize /\ call'.given = call.given

\* A step of DecodeToDic that writes nothing keeps types, output and call.
LEMMA DicKeeps ==
  ASSUME LzInv, DicNext
  PROVE  TypesInv' /\ WideInv' /\ OutInv' /\ LoopInv' /\ CallInv' /\ LastInv'
<1>1. /\ stream \in Streams /\ d \in Decoders /\ real \in RealTypes /\ last \in LastTypes /\ fed \in Nat /\ out \in Seq(Nat)
  BY TypeFacts
<1>2. /\ d' \in Decoders /\ d'.dicPos = d.dicPos /\ d'.dicBufSize = d.dicBufSize /\ d'.total = d.total /\ d'.sym = d.sym
  BY DEF DicNext, Alike
<1>3. InDic /\ InDic' /\ pc' \in {"loop", "ret"}
  BY DEF DicNext, InDic
<1>4. TypesInv'
  BY <1>1, <1>2, <1>3 DEF TypesInv, DicNext
<1>5. WideInv'
  BY <1>2, <1>3 DEF LzInv, WideInv, InDic, DicNext
<1>6. OutInv'
  <2>1. Ref(d.sym)' = Ref(d.sym)
    BY <1>2, SameStream DEF DicNext
  <2>2. d.total = Len(out) + (d.dicPos - call.from) /\ call.from <= d.dicPos /\ \A k \in 1 .. Len(out) : out[k] = Ref(d.sym).out[k]
    BY <1>3 DEF LzInv, OutInv
  <2> QED
    BY <2>1, <2>2, <1>2, <1>3 DEF OutInv, DicNext
<1>7. LoopInv'
  BY <1>3, LoopElsewhere DEF DicNext
<1>8. CallInv'
  <2>1. /\ call.op # "none" /\ d.dicPos <= call.dicLimit /\ call.dicLimit <= d.dicBufSize
        /\ call.dicLimit - call.from <= call.outSize
        /\ call.dicLimit - call.from = call.outSize \/ (call.op = "buf" /\ call.from < call.dicLimit)
        /\ call.op = "one" => call.from = 0 /\ fed = 0 /\ out = <<>>
    BY <1>3 DEF LzInv, CallInv, InDic
  <2>2. pc' \notin {"idle", "over", "buf"}
    BY <1>3
  <2> QED
    BY <2>1, <2>2, <1>2 DEF CallInv, DicNext
<1>9. LastInv'
  <2>1. last.res # "fail" /\ last' = last /\ pc' \notin {"idle", "over"}
    BY <1>3 DEF LzInv, LastInv, DicNext
  <2> QED
    BY <2>1 DEF LastInv
<1> QED
  BY <1>4, <1>5, <1>6, <1>7, <1>8, <1>9

\* remainLen becomes l.
LEMMA LevelKeeps ==
  ASSUME LzInv, DicNext, NEW l \in Nat, d'.remainLen = l,
         l \in 0 .. kMatchSpecLenStart \cup {kMatchSpecLenStart + 2, kMatchSpecLen_ErrorData},
         pc' = "loop" => l <= kMatchSpecLenStart,
         Owed(l) = Owed(Level),
         Ref(d.sym).bad <=> l >= kMatchSpecLen_ErrorData,
         Ref(d.sym).ended <=> l = kMatchSpecLenStart,
         l = kMatchSpecLenStart + 2 => NotStarted /\ d'.checkDicSize = d.checkDicSize /\ d'.processedPos = d.processedPos,
         l # kMatchSpecLenStart + 2 /\ d.sym = 0 /\ NumSyms > 0 => stream.syms[1].kind # "rep"
  PROVE  CoreInv' /\ LevelInv'
<1>1. stream' = stream /\ Alike(d', d) /\ d'.sym = d.sym /\ d'.total = d.total /\ pc' \in {"loop", "ret"}
  BY DEF DicNext, Alike
<1>2. Ref(d.sym)' = Ref(d.sym) /\ NumSyms' = NumSyms
  BY <1>1, SameStream
<1>3. CoreInv'
  <2>1. PICK x : x = Owed(l)
    OBVIOUS
  <2>2. Core(d, x)
    BY <2>1, CoreNow
  <2>3. Core(d', x)
    BY <2>2, <1>1, CoreAlike
  <2>4. x = Owed(IF pc' \in {"real", "after"} THEN real'.len ELSE d'.remainLen)
    BY <2>1, <1>1
  <2> QED
    BY <2>3, <2>4, <1>1, CoreNext
<1>4. LevelInv'
  <2>1. ~InReal' /\ Level' = l
    BY <1>1 DEF InReal, Level
  <2>2. NotStarted' => d.sym = 0 /\ d.total = 0 /\ d'.checkDicSize = 0 /\ d'.processedPos = 0
    BY DEF NotStarted, LzInv, LevelInv
  <2>3. ~NotStarted' /\ d.sym = 0 /\ NumSyms > 0 => stream.syms[1].kind # "rep"
    BY DEF NotStarted
  <2> QED
    BY <2>1, <2>2, <2>3, <1>1, <1>2 DEF LevelInv
<1> QED
  BY <1>3, <1>4

\* The range coder has its first bytes.
LEMMA NoStartStep ==
  ASSUME LzInv, NoStart
  PROVE  LzInv'
<1>1. /\ pc = "dic" /\ d.remainLen <= kMatchSpecLenStart /\ pc' = "loop"
      /\ stream' = stream /\ d' = d /\ call' = call /\ real' = real /\ fed' = fed /\ out' = out /\ last' = last
  BY DEF NoStart
<1>2. d \in Decoders /\ call \in CallTypes
  BY TypeFacts
<1>3. DicNext
  BY <1>1, <1>2 DEF DicNext, Alike, InDic
<1>4. PICK l \in Nat : l = d.remainLen
  BY <1>2, DecoderFields
<1>5. Level = l /\ ~InReal /\ ~NotStarted
  BY <1>1, <1>4 DEF Level, InReal, NotStarted, kMatchSpecLenStart
<1>6. CoreInv' /\ LevelInv'
  <2>1. /\ l \in 0 .. kMatchSpecLenStart \cup {kMatchSpecLenStart + 2, kMatchSpecLen_ErrorData}
        /\ Ref(d.sym).bad <=> l >= kMatchSpecLen_ErrorData
        /\ Ref(d.sym).ended <=> l = kMatchSpecLenStart
        /\ d.sym = 0 /\ NumSyms > 0 => stream.syms[1].kind # "rep"
    BY <1>4, <1>5 DEF LzInv, LevelInv
  <2>2. l # kMatchSpecLenStart + 2 /\ d'.remainLen = l /\ l <= kMatchSpecLenStart /\ Owed(l) = Owed(Level)
    BY <1>1, <1>4, <1>5 DEF NotStarted
  <2> QED
    BY <2>1, <2>2, <1>3, LevelKeeps
<1>7. CheckInv'
  <2>1. Checks(d)
    BY <1>1, CoreNow
  <2> QED
    BY <2>1, <1>1 DEF CheckInv, Checks
<1>8. InputInv'
  <2>1. PICK p \in Nat, i \in Nat, w \in Nat : Hand(p, i, w)
    BY HandFacts
  <2>2. fed \in Nat /\ call.given \in Nat
    BY <1>2, TypeFacts, CallFields
  <2>3. HandNext(p, i, w)
    BY <2>1, <2>2, <1>1, <1>5 DEF Hand, HandNext, NotStarted
  <2> QED
    BY <2>3, <1>1, InputNext
<1>9. ReturnInv'
  BY <1>1, NotReturned
<1> QED
  BY <1>3, <1>6, <1>7, <1>8, <1>9, DicKeeps DEF LzInv

\* DecodeToDic is called, or goes on, behind the end mark.
LEMMA EndMarkStep ==
  ASSUME LzInv, EndMark
  PROVE  LzInv'
<1>1. pc = "loop" /\ d.remainLen = kMatchSpecLenStart
  BY DEF EndMark
<1>2. d \in Decoders /\ call \in CallTypes
  BY TypeFacts
<1>3. PICK in \in Seq(Nat), res \in Results, status \in Statuses :
        /\ in = call.in /\ Return(res, status, in, d)
        /\ \/ CodeIsZero /\ res = "ok" /\ status = "finished_with_mark"
           \/ ~CodeIsZero /\ res = "data" /\ status = "none"
  <2>1. call.in \in Seq(Nat) /\ "ok" \in Results /\ "data" \in Results /\ "none" \in Statuses /\ "finished_with_mark" \in Statuses
    BY <1>2, CallFields DEF Results, Statuses
  <2>2. IF CodeIsZero THEN Return("ok", "finished_with_mark", call.in, d) ELSE Return("data", "none", call.in, d)
    BY DEF EndMark
  <2>3. CASE CodeIsZero
    BY <2>1, <2>2, <2>3
  <2>4. CASE ~CodeIsZero
    BY <2>1, <2>2, <2>4
  <2> QED
    BY <2>3, <2>4
<1>4. /\ pc' = "ret" /\ d' = d /\ stream' = stream /\ real' = real /\ fed' = fed /\ out' = out /\ last' = last
      /\ call' \in CallTypes /\ call'.op = call.op /\ call'.from = call.from /\ call'.dicLimit = call.dicLimit
      /\ call'.outSize = call.outSize /\ call'.given = call.given
      /\ call'.in = in /\ call'.res = res /\ call'.status = status
  BY <1>2, <1>3, ReturnFacts
<1>5. DicNext
  BY <1>1, <1>2, <1>4 DEF DicNext, Alike, InDic
<1>6. PICK l \in Nat : l = d.remainLen
  BY <1>2, DecoderFields
<1>7. Level = l /\ ~InReal /\ ~NotStarted
  BY <1>1, <1>6 DEF Level, InReal, NotStarted, kMatchSpecLenStart
<1>8. /\ l \in 0 .. kMatchSpecLenStart \cup {kMatchSpecLenStart + 2, kMatchSpecLen_ErrorData}
      /\ Ref(d.sym).bad <=> l >= kMatchSpecLen_ErrorData
      /\ Ref(d.sym).ended <=> l = kMatchSpecLenStart
      /\ d.sym = 0 /\ NumSyms > 0 => stream.syms[1].kind # "rep"
  BY <1>6, <1>7 DEF LzInv, LevelInv
<1>9. CoreInv' /\ LevelInv'
  <2>1. l # kMatchSpecLenStart + 2 /\ d'.remainLen = l /\ l <= kMatchSpecLenStart /\ Owed(l) = Owed(Level)
    BY <1>1, <1>4, <1>6, <1>7 DEF NotStarted, kMatchSpecLenStart
  <2> QED
    BY <2>1, <1>5, <1>8, LevelKeeps
<1>10. CheckInv'
  <2>1. Checks(d)
    BY <1>1, CoreNow
  <2> QED
    BY <2>1, <1>4 DEF CheckInv, Checks
<1>11. InputInv'
  <2>1. PICK p \in Nat, i \in Nat, w \in Nat : Hand(p, i, w)
    BY HandFacts
  <2>2. fed \in Nat /\ call.given \in Nat
    BY <1>2, TypeFacts, CallFields
  <2>3. HandNext(p, i, w)
    BY <2>1, <2>2, <1>3, <1>4, <1>7 DEF Hand, HandNext, NotStarted
  <2> QED
    BY <2>3, <1>4, InputNext
<1>12. ReturnInv'
  <2>1. Ref(d.sym)' = Ref(d.sym) /\ CodeIsZero' = CodeIsZero
    BY <1>4, SameStream DEF CodeIsZero
  <2>2. Ref(d.sym).ended
    BY <1>1, <1>6, <1>8
  <2>3. res = "data" => CauseOf(status)'
    BY <2>1, <2>2, <1>3 DEF CauseOf
  <2> QED
    BY <2>1, <2>2, <2>3, <1>3, <1>4 DEF ReturnInv, CauseOf
<1> QED
  BY <1>5, <1>9, <1>10, <1>11, <1>12, DicKeeps DEF LzInv

\* What LZMA_DECODE_REAL took of the bytes that wait and of the input.
LEMMA TakenBytes ==
  ASSUME LzInv, pc = "after"
  PROVE  \E p, i, w, off, c \in Nat :
           /\ Hand(p, i, w) /\ off = real.off /\ off = w + c /\ c <= i /\ (p - w) + off = Start(d.sym)
           /\ w = (IF real.src = "temp" THEN Len(d.tempBuf) ELSE 0)
           /\ real.dummy >= 0 => real.dummy = off
           /\ real.src = "temp" => off <= Required
           /\ real.src = "in" => off <= i
<1>1. PICK p \in Nat, i \in Nat, w \in Nat : Hand(p, i, w)
  BY HandFacts
<1>2. /\ i = Len(call.in) /\ w = Len(d.tempBuf) /\ d.tempBuf \in Seq(Nat)
      /\ ~NotStarted => (p - w) + (IF InReal THEN real.off ELSE 0) = Start(d.sym)
  BY <1>1 DEF Hand
<1>3. PICK off \in Nat : off = real.off
  BY TypeFacts, RealFields
<1>4. InReal /\ ~NotStarted
  <2>1. InReal
    BY DEF InReal
  <2>2. d.remainLen = 0
    BY <2>1 DEF LzInv, LevelInv
  <2> QED
    BY <2>1, <2>2 DEF NotStarted, kMatchSpecLenStart
<1>5. (p - w) + off = Start(d.sym)
  BY <1>2, <1>3, <1>4
<1>6. /\ off <= Len(Buffer) /\ w <= off
      /\ real.dummy >= 0 => real.dummy = off
      /\ real.src = "temp" => off <= Required
      /\ real.src = "in" => d.tempBuf = <<>>
  BY <1>2, <1>3, <1>4 DEF LzInv, LoopInv
<1>7. real.src \in {"in", "temp"}
  BY TypeFacts, RealFields
<1>8. PICK c \in Nat : c = off - w
  BY <1>6
<1>9. CASE real.src = "in"
  <2>1. Buffer = call.in /\ w = 0
    BY <1>2, <1>6, <1>9, EmptySeq DEF Buffer
  <2>2. off <= i /\ c = off
    BY <2>1, <1>2, <1>6, <1>8
  <2>3. off = w + c /\ c <= i
    BY <2>1, <2>2
  <2> QED
    BY <2>1, <2>2, <2>3, <1>1, <1>3, <1>5, <1>6, <1>9
<1>10. CASE real.src = "temp"
  <2>1. PICK a \in Nat : a <= i /\ Len(Joined) = w + a
    BY <1>1, JoinedFacts
  <2>2. off <= w + a
    BY <2>1, <1>6, <1>10 DEF Buffer
  <2>3. off = w + c /\ c <= i
    BY <2>1, <2>2, <1>6, <1>8
  <2> QED
    BY <2>3, <1>1, <1>2, <1>3, <1>5, <1>6, <1>10
<1> QED
  BY <1>7, <1>9, <1>10

\* What RealReturned leaves of the decoder.
TakenNext(l) ==
  /\ DicNext /\ d'.remainLen = l /\ d'.tempBuf = <<>> /\ d'.processedPos = d.processedPos
  /\ d'.checkDicSize = IF d.checkDicSize = 0 /\ d.processedPos >= DicSize THEN DicSize ELSE d.checkDicSize

\* checkDicSize is set at the end of LZMA_DECODE_REAL when the dictionary became full.
LEMMA LateChecked ==
  ASSUME LzInv, pc = "after", NEW l, TakenNext(l)
  PROVE  CheckInv'
<1>1. PICK dic \in Nat, w \in Nat, total \in Nat, proc \in Nat, check \in Nat :
        dic = DicSize /\ w = W /\ dic > 0 /\ dic < w /\ total = d.total /\ proc = d.processedPos /\ check = d.checkDicSize
  <2>1. d.total \in Nat /\ d.processedPos \in Nat /\ d.checkDicSize \in Nat
    BY TypeFacts, DecoderFields
  <2> QED
    BY <2>1, ConstantFacts
<1>2. \/ (total < dic => check = 0 /\ proc = total) /\ (total >= dic => check = dic /\ proc = total % w)
      \/ total = dic /\ check = 0 /\ proc = total % w
  BY <1>1 DEF LzInv, CheckInv, Checks, LateChecks
<1>3. d'.total = total /\ d'.processedPos = proc /\ d'.checkDicSize = IF check = 0 /\ proc >= dic THEN dic ELSE check
  BY <1>1 DEF TakenNext, DicNext, Alike
<1>4. dic % w = dic
  BY <1>1, Wraps
<1>5. Checks(d)'
  <2>1. CASE total < dic
    BY <2>1, <1>1, <1>2, <1>3 DEF Checks
  <2>2. CASE total >= dic
    <3>1. proc = total % w /\ (check = dic \/ (check = 0 /\ total = dic))
      BY <2>2, <1>2
    <3>2. d'.checkDicSize = dic
      BY <3>1, <1>1, <1>3, <1>4
    <3> QED
      BY <2>2, <3>1, <3>2, <1>1, <1>3 DEF Checks
  <2> QED
    BY <2>1, <2>2
<1> QED
  BY <1>5 DEF CheckInv

\* What LZMA_DECODE_REAL read is no longer input.
LEMMA RealReturnedStep ==
  ASSUME LzInv, RealReturned
  PROVE  LzInv'
<1>1. pc = "after"
  BY DEF RealReturned
<1>2. PICK p \in Nat, i \in Nat, w \in Nat, off \in Nat, c \in Nat :
           /\ Hand(p, i, w) /\ off = real.off /\ off = w + c /\ c <= i /\ (p - w) + off = Start(d.sym)
           /\ w = (IF real.src = "temp" THEN Len(d.tempBuf) ELSE 0)
           /\ real.dummy >= 0 => real.dummy = off
           /\ real.src = "temp" => off <= Required
           /\ real.src = "in" => off <= i
  BY <1>1, TakenBytes
<1>3. /\ i = Len(call.in) /\ call.in \in Seq(Nat) /\ Consecutive(call.in, p)
      /\ p + i = fed + call.given /\ p + i <= NumBytes /\ i <= call.given
  BY <1>2 DEF Hand
<1>4. d \in Decoders /\ call \in CallTypes /\ real.len \in Nat /\ real.src \in {"in", "temp"} /\ d.remainLen = 0
  <2>1. d.remainLen = 0
    BY <1>1 DEF LzInv, LevelInv, InReal
  <2> QED
    BY <2>1, TypeFacts, RealFields
<1>5. PICK in \in Seq(Nat) : in = call.in
  BY <1>3
<1>6. /\ SubSeq(in, c + 1, i) \in Seq(Nat) /\ Len(SubSeq(in, c + 1, i)) = i - c /\ Consecutive(SubSeq(in, c + 1, i), p + c)
  <2>1. Consecutive(in, p) /\ c <= i /\ i <= Len(in) /\ p \in Int
    BY <1>2, <1>3, <1>5
  <2> QED
    BY <2>1, PartConsecutive
<1>7. PICK rest \in Seq(Nat) : rest = SubSeq(in, c + 1, i)
  BY <1>6
<1>8. PICK len \in Nat : len = real.len
  BY <1>4
<1>9. PICK check \in Nat : check = IF d.checkDicSize = 0 /\ d.processedPos >= DicSize THEN DicSize ELSE d.checkDicSize
  BY <1>4, DecoderFields, ConstantFacts
<1>10. ~(IF real.dummy >= 0 THEN real.dummy # real.off
         ELSE IF real.src = "in" THEN real.off > Len(call.in)
         ELSE real.off > Required \/ real.off < w)
  <2>1. ~(off > i) \/ real.src # "in"
    BY <1>2
  <2>2. real.src = "temp" => ~(off > Required) /\ ~(off < w)
    BY <1>2, ConstantFacts
  <2> QED
    BY <2>1, <2>2, <1>2, <1>3, <1>4
<1>11. real.off - w + 1 = c + 1
  BY <1>2
<1>12. IF len >= kMatchSpecLen_ErrorData
       THEN Return("data", "none", rest,
                   [[d EXCEPT !.remainLen = len, !.checkDicSize = check] EXCEPT !.tempBuf = <<>>, !.remainLen = kMatchSpecLen_ErrorData])
       ELSE /\ d' = [[d EXCEPT !.remainLen = len, !.checkDicSize = check] EXCEPT !.tempBuf = <<>>]
            /\ call' = [call EXCEPT !.in = rest]
            /\ pc' = "loop" /\ UNCHANGED <<stream, real, fed, out, last>>
  <2>1. LET kept == IF real.src = "temp" THEN Len(d.tempBuf) ELSE 0
            full == d.checkDicSize = 0 /\ d.processedPos >= DicSize
            dec  == [d EXCEPT !.remainLen = real.len, !.checkDicSize = IF full THEN DicSize ELSE @]
            wrong == IF real.dummy >= 0 THEN real.dummy # real.off
                     ELSE IF real.src = "in" THEN real.off > Len(call.in)
                     ELSE real.off > Required \/ real.off < kept
            r == SubSeq(call.in, real.off - kept + 1, Len(call.in))
        IN ~wrong => IF real.len >= kMatchSpecLen_ErrorData
                     THEN Return("data", "none", r, [dec EXCEPT !.tempBuf = <<>>, !.remainLen = kMatchSpecLen_ErrorData])
                     ELSE /\ d' = [dec EXCEPT !.tempBuf = <<>>] /\ call' = [call EXCEPT !.in = r]
                          /\ pc' = "loop" /\ UNCHANGED <<stream, real, fed, out, last>>
    BY DEF RealReturned
  <2>2. SubSeq(call.in, real.off - w + 1, Len(call.in)) = rest
    BY <1>3, <1>5, <1>7, <1>11
  <2>3. [d EXCEPT !.remainLen = real.len,
                  !.checkDicSize = IF d.checkDicSize = 0 /\ d.processedPos >= DicSize THEN DicSize ELSE @]
        = [d EXCEPT !.remainLen = len, !.checkDicSize = check]
    BY <1>8, <1>9
  <2> QED
    BY <2>1, <2>2, <2>3, <1>2, <1>8, <1>10
<1>13. InDic /\ InReal
  BY <1>1 DEF InDic, InReal
<1>14. Level = len
  BY <1>8, <1>13 DEF Level
<1>15. PICK l \in Nat : l = IF len >= kMatchSpecLen_ErrorData THEN kMatchSpecLen_ErrorData ELSE len
  BY DEF kMatchSpecLen_ErrorData
<1>16. <<>> \in Seq(Nat)
  BY EmptySeq
<1>17. /\ TakenNext(l) /\ call'.in = rest
       /\ \/ len >= kMatchSpecLen_ErrorData /\ pc' = "ret" /\ call'.res = "data" /\ call'.status = "none"
          \/ ~(len >= kMatchSpecLen_ErrorData) /\ pc' = "loop"
  <2>1. CASE len >= kMatchSpecLen_ErrorData
    <3>1. PICK res \in Results, status \in Statuses : res = "data" /\ status = "none"
      BY DEF Results, Statuses
    <3>2. PICK dec : dec = [[d EXCEPT !.remainLen = len, !.checkDicSize = check] EXCEPT !.tempBuf = <<>>, !.remainLen = kMatchSpecLen_ErrorData]
      OBVIOUS
    <3>3. Return(res, status, rest, dec)
      BY <2>1, <3>1, <3>2, <1>12
    <3>4. /\ pc' = "ret" /\ d' = dec /\ stream' = stream /\ real' = real /\ fed' = fed /\ out' = out /\ last' = last
          /\ call' \in CallTypes /\ call'.op = call.op /\ call'.from = call.from /\ call'.dicLimit = call.dicLimit
          /\ call'.outSize = call.outSize /\ call'.given = call.given
          /\ call'.in = rest /\ call'.res = res /\ call'.status = status
      BY <3>3, ReturnFacts
    <3>5. l = kMatchSpecLen_ErrorData /\ dec = [d EXCEPT !.remainLen = l, !.checkDicSize = check, !.tempBuf = <<>>]
      BY <2>1, <3>2, <1>4, <1>15 DEF Decoders
    <3>6. Alike(dec, d) /\ dec.remainLen = l /\ dec.tempBuf = <<>> /\ dec.processedPos = d.processedPos /\ dec.checkDicSize = check
      BY <3>5, <1>4, <1>16 DEF Decoders, Alike
    <3> QED
      BY <2>1, <3>1, <3>4, <3>6, <1>9, <1>13 DEF TakenNext, DicNext
  <2>2. CASE ~(len >= kMatchSpecLen_ErrorData)
    <3>1. /\ d' = [[d EXCEPT !.remainLen = len, !.checkDicSize = check] EXCEPT !.tempBuf = <<>>]
          /\ call' = [call EXCEPT !.in = rest]
          /\ pc' = "loop" /\ UNCHANGED <<stream, real, fed, out, last>>
      BY <2>2, <1>12
    <3>2. l = len /\ d' = [d EXCEPT !.remainLen = l, !.checkDicSize = check, !.tempBuf = <<>>]
      BY <2>2, <3>1, <1>4, <1>15 DEF Decoders
    <3>3. Alike(d', d) /\ d'.remainLen = l /\ d'.tempBuf = <<>> /\ d'.processedPos = d.processedPos /\ d'.checkDicSize = check
      BY <3>2, <1>4, <1>16 DEF Decoders, Alike
    <3>4. call' \in CallTypes /\ call'.op = call.op /\ call'.from = call.from /\ call'.dicLimit = call.dicLimit
          /\ call'.outSize = call.outSize /\ call'.given = call.given /\ call'.in = rest
      BY <3>1, <1>4 DEF CallTypes
    <3> QED
      BY <2>2, <3>1, <3>3, <3>4, <1>9, <1>13 DEF TakenNext, DicNext
  <2> QED
    BY <2>1, <2>2
<1>18. DicNext /\ d'.remainLen = l /\ d'.tempBuf = <<>> /\ d'.sym = d.sym
  BY <1>17 DEF TakenNext, DicNext, Alike
<1>19. CheckInv'
  BY <1>1, <1>17, LateChecked
<1>20. /\ len <= kMatchSpecLenStart \/ len >= kMatchSpecLen_ErrorData
       /\ Ref(d.sym).bad <=> len >= kMatchSpecLen_ErrorData
       /\ Ref(d.sym).ended <=> len = kMatchSpecLenStart
       /\ d.sym = 0 /\ NumSyms > 0 => stream.syms[1].kind # "rep"
  <2>1. ~NotStarted
    BY <1>4 DEF NotStarted, kMatchSpecLenStart
  <2> QED
    BY <2>1, <1>1, <1>8, <1>14 DEF LzInv, LevelInv
<1>21. CoreInv' /\ LevelInv'
  <2>1. /\ l \in 0 .. kMatchSpecLenStart \cup {kMatchSpecLenStart + 2, kMatchSpecLen_ErrorData}
        /\ pc' = "loop" => l <= kMatchSpecLenStart
        /\ Owed(l) = Owed(Level)
        /\ len >= kMatchSpecLen_ErrorData <=> l >= kMatchSpecLen_ErrorData
        /\ len = kMatchSpecLenStart <=> l = kMatchSpecLenStart
        /\ l # kMatchSpecLenStart + 2
    BY <1>14, <1>15, <1>17, <1>20 DEF kMatchSpecLenStart, kMatchSpecLen_ErrorData, Owed
  <2> QED
    BY <2>1, <1>18, <1>20, LevelKeeps
<1>22. InputInv'
  <2>1. PICK q \in Nat, j \in Nat, z \in Nat : q = p + c /\ j = i - c /\ z = 0
    BY <1>2
  <2>2. q + j = p + i /\ j <= i /\ q - z = q /\ (q - z) + 0 = (p - w) + off /\ z <= q
    <3>1. off = w + c /\ c <= i
      BY <1>2
    <3>2. q + j = p + i /\ j <= i
      BY <2>1, <3>1
    <3>3. q - z = q /\ z <= q
      BY <2>1
    <3>4. q = (p - w) + off
      BY <2>1, <3>1
    <3> QED
      BY <3>2, <3>3, <3>4
  <2>3. fed \in Nat /\ call.given \in Nat /\ Required \in Nat
    BY <1>4, TypeFacts, CallFields, ConstantFacts
  <2>4. l # kMatchSpecLenStart + 2 /\ pc' \notin {"real", "after"}
    BY <1>15, <1>17, <1>20 DEF kMatchSpecLenStart, kMatchSpecLen_ErrorData
  <2>5. fed' = fed /\ call'.given = call.given /\ call'.in = rest /\ stream' = stream
    BY <1>17, <1>18 DEF DicNext
  <2>6. j = Len(rest) /\ Consecutive(rest, q)
    BY <2>1, <1>6, <1>7
  <2>7. z = Len(<<>>) /\ Consecutive(<<>>, q - z) /\ z <= Required
    BY <2>1, <2>3, NoneConsecutive
  <2>8. q + j = fed + call.given /\ q + j <= NumBytes /\ j <= call.given
    <3>1. j <= call.given
      BY <2>2, <2>3, <1>3
    <3> QED
      BY <3>1, <2>2, <1>3
  <2>9. (q - z) + 0 = Start(d.sym) /\ ~(z > 0)
    BY <2>1, <2>2, <1>2
  <2>10. HandNext(q, j, z)
    BY <2>2, <2>3, <2>4, <2>5, <2>6, <2>7, <2>8, <2>9, <1>16, <1>18 DEF HandNext
  <2> QED
    BY <2>5, <2>10, InputNext
<1>23. ReturnInv'
  <2>1. Ref(d.sym)' = Ref(d.sym)
    BY <1>18, SameStream DEF DicNext
  <2>2. pc' = "ret" => Ref(d.sym)'.bad /\ call'.res = "data" /\ call'.status = "none"
    BY <2>1, <1>17, <1>20
  <2> QED
    BY <2>2 DEF ReturnInv, CauseOf
<1> QED
  BY <1>18, <1>19, <1>21, <1>22, <1>23, DicKeeps DEF LzInv

\* The first bytes of the range coder: n of the input join those that wait.
RcTaken(n, temp, rest, p, i, w) ==
  /\ n <= i /\ w + n <= RcInit /\ (n = i \/ w + n = RcInit)
  /\ Len(temp) = w + n /\ Consecutive(temp, p - w)
  /\ Len(rest) = i - n /\ Consecutive(rest, p + n)
  /\ n = Smaller(RcInit - Len(d.tempBuf), Len(call.in))
  /\ temp = d.tempBuf \o SubSeq(call.in, 1, n)
  /\ rest = SubSeq(call.in, n + 1, Len(call.in))

\* The bytes for the range coder are the first of the stream.
LEMMA RcBytes ==
  ASSUME LzInv, NotStarted, NEW p \in Nat, NEW i \in Nat, NEW w \in Nat, Hand(p, i, w)
  PROVE  \E n \in Nat, temp \in Seq(Nat), rest \in Seq(Nat) : RcTaken(n, temp, rest, p, i, w)
<1>1. /\ i = Len(call.in) /\ w = Len(d.tempBuf) /\ w <= p /\ w <= RcInit
      /\ call.in \in Seq(Nat) /\ Consecutive(call.in, p)
      /\ d.tempBuf \in Seq(Nat) /\ Consecutive(d.tempBuf, p - w)
  BY DEF Hand
<1>2. PICK room \in Nat, rc \in Nat : rc = RcInit /\ room = rc - w
  <2>1. RcInit \in Nat /\ w <= RcInit
    BY <1>1, ConstantFacts
  <2>2. RcInit - w \in Nat
    BY <2>1
  <2> QED
    BY <2>1, <2>2
<1>3. PICK n \in Nat : n = Smaller(room, i) /\ n <= room /\ n <= i /\ (n = room \/ n = i)
  <2>1. Smaller(room, i) \in Nat /\ Smaller(room, i) <= room /\ Smaller(room, i) <= i
        /\ (Smaller(room, i) = room \/ Smaller(room, i) = i)
    BY SmallerFacts
  <2> QED
    BY <2>1
<1>4. n <= i /\ w + n <= RcInit /\ (n = i \/ w + n = RcInit)
  <2>1. w <= rc
    BY <1>1, <1>2
  <2>2. w + n <= rc /\ (n = i \/ w + n = rc)
    BY <2>1, <1>2, <1>3
  <2> QED
    BY <2>2, <1>2, <1>3
<1>5. PICK in \in Seq(Nat), old \in Seq(Nat), z \in Nat : in = call.in /\ old = d.tempBuf /\ z = 0
  BY <1>1
<1>6. /\ SubSeq(in, z + 1, n) \in Seq(Nat) /\ Len(SubSeq(in, z + 1, n)) = n - z /\ Consecutive(SubSeq(in, z + 1, n), p + z)
      /\ SubSeq(in, n + 1, i) \in Seq(Nat) /\ Len(SubSeq(in, n + 1, i)) = i - n /\ Consecutive(SubSeq(in, n + 1, i), p + n)
  <2>1. Consecutive(in, p) /\ z <= n /\ n <= Len(in) /\ n <= i /\ i <= Len(in) /\ p \in Int
    BY <1>1, <1>4, <1>5
  <2> QED
    BY <2>1, PartConsecutive
<1>7. PICK t \in Seq(Nat), rest \in Seq(Nat) : t = SubSeq(in, z + 1, n) /\ rest = SubSeq(in, n + 1, i)
  BY <1>6
<1>8. PICK f \in Int : f = p - w
  OBVIOUS
<1>9. Len(t) = n /\ Consecutive(t, f + w) /\ Consecutive(old, f) /\ w = Len(old)
  <2>1. n - z = n /\ p + z = p /\ f + w = p
    BY <1>5, <1>8
  <2> QED
    BY <2>1, <1>1, <1>5, <1>6, <1>7, <1>8
<1>10. old \o t \in Seq(Nat) /\ Len(old \o t) = w + Len(t) /\ Consecutive(old \o t, f)
  BY <1>9, BothConsecutive
<1>11. PICK temp \in Seq(Nat) : temp = old \o t
  BY <1>10
<1>12. /\ Len(temp) = w + n /\ Consecutive(temp, p - w)
       /\ Len(rest) = i - n /\ Consecutive(rest, p + n)
  BY <1>6, <1>7, <1>8, <1>9, <1>10, <1>11
<1>13. t = SubSeq(call.in, 1, n)
  <2>1. z + 1 = 1
    BY <1>5
  <2> QED
    BY <2>1, <1>5, <1>7
<1>14. /\ n = Smaller(RcInit - Len(d.tempBuf), Len(call.in))
       /\ temp = d.tempBuf \o SubSeq(call.in, 1, n)
       /\ rest = SubSeq(call.in, n + 1, Len(call.in))
  BY <1>1, <1>2, <1>3, <1>5, <1>7, <1>11, <1>13
<1> QED
  BY <1>4, <1>12, <1>14 DEF RcTaken

\* The steps of StartRc that return; remainLen stays.
LEMMA RcReturns ==
  ASSUME LzInv, pc = "dic", d.remainLen > kMatchSpecLenStart, NEW res \in {"ok", "data"}, NEW status \in {"none", "needs_input"},
         NEW in \in Seq(Nat), NEW dec \in Decoders, Return(res, status, in, dec),
         Alike(dec, d), dec.remainLen = d.remainLen, dec.checkDicSize = d.checkDicSize, dec.processedPos = d.processedPos,
         InputInv',
         res = "data" => status = "none" /\ CauseOf(status),
         res = "ok" => status = "needs_input" /\ in = <<>>
  PROVE  LzInv'
<1>1. d \in Decoders /\ call \in CallTypes
  BY TypeFacts
<1>2. res \in Results /\ status \in Statuses
  BY DEF Results, Statuses
<1>3. /\ pc' = "ret" /\ d' = dec /\ stream' = stream /\ real' = real /\ fed' = fed /\ out' = out /\ last' = last
      /\ call' \in CallTypes /\ call'.op = call.op /\ call'.from = call.from /\ call'.dicLimit = call.dicLimit
      /\ call'.outSize = call.outSize /\ call'.given = call.given
      /\ call'.in = in /\ call'.res = res /\ call'.status = status
  BY <1>2, ReturnFacts
<1>4. DicNext
  BY <1>3 DEF DicNext, InDic
<1>5. PICK l \in Nat : l = d.remainLen
  BY <1>1, DecoderFields
<1>6. Level = l
  BY <1>5 DEF Level, InReal
<1>7. /\ l \in 0 .. kMatchSpecLenStart \cup {kMatchSpecLenStart + 2, kMatchSpecLen_ErrorData}
      /\ Ref(d.sym).bad <=> l >= kMatchSpecLen_ErrorData
      /\ Ref(d.sym).ended <=> l = kMatchSpecLenStart
      /\ l # kMatchSpecLenStart + 2 /\ d.sym = 0 /\ NumSyms > 0 => stream.syms[1].kind # "rep"
  BY <1>5, <1>6 DEF LzInv, LevelInv, NotStarted
<1>8. CoreInv' /\ LevelInv'
  <2>1. /\ d'.remainLen = l /\ pc' # "loop" /\ Owed(l) = Owed(Level)
        /\ l = kMatchSpecLenStart + 2 => NotStarted /\ d'.checkDicSize = d.checkDicSize /\ d'.processedPos = d.processedPos
    BY <1>3, <1>5, <1>6 DEF NotStarted
  <2> QED
    BY <2>1, <1>4, <1>7, LevelKeeps
<1>9. CheckInv'
  <2>1. Checks(d)
    BY CoreNow
  <2> QED
    BY <2>1, <1>3 DEF CheckInv, Checks, Alike
<1>10. ReturnInv'
  <2>1. Ref(d.sym)' = Ref(d.sym) /\ CodeIsZero' = CodeIsZero /\ NumSyms' = NumSyms /\ d'.sym = d.sym
    BY <1>3, SameStream DEF CodeIsZero, Alike
  <2>2. NotStarted' = NotStarted /\ BadFirst' = BadFirst
    BY <2>1, <1>3 DEF NotStarted, BadFirst
  <2>3. res = "data" => CauseOf(status)'
    BY <2>1, <2>2, <1>3 DEF CauseOf
  <2>4. CauseOf(call.status)' = CauseOf(status)'
    BY <2>1, <1>3 DEF CauseOf
  <2> QED
    BY <2>3, <2>4, <1>3 DEF ReturnInv
<1> QED
  BY <1>4, <1>8, <1>9, <1>10, DicKeeps DEF LzInv

\* Bytes were taken for the range coder and wait.
LEMMA RcWaits ==
  ASSUME LzInv, pc = "dic", NotStarted, NEW p \in Nat, NEW i \in Nat, NEW w \in Nat, Hand(p, i, w),
         NEW n \in Nat, NEW temp \in Seq(Nat), NEW rest \in Seq(Nat), RcTaken(n, temp, rest, p, i, w),
         stream' = stream, fed' = fed, call'.given = call.given, call'.in = rest, pc' = "ret",
         d'.tempBuf = temp, d'.remainLen = d.remainLen
  PROVE  InputInv'
<1>1. /\ p = w /\ p + i = fed + call.given /\ p + i <= NumBytes /\ i <= call.given
  BY DEF Hand
<1>2. /\ n <= i /\ w + n <= RcInit /\ Len(temp) = w + n /\ Consecutive(temp, p - w)
      /\ Len(rest) = i - n /\ Consecutive(rest, p + n)
  BY DEF RcTaken
<1>3. PICK q \in Nat, j \in Nat, x \in Nat : q = p + n /\ j = i - n /\ x = w + n
  <2>1. n <= i
    BY <1>2
  <2>2. i - n \in Nat
    BY <2>1
  <2> QED
    BY <2>2
<1>4. q + j = p + i /\ j <= i /\ q = x /\ q - x = p - w
  <2>1. n <= i
    BY <1>2
  <2> QED
    BY <2>1, <1>1, <1>3
<1>5. fed \in Nat /\ call.given \in Nat /\ RcInit \in Nat /\ Required \in Nat /\ Required >= RcInit
  BY TypeFacts, CallFields, ConstantFacts
<1>6. j <= call.given /\ x <= q /\ x <= RcInit /\ x <= Required
  BY <1>1, <1>2, <1>3, <1>4, <1>5
<1>7. q + j = fed + call.given /\ q + j <= NumBytes /\ Consecutive(temp, q - x) /\ Consecutive(rest, q) /\ j = Len(rest) /\ x = Len(temp)
  BY <1>1, <1>2, <1>3, <1>4
<1>8. d'.remainLen = kMatchSpecLenStart + 2
  BY DEF NotStarted
<1>9. HandNext(q, j, x)
  BY <1>4, <1>5, <1>6, <1>7, <1>8 DEF HandNext
<1> QED
  BY <1>9, InputNext

\* The decoder is in an error state, or takes the first bytes.
LEMMA StartRcStep ==
  ASSUME LzInv, StartRc
  PROVE  LzInv'
<1>1. pc = "dic" /\ d.remainLen > kMatchSpecLenStart
  BY DEF StartRc
<1>2. d \in Decoders /\ call \in CallTypes /\ call.in \in Seq(Nat) /\ stream \in Streams
  BY TypeFacts, CallFields
<1>3. PICK p \in Nat, i \in Nat, w \in Nat : Hand(p, i, w)
  BY HandFacts
<1>4. Level = d.remainLen /\ ~InReal /\ d.remainLen \in Nat
  BY <1>1, <1>2, DecoderFields DEF Level, InReal
<1>5. CASE ~NotStarted
  <2>1. d.remainLen = kMatchSpecLen_ErrorData
    <3>1. d.remainLen \in 0 .. kMatchSpecLenStart \cup {kMatchSpecLenStart + 2, kMatchSpecLen_ErrorData}
      BY DEF LzInv, LevelInv
    <3>2. d.remainLen # kMatchSpecLenStart + 2
      BY <1>5 DEF NotStarted
    <3> QED
      BY <3>1, <3>2, <1>1, <1>4 DEF kMatchSpecLenStart, kMatchSpecLen_ErrorData
  <2>2. Ref(d.sym).bad
    BY <2>1, <1>4 DEF LzInv, LevelInv, kMatchSpecLen_ErrorData
  <2>3. PICK in \in Seq(Nat), res \in {"ok", "data"}, status \in {"none", "needs_input"} : in = call.in /\ res = "data" /\ status = "none"
    BY <1>2
  <2>4. Return(res, status, in, d)
    BY <2>1, <2>3 DEF StartRc, kMatchSpecLenStart, kMatchSpecLen_ErrorFail, kMatchSpecLen_ErrorData
  <2>5. Alike(d, d)
    BY <1>2 DEF Alike
  <2>6. InputInv'
    <3>1. stream' = stream /\ fed' = fed /\ call'.given = call.given /\ call'.in = call.in /\ pc' = "ret" /\ d' = d
      BY <2>3, <2>4, ReturnFacts DEF Results, Statuses
    <3>2. fed \in Nat /\ call.given \in Nat
      BY <1>2, TypeFacts, CallFields
    <3>3. HandNext(p, i, w)
      BY <3>1, <3>2, <1>3, <1>4, <1>5 DEF Hand, HandNext, NotStarted
    <3> QED
      BY <3>1, <3>3, InputNext
  <2>7. res = "data" /\ status = "none" /\ CauseOf(status)
    BY <2>2, <2>3 DEF CauseOf
  <2> QED
    BY <2>4, <2>5, <2>6, <2>7, <1>1, <1>2, RcReturns
<1>6. CASE NotStarted
  <2>1. PICK n \in Nat, temp \in Seq(Nat), rest \in Seq(Nat) : RcTaken(n, temp, rest, p, i, w)
    BY <1>3, <1>6, RcBytes
  <2>2. PICK got : got = [d EXCEPT !.tempBuf = temp]
    OBVIOUS
  <2>3. /\ got \in Decoders /\ Alike(got, d) /\ got.remainLen = d.remainLen /\ got.checkDicSize = d.checkDicSize
        /\ got.processedPos = d.processedPos /\ got.tempBuf = temp
    BY <2>2, <1>2 DEF Decoders, Alike
  <2>4. IF temp # <<>> /\ ~stream.lead THEN Return("data", "none", rest, got)
        ELSE IF Len(temp) < RcInit THEN Return("ok", "needs_input", rest, got)
        ELSE IF BadFirst THEN Return("data", "none", rest, got)
        ELSE /\ d' = [got EXCEPT !.tempBuf = <<>>, !.remainLen = 0]
             /\ call' = [call EXCEPT !.in = rest] /\ pc' = "loop"
             /\ UNCHANGED <<stream, real, fed, out, last>>
    <3>1. ~(d.remainLen > kMatchSpecLenStart + 2)
      BY <1>6 DEF NotStarted, kMatchSpecLenStart
    <3> QED
      BY <2>1, <2>2, <3>1 DEF StartRc, RcTaken
  <2>5. ASSUME NEW res \in {"ok", "data"}, NEW status \in {"none", "needs_input"}, Return(res, status, rest, got),
               res = "data" => status = "none" /\ CauseOf(status),
               res = "ok" => status = "needs_input" /\ rest = <<>>
        PROVE  LzInv'
    <3>1. res \in Results /\ status \in Statuses
      BY DEF Results, Statuses
    <3>2. stream' = stream /\ fed' = fed /\ call'.given = call.given /\ call'.in = rest /\ pc' = "ret" /\ d' = got
      BY <2>5, <3>1, ReturnFacts
    <3>3. InputInv'
      BY <2>1, <2>3, <3>2, <1>1, <1>3, <1>6, RcWaits
    <3> QED
      BY <2>3, <2>5, <3>3, <1>1, RcReturns
  <2>6. CASE temp # <<>> /\ ~stream.lead
    BY <2>4, <2>5, <2>6 DEF CauseOf
  <2>7. CASE ~(temp # <<>> /\ ~stream.lead) /\ Len(temp) < RcInit
    <3>1. rest = <<>>
      <4>1. n <= i /\ w + n <= RcInit /\ (n = i \/ w + n = RcInit) /\ Len(temp) = w + n /\ Len(rest) = i - n
        BY <2>1 DEF RcTaken
      <4>2. n = i
        BY <2>7, <4>1, ConstantFacts
      <4>3. Len(rest) = 0
        BY <4>1, <4>2
      <4> QED
        BY <4>3, EmptySeq
    <3>2. Return("ok", "needs_input", rest, got)
      BY <2>4, <2>7
    <3> QED
      BY <2>5, <3>1, <3>2
  <2>8. CASE ~(temp # <<>> /\ ~stream.lead) /\ ~(Len(temp) < RcInit) /\ BadFirst
    <3>1. Return("data", "none", rest, got)
      BY <2>4, <2>8
    <3>2. CauseOf("none")
      BY <2>8, <1>6 DEF CauseOf
    <3> QED
      BY <2>5, <3>1, <3>2
  <2>9. CASE ~(temp # <<>> /\ ~stream.lead) /\ ~(Len(temp) < RcInit) /\ ~BadFirst
    <3>1. /\ d' = [got EXCEPT !.tempBuf = <<>>, !.remainLen = 0]
          /\ call' = [call EXCEPT !.in = rest] /\ pc' = "loop"
          /\ stream' = stream /\ real' = real /\ fed' = fed /\ out' = out /\ last' = last
      BY <2>4, <2>9
    <3>2. <<>> \in Seq(Nat) /\ 0 \in Nat
      BY EmptySeq
    <3>3. /\ d' \in Decoders /\ Alike(d', d) /\ d'.remainLen = 0 /\ d'.checkDicSize = d.checkDicSize
          /\ d'.processedPos = d.processedPos /\ d'.tempBuf = <<>> /\ d'.sym = d.sym
      BY <2>3, <3>1, <3>2 DEF Decoders, Alike
    <3>4. call' \in CallTypes /\ call'.op = call.op /\ call'.from = call.from /\ call'.dicLimit = call.dicLimit
          /\ call'.outSize = call.outSize /\ call'.given = call.given /\ call'.in = rest
      BY <3>1, <1>2 DEF CallTypes
    <3>5. DicNext
      BY <3>1, <3>3, <3>4, <1>1 DEF DicNext, InDic
    <3>6. d.sym = 0 /\ d.total = 0 /\ d.checkDicSize = 0 /\ d.processedPos = 0
      BY <1>6 DEF LzInv, LevelInv
    <3>7. CoreInv' /\ LevelInv'
      <4>1. PICK l \in Nat : l = 0
        OBVIOUS
      <4>2. /\ d'.remainLen = l /\ l <= kMatchSpecLenStart /\ l # kMatchSpecLenStart + 2 /\ ~(l >= kMatchSpecLen_ErrorData)
            /\ l # kMatchSpecLenStart /\ l \in 0 .. kMatchSpecLenStart
        BY <3>3, <4>1 DEF kMatchSpecLenStart, kMatchSpecLen_ErrorData
      <4>3. Owed(l) = Owed(Level)
        BY <4>1, <1>4, <1>6 DEF Owed, NotStarted, kMatchSpecLenStart
      <4>4. ~Ref(d.sym).bad /\ ~Ref(d.sym).ended
        BY <1>4, <1>6 DEF LzInv, LevelInv, NotStarted, kMatchSpecLenStart, kMatchSpecLen_ErrorData
      <4>5. NumSyms > 0 => stream.syms[1].kind # "rep"
        BY <2>9, <3>6 DEF BadFirst
      <4> QED
        BY <4>2, <4>3, <4>4, <4>5, <3>5, LevelKeeps
    <3>8. CheckInv'
      <4>1. Checks(d)
        BY <1>1, CoreNow
      <4> QED
        BY <4>1, <3>3 DEF CheckInv, Checks, Alike
    <3>9. InputInv'
      <4>1. /\ n <= i /\ w + n <= RcInit /\ Len(temp) = w + n
            /\ Len(rest) = i - n /\ Consecutive(rest, p + n)
        BY <2>1 DEF RcTaken
      <4>2. /\ p = w /\ p + i = fed + call.given /\ p + i <= NumBytes /\ i <= call.given
        BY <1>3, <1>6 DEF Hand
      <4>3. PICK q \in Nat, j \in Nat, z \in Nat : q = p + n /\ j = i - n /\ z = 0
        BY <4>1
      <4>4. RcInit \in Nat /\ fed \in Nat /\ call.given \in Nat /\ Required \in Nat
        BY <1>2, TypeFacts, CallFields, ConstantFacts
      <4>5. w + n = RcInit
        BY <2>9, <4>1, <4>4
      <4>6. q = RcInit /\ q + j = p + i /\ j <= i
        <5>1. q = w + n
          BY <4>2, <4>3
        <5> QED
          BY <5>1, <4>1, <4>3, <4>5
      <4>7. Start(d'.sym) = RcInit
        BY <1>2, <3>3, <3>6, StartFacts
      <4>8. z = Len(<<>>) /\ Consecutive(<<>>, q - z) /\ z <= Required /\ z <= q /\ ~(z > 0) /\ (q - z) + 0 = q
        BY <4>3, <4>4, NoneConsecutive
      <4>9. j = Len(rest) /\ Consecutive(rest, q) /\ q + j = fed + call.given /\ q + j <= NumBytes
        BY <4>1, <4>2, <4>3, <4>6
      <4>10. j <= call.given
        BY <4>2, <4>4, <4>6
      <4>11. d'.remainLen # kMatchSpecLenStart + 2 /\ pc' \notin {"real", "after"} /\ (q - z) + 0 = Start(d'.sym)
        BY <3>1, <3>3, <4>6, <4>7, <4>8 DEF kMatchSpecLenStart
      <4>12. HandNext(q, j, z)
        BY <3>1, <3>2, <3>3, <3>4, <4>4, <4>8, <4>9, <4>10, <4>11 DEF HandNext
      <4> QED
        BY <3>1, <4>12, InputNext
    <3>10. ReturnInv'
      BY <3>1, NotReturned
    <3> QED
      BY <3>5, <3>7, <3>8, <3>9, <3>10, DicKeeps DEF LzInv
  <2> QED
    BY <2>6, <2>7, <2>8, <2>9
<1> QED
  BY <1>5, <1>6
-----------------------------------------------------------------------------
(* The rounds of DecodeToBuf                                               *)

\* The place before the first byte is that behind the last one.
LEMMA BufWraps ==
  ASSUME NEW dic, NEW size \in Nat, NEW total \in Nat, NEW whole, Holds(dic, size, size, total, whole)
  PROVE  Holds(dic, 0, size, total, whole)
<1>1. ASSUME NEW k \in 1 .. size PROVE Place(0, k, size) = Place(size, k, size)
  BY DEF Place
<1> QED
  BY <1>1 DEF Holds

\* A round of DecodeToBuf starts at the beginning of the buffer again when it is full.
LEMMA BufRoundStep ==
  ASSUME LzInv, BufRound
  PROVE  LzInv'
<1>1. pc = "buf" /\ pc' = "dic" /\ stream' = stream /\ real' = real /\ fed' = fed /\ out' = out /\ last' = last
  BY DEF BufRound
<1>2. d \in Decoders /\ call \in CallTypes /\ stream \in Streams /\ fed \in Nat /\ out \in Seq(Nat)
      /\ real \in RealTypes /\ last \in LastTypes
  BY TypeFacts
<1>3. PICK at \in Nat, size \in Nat, total \in Nat, room \in Nat :
        at = d.dicPos /\ size = d.dicBufSize /\ total = d.total /\ room = call.outSize
  BY <1>2, DecoderFields, CallFields
<1>4. PICK pos \in Nat : pos = IF at = size THEN 0 ELSE at
  OBVIOUS
<1>5. DicSize <= size /\ size > 0 /\ call.op = "buf"
  <2>1. DicSize <= size /\ call.op = "buf"
    BY <1>1, <1>3 DEF LzInv, WideInv, CallInv, InDic
  <2> QED
    BY <2>1, ConstantFacts
<1>6. PICK owed \in Nat : owed = Owed(Level)
  BY <1>1, <1>2, DecoderFields DEF Level, InReal, Owed
<1>7. Core(d, owed) /\ Checks(d)
  BY <1>1, <1>6, CoreNow
<1>8. PICK whole : whole = Ref(d.sym).out
  OBVIOUS
<1>9. Data(d, whole, owed) /\ at <= size /\ Holds(d.dic, at, size, total, whole)
  <2>1. Data(d, whole, owed)
    BY <1>2, <1>7, <1>8, CoreFacts
  <2> QED
    BY <2>1, <1>3, DataFacts
<1>10. pos < size /\ Holds(d.dic, pos, size, total, whole)
  <2>1. CASE at = size
    <3>1. Holds(d.dic, size, size, total, whole)
      BY <2>1, <1>9
    <3>2. pos = 0
      BY <2>1, <1>4
    <3> QED
      BY <3>1, <3>2, <1>5, BufWraps
  <2>2. CASE at # size
    BY <2>2, <1>4, <1>9
  <2> QED
    BY <2>1, <2>2
<1>11. PICK limit \in Nat, fin \in {"any", "end"} :
         /\ limit = (IF room <= size - pos THEN pos + room ELSE size)
         /\ fin = (IF room <= size - pos THEN call.finish ELSE "any")
  <2>1. call.finish \in {"any", "end"}
    BY <1>2, CallFields
  <2>2. (IF room <= size - pos THEN pos + room ELSE size) \in Nat
    OBVIOUS
  <2>3. (IF room <= size - pos THEN call.finish ELSE "any") \in {"any", "end"}
    BY <2>1
  <2> QED
    BY <2>2, <2>3
<1>12. d' = [d EXCEPT !.dicPos = pos] /\ call' = [call EXCEPT !.dicLimit = limit, !.curFinish = fin, !.from = pos]
  BY <1>3, <1>4, <1>11 DEF BufRound
<1>13. /\ d' \in Decoders /\ d'.dicPos = pos
       /\ d'.remainLen = d.remainLen /\ d'.tempBuf = d.tempBuf /\ d'.processedPos = d.processedPos
       /\ d'.checkDicSize = d.checkDicSize /\ d'.dicBufSize = d.dicBufSize /\ d'.dic = d.dic /\ d'.sym = d.sym
       /\ d'.reps = d.reps /\ d'.afterMatch = d.afterMatch /\ d'.total = d.total
  BY <1>2, <1>12 DEF Decoders
<1>14. /\ call' \in CallTypes /\ call'.op = call.op /\ call'.in = call.in /\ call'.given = call.given
       /\ call'.outSize = room /\ call'.dicLimit = limit /\ call'.from = pos
  BY <1>2, <1>3, <1>12 DEF CallTypes
<1>15. Ref(d.sym)' = Ref(d.sym) /\ NumSyms' = NumSyms /\ CodeIsZero' = CodeIsZero
  BY <1>1, <1>13, SameStream DEF CodeIsZero
<1>16. TypesInv'
  BY <1>1, <1>2, <1>13, <1>14 DEF TypesInv
<1>17. CoreInv'
  <2>1. Data(d', whole, owed)
    <3>1. Fits(d')
      BY <1>3, <1>5, <1>10, <1>13 DEF Fits
    <3>2. Repeats(d', whole)
      BY <1>9, <1>13 DEF Data, Repeats
    <3> QED
      BY <3>1, <3>2, <1>3, <1>9, <1>10, <1>13 DEF Data
  <2>2. Core(d', owed)
    BY <2>1, <1>7, <1>8, <1>13 DEF Core
  <2>3. owed = Owed(IF pc' \in {"real", "after"} THEN real'.len ELSE d'.remainLen)
    BY <1>1, <1>6, <1>13 DEF Level, InReal
  <2> QED
    BY <2>2, <2>3, <1>1, CoreNext
<1>18. WideInv'
  BY <1>3, <1>5, <1>13 DEF WideInv
<1>19. CheckInv'
  BY <1>7, <1>13 DEF CheckInv, Checks
<1>20. OutInv'
  <2>1. total = Len(out) + 0 /\ \A k \in 1 .. Len(out) : out[k] = Ref(d.sym).out[k]
    BY <1>1, <1>3 DEF LzInv, OutInv, InDic
  <2>2. d'.dicPos - call'.from = 0 /\ call'.from <= d'.dicPos
    BY <1>13, <1>14
  <2>3. InDic'
    BY <1>1 DEF InDic
  <2> QED
    BY <2>1, <2>2, <2>3, <1>1, <1>3, <1>13, <1>15 DEF OutInv
<1>21. LevelInv'
  <2>1. Level' = Level /\ ~InReal' /\ ~InReal /\ NotStarted' = NotStarted
    BY <1>1, <1>13 DEF Level, InReal, NotStarted
  <2> QED
    BY <2>1, <1>1, <1>13, <1>15 DEF LzInv, LevelInv
<1>22. InputInv'
  <2>1. PICK p \in Nat, i \in Nat, w \in Nat : Hand(p, i, w)
    BY HandFacts
  <2>2. call.given \in Nat /\ ~InReal
    BY <1>1, <1>2, CallFields DEF InReal
  <2>3. HandNext(p, i, w)
    BY <2>1, <2>2, <1>1, <1>2, <1>13, <1>14 DEF Hand, HandNext, NotStarted
  <2> QED
    BY <2>3, <1>1, InputNext
<1>23. LoopInv'
  BY <1>1, LoopElsewhere
<1>24. CallInv'
  <2>1. limit <= size /\ pos <= limit /\ limit - pos <= room /\ (limit - pos = room \/ pos < limit)
    <3>1. CASE room <= size - pos
      <4>1. limit = pos + room
        BY <3>1, <1>11
      <4> QED
        BY <4>1, <3>1
    <3>2. CASE ~(room <= size - pos)
      <4>1. limit = size
        BY <3>2, <1>11
      <4> QED
        BY <4>1, <3>2, <1>10
    <3> QED
      BY <3>1, <3>2
  <2> QED
    BY <2>1, <1>1, <1>3, <1>5, <1>13, <1>14 DEF CallInv, InDic
<1>25. ReturnInv'
  BY <1>1, NotReturned
<1>26. LastInv'
  BY <1>1 DEF LzInv, LastInv
<1> QED
  BY <1>16, <1>17, <1>18, <1>19, <1>20, <1>21, <1>22, <1>23, <1>24, <1>25, <1>26 DEF LzInv

\* A list of bytes, from a function.
LEMMA NatFunction ==
  ASSUME NEW n \in Nat, NEW f \in [1 .. n -> Nat]
  PROVE  f \in Seq(Nat) /\ Len(f) = n
<1>1. f \in Seq(Nat)
  BY SeqDef
<1>2. DOMAIN f = 1 .. n /\ Len(f) \in Nat /\ DOMAIN f = 1 .. Len(f)
  BY <1>1, LenProperties
<1> QED
  BY <1>1, <1>2

\* The n bytes of the dictionary from one place on are those after the first l of the output.
NewBytes(dic, from, n, l, whole) ==
  \A k \in 1 .. n : dic[from + k - 1] \in Nat /\ dic[from + k - 1] = whole[l + k]

\* The last n bytes of the dictionary, in the order they were written.
LEMMA LastBytes ==
  ASSUME NEW dic, NEW from \in Nat, NEW n \in Nat, NEW pos \in Nat, NEW size \in Nat, NEW total \in Nat, NEW l \in Nat, NEW whole,
         pos = from + n, pos <= size, total = l + n, Holds(dic, pos, size, total, whole)
  PROVE  NewBytes(dic, from, n, l, whole)
<1> SUFFICES ASSUME NEW k \in 1 .. n
             PROVE  dic[from + k - 1] \in Nat /\ dic[from + k - 1] = whole[l + k]
  BY DEF NewBytes
<1>1. PICK at \in Nat, j \in Nat : at = from + k - 1 /\ j = (n + 1) - k
  OBVIOUS
<1>2. at < size /\ j \in 1 .. size /\ j <= total /\ j <= pos /\ pos - j = at /\ total + 1 - j = l + k
  BY <1>1
<1>3. Place(pos, j, size) = at
  BY <1>2 DEF Place
<1>4. dic[at] = whole[l + k]
  BY <1>2, <1>3 DEF Holds
<1>5. dic[at] \in Nat
  BY <1>2 DEF Holds
<1> QED
  BY <1>1, <1>4, <1>5

\* What the caller has after a round is the output of the symbols so far.
LEMMA HandedOut ==
  ASSUME LzInv, pc = "ret"
  PROVE  \E n \in Nat, bytes \in Seq(Nat) :
           /\ n = d.dicPos - call.from /\ bytes = [k \in 1 .. n |-> d.dic[call.from + k - 1]]
           /\ out \o bytes \in Seq(Nat) /\ d.total = Len(out \o bytes)
           /\ \A k \in 1 .. Len(out \o bytes) : (out \o bytes)[k] = Ref(d.sym).out[k]
<1>1. d \in Decoders /\ call \in CallTypes /\ stream \in Streams /\ out \in Seq(Nat)
  BY TypeFacts
<1>2. PICK from \in Nat, pos \in Nat, size \in Nat, total \in Nat, l \in Nat :
        from = call.from /\ pos = d.dicPos /\ size = d.dicBufSize /\ total = d.total /\ l = Len(out)
  BY <1>1, DecoderFields, CallFields, NatSeq
<1>3. total = l + (pos - from) /\ from <= pos /\ \A k \in 1 .. l : out[k] = Ref(d.sym).out[k]
  BY <1>2 DEF LzInv, OutInv, InDic
<1>4. PICK n \in Nat : n = pos - from
  BY <1>3
<1>5. pos = from + n /\ total = l + n
  BY <1>3, <1>4
<1>6. PICK owed \in Nat : owed = Owed(Level)
  <2>1. Level \in Nat
    BY <1>1, DecoderFields DEF Level, InReal
  <2> QED
    BY <2>1 DEF Owed
<1>7. PICK whole, dic : whole = Ref(d.sym).out /\ dic = d.dic
  OBVIOUS
<1>8. pos <= size /\ Holds(dic, pos, size, total, whole)
  <2>1. Core(d, owed)
    BY <1>6, CoreNow
  <2>2. Data(d, whole, owed)
    BY <2>1, <1>1, <1>7, CoreFacts
  <2> QED
    BY <2>2, <1>2, <1>7, DataFacts
<1>9. \A k \in 1 .. n : dic[from + k - 1] \in Nat /\ dic[from + k - 1] = whole[l + k]
  <2>1. NewBytes(dic, from, n, l, whole)
    BY <1>5, <1>8, LastBytes
  <2> QED
    BY <2>1 DEF NewBytes
<1>10. PICK bytes : bytes = [k \in 1 .. n |-> dic[from + k - 1]]
  OBVIOUS
<1>11. bytes \in Seq(Nat) /\ Len(bytes) = n
  <2>1. bytes \in [1 .. n -> Nat]
    BY <1>9, <1>10
  <2> QED
    BY <2>1, NatFunction
<1>12. PICK both \in Seq(Nat) :
         /\ both = out \o bytes /\ Len(both) = l + n
         /\ \A k \in 1 .. l : both[k] = out[k]
         /\ \A k \in 1 .. n : both[l + k] = bytes[k]
  <2>1. PICK o \in Seq(Nat) : o = out
    BY <1>1
  <2>2. /\ o \o bytes \in Seq(Nat) /\ Len(o \o bytes) = Len(o) + Len(bytes)
        /\ \A k \in 1 .. Len(o) : (o \o bytes)[k] = o[k]
        /\ \A k \in 1 .. Len(bytes) : (o \o bytes)[Len(o) + k] = bytes[k]
    BY <1>11, NatConcat
  <2> QED
    BY <2>1, <2>2, <1>2, <1>11
<1>13. \A k \in 1 .. n : both[l + k] = whole[l + k]
  BY <1>9, <1>10, <1>12
<1>14. ASSUME NEW k \in 1 .. l + n PROVE both[k] = whole[k]
  <2>1. CASE k <= l
    <3>1. k \in 1 .. l
      BY <2>1
    <3> QED
      BY <3>1, <1>3, <1>7, <1>12
  <2>2. CASE k > l
    <3>1. PICK j \in 1 .. n : k = l + j
      <4>1. k - l \in 1 .. n /\ k = l + (k - l)
        BY <2>2
      <4> QED
        BY <4>1
    <3> QED
      BY <3>1, <1>13
  <2> QED
    BY <2>1, <2>2
<1>15. n = d.dicPos - call.from /\ bytes = [k \in 1 .. n |-> d.dic[call.from + k - 1]]
  BY <1>2, <1>4, <1>7, <1>10
<1>16. d.total = Len(both) /\ \A k \in 1 .. Len(both) : both[k] = Ref(d.sym).out[k]
  BY <1>2, <1>5, <1>7, <1>12, <1>14
<1> QED
  BY <1>11, <1>12, <1>15, <1>16

\* Between two calls and before a round of DecodeToBuf, with the decoder as it was.
LEMMA AsideKeeps ==
  ASSUME LzInv, pc \notin {"real", "after"}, pc' \in {"idle", "buf", "over"},
         stream' = stream, d' = d, real' = real,
         call' \in CallTypes, fed' \in Nat, last' \in LastTypes,
         out' \in Seq(Nat), d.total = Len(out'), \A k \in 1 .. Len(out') : out'[k] = Ref(d.sym).out[k]
  PROVE  TypesInv' /\ CoreInv' /\ CheckInv' /\ OutInv' /\ LevelInv' /\ LoopInv' /\ ReturnInv'
<1>1. ~InReal /\ ~InReal' /\ ~InDic' /\ Level' = Level /\ Level = d.remainLen /\ NotStarted' = NotStarted
  BY DEF InReal, InDic, Level, NotStarted
<1>2. Ref(d.sym)' = Ref(d.sym) /\ NumSyms' = NumSyms
  BY SameStream
<1>3. TypesInv'
  BY TypeFacts DEF TypesInv
<1>4. CoreInv'
  <2>1. Core(d', Owed(Level))
    BY CoreNow
  <2>2. Owed(Level) = Owed(IF pc' \in {"real", "after"} THEN real'.len ELSE d'.remainLen)
    BY <1>1
  <2> QED
    BY <2>1, <2>2, CoreNext
<1>5. CheckInv'
  <2>1. Checks(d)
    BY CoreNow
  <2> QED
    BY <2>1 DEF CheckInv, Checks
<1>6. OutInv'
  <2>1. Len(out') \in Nat
    BY NatSeq
  <2> QED
    BY <2>1, <1>1, <1>2 DEF OutInv
<1>7. LevelInv'
  BY <1>1, <1>2 DEF LzInv, LevelInv
<1>8. LoopInv'
  BY LoopElsewhere
<1>9. ReturnInv'
  BY NotReturned
<1> QED
  BY <1>3, <1>4, <1>5, <1>6, <1>7, <1>8, <1>9

\* Why an error came does not depend on what happens outside the decoder.
LEMMA CauseStays ==
  ASSUME stream' = stream, d' = d, NEW status, CauseOf(status)
  PROVE  CauseOf(status)'
<1>1. Ref(d.sym)' = Ref(d.sym) /\ NumSyms' = NumSyms /\ CodeIsZero' = CodeIsZero
  BY SameStream DEF CodeIsZero
<1>2. NotStarted' = NotStarted /\ BadFirst' = BadFirst
  BY <1>1 DEF NotStarted, BadFirst
<1> QED
  BY <1>1, <1>2 DEF CauseOf

\* DecodeToBuf: the input is offered at the place up to which it was taken.
LEMMA DecodeToBufStep ==
  ASSUME LzInv, NEW m \in InSizes, NEW n \in OutSizes, NEW finish \in {"any", "end"}, DecodeToBuf(m, n, finish)
  PROVE  LzInv'
<1>1. /\ pc = "idle" /\ m <= NumBytes - fed /\ pc' = "buf"
      /\ stream' = stream /\ d' = d /\ real' = real /\ fed' = fed /\ out' = out /\ last' = last
      /\ call' = [NoCall EXCEPT !.op = "buf", !.in = Offered(m), !.given = m, !.outSize = n, !.finish = finish]
  BY DEF DecodeToBuf
<1>2. m \in Nat /\ n \in Nat
  BY DecoderCallsAssumption
<1>3. stream \in Streams /\ fed \in Nat /\ last \in LastTypes /\ out \in Seq(Nat) /\ NumBytes \in Nat
  <2>1. stream \in Streams /\ fed \in Nat /\ last \in LastTypes /\ out \in Seq(Nat)
    BY TypeFacts
  <2>2. NumSyms \in Nat
    BY <2>1, StreamFacts
  <2> QED
    BY <2>1, <2>2, StartFacts
<1>4. PICK in : in = Offered(m)
  OBVIOUS
<1>5. in \in Seq(Nat) /\ Len(in) = m /\ Consecutive(in, fed)
  <2>1. in = [k \in 1 .. m |-> fed + k]
    BY <1>4 DEF Offered
  <2>2. in \in [1 .. m -> Nat]
    BY <2>1, <1>2, <1>3
  <2>3. in \in Seq(Nat) /\ Len(in) = m
    BY <2>2, <1>2, NatFunction
  <2> QED
    BY <2>1, <2>3 DEF Consecutive
<1>6. call' \in CallTypes /\ call'.op = "buf" /\ call'.in = in /\ call'.given = m
  BY <1>1, <1>2, <1>4, <1>5 DEF CallTypes, NoCall, Results, Statuses
<1>7. TypesInv' /\ CoreInv' /\ CheckInv' /\ OutInv' /\ LevelInv' /\ LoopInv' /\ ReturnInv'
  <2>1. d.total = Len(out) /\ \A k \in 1 .. Len(out) : out[k] = Ref(d.sym).out[k]
    <3>1. d.total = Len(out) + 0 /\ \A k \in 1 .. Len(out) : out[k] = Ref(d.sym).out[k]
      BY <1>1 DEF LzInv, OutInv, InDic
    <3>2. Len(out) \in Nat
      BY <1>3, NatSeq
    <3> QED
      BY <3>1, <3>2
  <2> QED
    BY <2>1, <1>1, <1>3, <1>6, AsideKeeps
<1>8. WideInv'
  BY <1>1 DEF LzInv, WideInv, InDic
<1>9. InputInv'
  <2>1. PICK p \in Nat, i \in Nat, w \in Nat : Hand(p, i, w)
    BY HandFacts
  <2>2. call = NoCall
    BY <1>1 DEF LzInv, CallInv
  <2>3. i = 0 /\ call.given = 0
    BY <2>1, <2>2, EmptySeq DEF Hand, NoCall
  <2>4. p = fed
    BY <2>1, <2>3, <1>3 DEF Hand
  <2>5. p + m = fed' + m /\ p + m <= NumBytes /\ m <= m
    BY <2>4, <1>1, <1>2, <1>3
  <2>6. ~InReal /\ (p - w) + 0 = p - w
    BY <1>1 DEF InReal
  <2>7. Consecutive(in, p) /\ m = Len(in)
    BY <2>4, <1>5
  <2>8. HandNext(p, m, w)
    BY <2>1, <2>5, <2>6, <2>7, <1>1, <1>2, <1>3, <1>6 DEF Hand, HandNext, NotStarted, InReal
  <2> QED
    BY <2>8, <1>1, <1>2, InputNext
<1>10. CallInv'
  BY <1>1, <1>6 DEF CallInv, InDic
<1>11. LastInv'
  BY <1>1 DEF LzInv, LastInv
<1> QED
  BY <1>7, <1>8, <1>9, <1>10, <1>11 DEF LzInv

\* The end of a round: the caller gets what is new, and what is left of its input and room.
LEMMA DicReturnedStep ==
  ASSUME LzInv, DicReturned
  PROVE  LzInv'
<1>1. pc = "ret" /\ stream' = stream /\ d' = d /\ real' = real
  BY DEF DicReturned
<1>2. d \in Decoders /\ call \in CallTypes /\ stream \in Streams /\ fed \in Nat /\ last \in LastTypes
  BY TypeFacts
<1>3. PICK n \in Nat, bytes \in Seq(Nat) :
        /\ n = d.dicPos - call.from /\ bytes = [k \in 1 .. n |-> d.dic[call.from + k - 1]]
        /\ out \o bytes \in Seq(Nat) /\ d.total = Len(out \o bytes)
        /\ \A k \in 1 .. Len(out \o bytes) : (out \o bytes)[k] = Ref(d.sym).out[k]
  BY <1>1, HandedOut
<1>4. PICK pos \in Nat, from \in Nat, limit \in Nat, room \in Nat :
        pos = d.dicPos /\ from = call.from /\ limit = call.dicLimit /\ room = call.outSize
  BY <1>2, DecoderFields, CallFields
<1>5. /\ from <= pos /\ pos <= limit /\ limit - from <= room
      /\ limit - from = room \/ (call.op = "buf" /\ from < limit)
      /\ call.op # "none"
  BY <1>1, <1>4 DEF LzInv, CallInv, OutInv, InDic
<1>6. PICK left \in Nat : left = room - n
  <2>1. n = pos - from
    BY <1>3, <1>4
  <2>2. room - n \in Nat
    BY <2>1, <1>5
  <2> QED
    BY <2>2
<1>7. pos = limit => left = 0 \/ (call.op = "buf" /\ n > 0)
  BY <1>3, <1>4, <1>5, <1>6
<1>8. PICK more \in BOOLEAN : more <=> (call.op = "buf" /\ call.res = "ok" /\ n > 0 /\ left > 0)
  OBVIOUS
<1>9. PICK res : res = IF call.op = "one" /\ call.res = "ok" /\ call.status = "needs_input" THEN "input_eof" ELSE call.res
  OBVIOUS
<1>10. /\ out' = out \o bytes
       /\ call' = IF more THEN [call EXCEPT !.outSize = left] ELSE NoCall
       /\ pc' = IF more THEN "buf" ELSE IF call.op = "one" THEN "over" ELSE "idle"
       /\ IF more THEN UNCHANGED <<fed, last>>
          ELSE /\ fed' = fed + call.given - Len(call.in)
               /\ last' = [res |-> res, status |-> call.status, given |-> call.given,
                           taken |-> call.given - Len(call.in), left |-> left]
  <2>1. left = call.outSize - n
    BY <1>4, <1>6
  <2> QED
    BY <2>1, <1>3, <1>8, <1>9 DEF DicReturned
<1>11. PICK p \in Nat, i \in Nat, w \in Nat : Hand(p, i, w)
  BY HandFacts
<1>12. PICK given \in Nat, taken \in Nat : given = call.given /\ taken = given - i
  <2>1. call.given \in Nat /\ i <= call.given
    BY <1>2, <1>11, CallFields DEF Hand
  <2>2. call.given - i \in Nat
    BY <2>1
  <2> QED
    BY <2>1, <2>2
<1>13. /\ i = Len(call.in) /\ p = fed + given - i /\ p + i <= NumBytes
  BY <1>11, <1>12 DEF Hand, Position
<1>14. res \in Results /\ call.status \in Statuses /\ NoCall \in CallTypes
  BY <1>2, <1>9, CallFields, EmptySeq DEF Results, Statuses, CallTypes, NoCall
<1>15. /\ call' \in CallTypes /\ fed' \in Nat /\ last' \in LastTypes /\ pc' \in {"idle", "buf", "over"}
  <2>1. CASE more
    BY <2>1, <1>2, <1>10 DEF CallTypes
  <2>2. CASE ~more
    <3>1. last' = [res |-> res, status |-> call.status, given |-> given, taken |-> taken, left |-> left]
      BY <2>2, <1>10, <1>12, <1>13
    <3> QED
      BY <2>2, <3>1, <1>10, <1>12, <1>13, <1>14 DEF LastTypes
  <2> QED
    BY <2>1, <2>2
<1>16. TypesInv' /\ CoreInv' /\ CheckInv' /\ OutInv' /\ LevelInv' /\ LoopInv' /\ ReturnInv'
  BY <1>1, <1>3, <1>10, <1>15, AsideKeeps
<1>17. WideInv'
  <2>1. DicSize <= d.dicBufSize \/ call.op = "one"
    BY <1>1 DEF LzInv, WideInv
  <2>2. call.op = "one" => pc' = "over"
    BY <1>8, <1>10
  <2> QED
    BY <2>1, <2>2, <1>1 DEF WideInv
<1>18. InputInv'
  <2>1. ~InReal /\ ~InReal' /\ (p - w) + 0 = p - w
    BY <1>1, <1>15 DEF InReal
  <2>2. CASE more
    <3>1. call'.in = call.in /\ call'.given = call.given /\ fed' = fed
      BY <2>2, <1>2, <1>10 DEF CallTypes
    <3>2. HandNext(p, i, w)
      BY <2>1, <3>1, <1>1, <1>2, <1>11, <1>12, <1>15 DEF Hand, HandNext, NotStarted, InReal
    <3> QED
      BY <3>2, <1>1, InputNext
  <2>3. CASE ~more
    <3>1. PICK j \in Nat : j = 0
      OBVIOUS
    <3>2. call'.in = <<>> /\ call'.given = j /\ fed' = p
      BY <2>3, <3>1, <1>10, <1>12, <1>13 DEF NoCall
    <3>3. j = Len(<<>>) /\ p + j = p /\ j <= j /\ Consecutive(<<>>, p)
      BY <3>1, NoneConsecutive
    <3>4. NumBytes \in Nat
      <4>1. NumSyms \in Nat
        BY <1>2, StreamFacts
      <4> QED
        BY <4>1, <1>2, StartFacts
    <3>5. p + j = fed' + j /\ p + j <= NumBytes
      BY <3>2, <3>3, <3>4, <1>13
    <3>6. HandNext(p, j, w)
      BY <2>1, <3>2, <3>3, <3>5, <1>1, <1>2, <1>11, <1>15 DEF Hand, HandNext, NotStarted, InReal
    <3> QED
      BY <3>6, <1>1, InputNext
  <2> QED
    BY <2>2, <2>3
<1>19. CallInv'
  <2>1. CASE more
    <3>1. call'.op = call.op
      BY <2>1, <1>2, <1>10 DEF CallTypes
    <3> QED
      BY <2>1, <3>1, <1>8, <1>10 DEF CallInv, InDic
  <2>2. CASE ~more
    BY <2>2, <1>10 DEF CallInv, InDic
  <2> QED
    BY <2>1, <2>2
<1>20. LastInv'
  <2>1. last.res # "fail" /\ call.res \in {"ok", "data"} /\ (call.res = "data" => CauseOf(call.status))
    BY <1>1 DEF LzInv, LastInv, ReturnInv
  <2>2. CASE more
    BY <2>1, <2>2, <1>10 DEF LastInv
  <2>3. CASE ~more
    <3>1. last'.res = res /\ last'.status = call.status /\ last'.given = given /\ last'.taken = taken /\ last'.left = left
      BY <2>3, <1>10, <1>12, <1>13
    <3>2. res # "fail" /\ (res = "data" => call.res = "data") /\ (res = "ok" => call.res = "ok")
      BY <2>1, <1>9
    <3>3. PICK status : status = call.status
      OBVIOUS
    <3>4. last'.res = "data" => CauseOf(status)'
      BY <2>1, <3>1, <3>2, <3>3, <1>1, CauseStays
    <3>5. last'.res = "data" => CauseOf(last.status)'
      BY <3>1, <3>3, <3>4 DEF CauseOf
    <3>6. last'.status = "needs_input" => last'.taken = last'.given
      <4>1. call.status = "needs_input" => call.in = <<>>
        BY <1>1 DEF LzInv, ReturnInv
      <4>2. call.status = "needs_input" => i = 0
        BY <4>1, <1>13, EmptySeq
      <4> QED
        BY <4>2, <3>1, <1>12
    <3>7. last'.res = "ok" /\ last'.status \in {"not_finished", "maybe_finished"} => last'.left = 0
      <4>1. call.res = "ok" /\ call.status \in {"not_finished", "maybe_finished"} => pos = limit
        BY <1>1, <1>4 DEF LzInv, ReturnInv
      <4>2. call.res = "ok" /\ pos = limit => left = 0
        BY <2>3, <1>7, <1>8
      <4> QED
        BY <4>1, <4>2, <3>1, <3>2
    <3>8. last'.status = "finished_with_mark" => Ref(d.sym).ended
      BY <3>1, <1>1 DEF LzInv, ReturnInv
    <3>9. Ref(d.sym)' = Ref(d.sym)
      BY <1>1, SameStream
    <3> QED
      BY <3>1, <3>2, <3>5, <3>6, <3>7, <3>8, <3>9 DEF LastInv
  <2> QED
    BY <2>2, <2>3
<1> QED
  BY <1>16, <1>17, <1>18, <1>19, <1>20 DEF LzInv
-----------------------------------------------------------------------------
(* The start, and all steps together                                       *)

\* A fresh decoder stands before the first symbol, with nothing written.
LEMMA FreshFacts ==
  ASSUME stream \in Streams, NEW n \in Nat
  PROVE  /\ Fresh(n) \in Decoders /\ Core(Fresh(n), 0) /\ Checks(Fresh(n))
         /\ Fresh(n).remainLen = kMatchSpecLenStart + 2 /\ Fresh(n).tempBuf = <<>> /\ Fresh(n).sym = 0
         /\ Fresh(n).total = 0 /\ Fresh(n).dicPos = 0 /\ Fresh(n).dicBufSize = n
         /\ Fresh(n).checkDicSize = 0 /\ Fresh(n).processedPos = 0
         /\ ~Ref(0).bad /\ ~Ref(0).ended /\ Ref(0).out = <<>>
<1>1. PICK b : b = Fresh(n)
  OBVIOUS
<1>2. /\ b.remainLen = kMatchSpecLenStart + 2 /\ b.tempBuf = <<>> /\ b.sym = 0
      /\ b.total = 0 /\ b.dicPos = 0 /\ b.dicBufSize = n /\ b.checkDicSize = 0 /\ b.processedPos = 0
      /\ b.reps = <<1, 1, 1, 1>> /\ b.afterMatch = FALSE /\ b.dic = [k \in 0 .. n - 1 |-> 0]
  BY <1>1 DEF Fresh
<1>3. Ref(0) = RefStart
  BY RefSteps DEF Ref
<1>4. Ref(0).out = <<>> /\ Ref(0).reps = <<1, 1, 1, 1>> /\ ~Ref(0).bad /\ ~Ref(0).ended
  BY <1>3 DEF RefStart
<1>5. b.dic \in [0 .. n - 1 -> Nat] /\ b.dic \in AnyDic
  BY <1>2 DEF AnyDic
<1>6. b \in Decoders
  <2>1. <<>> \in Seq(Nat) /\ <<1, 1, 1, 1>> \in Seq(Nat) /\ kMatchSpecLenStart + 2 \in Nat
    BY DEF kMatchSpecLenStart
  <2> QED
    BY <2>1, <1>1, <1>2, <1>5 DEF Decoders, Fresh
<1>7. Data(b, <<>>, 0)
  <2>1. <<>> \in Seq(Nat) /\ Len(<<>>) = 0
    BY EmptySeq
  <2>2. Fits(b)
    BY <1>2 DEF Fits
  <2>3. Repeats(b, <<>>)
    BY <2>1, <1>2 DEF Repeats
  <2>4. Holds(b.dic, b.dicPos, b.dicBufSize, b.total, <<>>)
    BY <1>2, <1>5 DEF Holds
  <2> QED
    BY <2>1, <2>2, <2>3, <2>4, <1>2, <1>6 DEF Data
<1>8. Core(b, 0)
  <2>1. NumSyms \in Nat
    BY StreamFacts
  <2>2. \A k \in 1 .. 4 : b.reps[k] \in Nat \ {0}
    BY <1>2
  <2> QED
    BY <2>1, <2>2, <1>2, <1>4, <1>6, <1>7 DEF Core
<1>9. Checks(b)
  BY <1>2, ConstantFacts DEF Checks
<1> QED
  BY <1>1, <1>2, <1>4, <1>6, <1>8, <1>9

\* LzmaDecode: a decoder of its own, the dictionary is the caller's.
LEMMA LzmaDecodeStep ==
  ASSUME LzInv, NEW m \in InSizes, NEW n \in OutSizes, NEW finish \in {"any", "end"}, LzmaDecode(m, n, finish)
  PROVE  LzInv'
<1>1. /\ pc = "idle" /\ fed = 0 /\ m <= NumBytes /\ pc' = "dic" /\ d = Fresh(d.dicBufSize) /\ d' = Fresh(n)
      /\ stream' = stream /\ real' = real /\ fed' = fed /\ out' = out /\ last' = last
      /\ call' = [NoCall EXCEPT !.op = "one", !.in = Offered(m), !.given = m, !.outSize = n,
                                !.dicLimit = n, !.curFinish = finish]
  BY DEF LzmaDecode
<1>2. m \in Nat /\ n \in Nat
  BY DecoderCallsAssumption
<1>3. stream \in Streams /\ fed \in Nat /\ last \in LastTypes /\ out \in Seq(Nat) /\ real \in RealTypes /\ d \in Decoders
  BY TypeFacts
<1>4. PICK in : in = Offered(m)
  OBVIOUS
<1>5. in \in Seq(Nat) /\ Len(in) = m /\ Consecutive(in, 0)
  <2>1. in = [k \in 1 .. m |-> k]
    BY <1>1, <1>2, <1>4 DEF Offered
  <2>2. in \in [1 .. m -> Nat]
    BY <2>1, <1>2
  <2>3. in \in Seq(Nat) /\ Len(in) = m
    BY <2>2, <1>2, NatFunction
  <2> QED
    BY <2>1, <2>3, <1>2 DEF Consecutive
<1>6. /\ call' \in CallTypes /\ call'.op = "one" /\ call'.in = in /\ call'.given = m /\ call'.outSize = n
      /\ call'.dicLimit = n /\ call'.from = 0
  BY <1>1, <1>2, <1>4, <1>5 DEF CallTypes, NoCall, Results, Statuses
<1>7. /\ d' \in Decoders /\ Core(d', 0) /\ Checks(d')
      /\ d'.remainLen = kMatchSpecLenStart + 2 /\ d'.tempBuf = <<>> /\ d'.sym = 0
      /\ d'.total = 0 /\ d'.dicPos = 0 /\ d'.dicBufSize = n /\ d'.checkDicSize = 0 /\ d'.processedPos = 0
      /\ ~Ref(0).bad /\ ~Ref(0).ended /\ Ref(0).out = <<>>
  BY <1>1, <1>2, <1>3, FreshFacts
<1>8. out = <<>>
  <2>1. PICK size \in Nat : size = d.dicBufSize
    BY <1>3, DecoderFields
  <2>2. Fresh(size).total = 0
    BY <1>3, FreshFacts
  <2>3. d.total = 0
    BY <2>1, <2>2, <1>1
  <2>4. d.total = Len(out) + 0
    BY <1>1 DEF LzInv, OutInv, InDic
  <2>5. Len(out) \in Nat
    BY <1>3, NatSeq
  <2>6. Len(out) = 0
    BY <2>3, <2>4, <2>5
  <2> QED
    BY <2>6, <1>3, EmptySeq
<1>9. InDic' /\ ~InReal' /\ NotStarted' /\ Level' = kMatchSpecLenStart + 2 /\ Ref(d.sym)' = Ref(0)
  <2>1. Ref(d.sym)' = Ref(d'.sym)
    BY <1>1, SameStream
  <2> QED
    BY <2>1, <1>1, <1>7 DEF InDic, InReal, NotStarted, Level
<1>10. TypesInv'
  BY <1>1, <1>3, <1>6, <1>7 DEF TypesInv
<1>11. CoreInv'
  <2>1. 0 = Owed(IF pc' \in {"real", "after"} THEN real'.len ELSE d'.remainLen)
    BY <1>1, <1>7 DEF Owed, kMatchSpecLenStart
  <2> QED
    BY <2>1, <1>1, <1>7, CoreNext
<1>12. WideInv'
  BY <1>6, <1>9 DEF WideInv
<1>13. CheckInv'
  BY <1>7 DEF CheckInv, Checks
<1>14. OutInv'
  <2>1. out' = <<>> /\ Len(<<>>) = 0
    BY <1>1, <1>8, EmptySeq
  <2> QED
    BY <2>1, <1>6, <1>7, <1>9 DEF OutInv
<1>15. LevelInv'
  BY <1>1, <1>7, <1>9 DEF LevelInv, kMatchSpecLenStart, kMatchSpecLen_ErrorData
<1>16. InputInv'
  <2>1. PICK p \in Nat : p = 0
    OBVIOUS
  <2>2. /\ p = Len(<<>>) /\ Consecutive(<<>>, p - p) /\ p <= Required /\ p <= RcInit /\ Consecutive(in, p)
        /\ p + m = fed' + m /\ p + m <= NumBytes
    BY <2>1, <1>1, <1>2, <1>5, ConstantFacts, NoneConsecutive
  <2>3. m = Len(in) /\ fed' \in Nat
    BY <1>1, <1>3, <1>5
  <2>4. HandNext(p, m, p)
    BY <2>2, <2>3, <1>2, <1>6, <1>7, EmptySeq DEF HandNext
  <2> QED
    BY <2>4, <1>1, <1>2, InputNext
<1>17. LoopInv'
  BY <1>1, LoopElsewhere
<1>18. CallInv'
  <2>1. d'.dicPos <= call'.dicLimit /\ call'.dicLimit <= d'.dicBufSize /\ call'.dicLimit - call'.from = call'.outSize
        /\ call'.outSize <= call'.outSize
    BY <1>2, <1>6, <1>7
  <2>2. fed' = 0 /\ out' = <<>>
    BY <1>1, <1>8
  <2> QED
    BY <2>1, <2>2, <1>1, <1>6 DEF CallInv
<1>19. ReturnInv'
  BY <1>1, NotReturned
<1>20. LastInv'
  BY <1>1 DEF LzInv, LastInv
<1> QED
  BY <1>10, <1>11, <1>12, <1>13, <1>14, <1>15, <1>16, <1>17, <1>18, <1>19, <1>20 DEF LzInv

\* LzmaDec_Init, before any call.
LEMMA InitHolds ==
  ASSUME LzmaDecInit
  PROVE  LzInv
<1>1. PICK size \in BufSizes : d = Fresh(size)
  BY DEF LzmaDecInit, LzmaDecStart
<1>2. /\ stream \in Streams /\ pc = "idle" /\ call = NoCall /\ real = NoReal /\ fed = 0 /\ out = <<>>
      /\ last = [res |-> "ok", status |-> "none", given |-> 0, taken |-> 0, left |-> 0]
  BY DEF LzmaDecInit, LzmaDecStart
<1>3. size \in Nat /\ size >= DicSize
  BY LzmaDecAssumption
<1>4. /\ d \in Decoders /\ Core(d, 0) /\ Checks(d)
      /\ d.remainLen = kMatchSpecLenStart + 2 /\ d.tempBuf = <<>> /\ d.sym = 0
      /\ d.total = 0 /\ d.dicPos = 0 /\ d.dicBufSize = size /\ d.checkDicSize = 0 /\ d.processedPos = 0
      /\ ~Ref(0).bad /\ ~Ref(0).ended /\ Ref(0).out = <<>>
  BY <1>1, <1>2, <1>3, FreshFacts
<1>5. ~InDic /\ ~InReal /\ NotStarted /\ Level = kMatchSpecLenStart + 2 /\ Ref(d.sym) = Ref(0)
  BY <1>2, <1>4 DEF InDic, InReal, NotStarted, Level
<1>6. <<>> \in Seq(Nat) /\ Len(<<>>) = 0 /\ Consecutive(<<>>, 0)
  BY NoneConsecutive
<1>7. TypesInv
  <2>1. call \in CallTypes /\ real \in RealTypes /\ last \in LastTypes
    BY <1>2, <1>6 DEF CallTypes, RealTypes, LastTypes, NoCall, NoReal, Results, Statuses
  <2> QED
    BY <2>1, <1>2, <1>4, <1>6 DEF TypesInv
<1>8. CoreInv
  <2>1. Owed(Level) = 0
    BY <1>5 DEF Owed, kMatchSpecLenStart
  <2> QED
    BY <2>1, <1>4 DEF CoreInv
<1>9. WideInv /\ CheckInv
  BY <1>3, <1>4 DEF WideInv, CheckInv
<1>10. OutInv
  BY <1>2, <1>4, <1>5, <1>6 DEF OutInv
<1>11. LevelInv
  BY <1>2, <1>4, <1>5 DEF LevelInv, kMatchSpecLenStart, kMatchSpecLen_ErrorData
<1>12. InputInv
  <2>1. NumBytes \in Nat
    <3>1. NumSyms \in Nat
      BY <1>2, StreamFacts
    <3> QED
      BY <3>1, <1>2, StartFacts
  <2>2. call.in = <<>> /\ call.given = 0
    BY <1>2 DEF NoCall
  <2>3. Position = 0 /\ Len(call.in) = 0 /\ Len(d.tempBuf) = 0
    <3>1. Len(call.in) = 0 /\ Len(d.tempBuf) = 0
      BY <2>2, <1>4, <1>6
    <3>2. fed = 0 /\ call.given = 0
      BY <2>2, <1>2
    <3>3. fed + call.given - Len(call.in) = 0
      BY <3>1, <3>2
    <3> QED
      BY <3>1, <3>3 DEF Position
  <2> QED
    BY <2>1, <2>2, <2>3, <1>2, <1>4, <1>5, <1>6, ConstantFacts DEF InputInv
<1>13. LoopInv
  BY <1>2 DEF LoopInv, InReal, NoReal
<1>14. CallInv
  BY <1>2, <1>5 DEF CallInv
<1>15. ReturnInv /\ LastInv
  BY <1>2 DEF ReturnInv, LastInv
<1> QED
  BY <1>7, <1>8, <1>9, <1>10, <1>11, <1>12, <1>13, <1>14, <1>15 DEF LzInv

\* A step in which nothing changes.
LEMMA StutterStep ==
  ASSUME LzInv, UNCHANGED lzmaDecVars
  PROVE  LzInv'
<1>1. /\ stream' = stream /\ d' = d /\ pc' = pc /\ call' = call /\ real' = real /\ fed' = fed
      /\ out' = out /\ last' = last
  BY DEF lzmaDecVars
<1>2. Ref(d.sym)' = Ref(d.sym) /\ NumSyms' = NumSyms /\ NumBytes' = NumBytes /\ Start(d.sym)' = Start(d.sym)
      /\ CodeIsZero' = CodeIsZero /\ Symbol' = Symbol
  BY <1>1, SameStream DEF Symbol, CodeIsZero
<1>3. /\ InDic' = InDic /\ InReal' = InReal /\ Level' = Level /\ NotStarted' = NotStarted
      /\ Position' = Position /\ Joined' = Joined /\ BadFirst' = BadFirst
  BY <1>1, <1>2 DEF InDic, InReal, Level, NotStarted, Position, Joined, Ahead, BadFirst
<1>4. Buffer' = Buffer
  BY <1>1, <1>3 DEF Buffer
<1>5. TypesInv' /\ WideInv' /\ CheckInv' /\ OutInv' /\ LevelInv'
  BY <1>1, <1>2, <1>3 DEF LzInv, TypesInv, WideInv, CheckInv, Checks, LateChecks, OutInv, LevelInv
<1>6. CoreInv'
  <2>1. Core(d', Owed(Level))
    BY <1>1, CoreNow
  <2>2. Owed(Level) = Owed(IF pc' \in {"real", "after"} THEN real'.len ELSE d'.remainLen)
    BY <1>1 DEF Level, InReal
  <2> QED
    BY <2>1, <2>2, <1>1, CoreNext
<1>7. InputInv'
  BY <1>1, <1>2, <1>3 DEF LzInv, InputInv, Consecutive
<1>8. LoopInv'
  BY <1>1, <1>2, <1>3, <1>4 DEF LzInv, LoopInv
<1>9. CallInv' /\ ReturnInv' /\ LastInv'
  BY <1>1, <1>2, <1>3 DEF LzInv, CallInv, ReturnInv, LastInv, CauseOf
<1> QED
  BY <1>5, <1>6, <1>7, <1>8, <1>9 DEF LzInv

\* Every step keeps the invariant.
LEMMA NextHolds ==
  ASSUME LzInv, [LzmaDecNext]_lzmaDecVars
  PROVE  LzInv'
<1>1. CASE UNCHANGED lzmaDecVars
  BY <1>1, StutterStep
<1>2. ASSUME NEW m \in InSizes, NEW n \in OutSizes, NEW finish \in {"any", "end"}, DecodeToBuf(m, n, finish)
      PROVE  LzInv'
  BY <1>2, DecodeToBufStep
<1>3. ASSUME NEW m \in InSizes, NEW n \in OutSizes, NEW finish \in {"any", "end"}, LzmaDecode(m, n, finish)
      PROVE  LzInv'
  BY <1>3, LzmaDecodeStep
<1>4. CASE BufRound
  BY <1>4, BufRoundStep
<1>5. CASE DicReturned
  BY <1>5, DicReturnedStep
<1>6. CASE StartRc
  BY <1>6, StartRcStep
<1>7. CASE NoStart
  BY <1>7, NoStartStep
<1>8. CASE EndMark
  BY <1>8, EndMarkStep
<1>9. CASE LimitReached
  BY <1>9, LimitReachedStep
<1>10. CASE FromInput
  BY <1>10, FromInputStep
<1>11. CASE FromTemp
  BY <1>11, FromTempStep
<1>12. CASE Literal
  BY <1>12, LiteralStep
<1>13. CASE Match
  BY <1>13, MatchStep
<1>14. CASE Rep
  BY <1>14, RepStep
<1>15. CASE ShortRep
  BY <1>15, ShortRepStep
<1>16. CASE EndMarker
  BY <1>16, EndMarkerStep
<1>17. CASE RealReturned
  BY <1>17, RealReturnedStep
<1> QED
  BY <1>1, <1>2, <1>3, <1>4, <1>5, <1>6, <1>7, <1>8, <1>9, <1>10, <1>11, <1>12, <1>13, <1>14, <1>15, <1>16, <1>17
     DEF LzmaDecNext, LzmaDecStep, Done
-----------------------------------------------------------------------------
(* What the invariant says to the caller                                   *)

\* After the end mark, and where the stream is bad, no symbol counts any more.
LEMMA NoSymbolCounts ==
  ASSUME stream \in Streams, NEW m \in Nat, m <= NumSyms, Ref(m).bad \/ Ref(m).ended
  PROVE  Whole = Ref(m)
<1>1. NumSyms \in Nat
  BY StreamFacts
<1> DEFINE T == {k \in Nat : m + k <= NumSyms => Ref(m + k) = Ref(m)}
<1>2. 0 \in T
  OBVIOUS
<1>3. ASSUME NEW k \in Nat, k \in T PROVE k + 1 \in T
  <2>1. SUFFICES ASSUME m + (k + 1) <= NumSyms PROVE Ref(m + (k + 1)) = Ref(m)
    OBVIOUS
  <2>2. PICK j \in Nat : j = m + k
    OBVIOUS
  <2>3. j < NumSyms /\ j + 1 = m + (k + 1) /\ Ref(j) = Ref(m)
    BY <1>1, <1>3, <2>1, <2>2
  <2>4. Ref(j + 1) = RefStep(Ref(j), stream.syms[j + 1])
    BY <2>3, <1>1, RefFacts
  <2>5. RefStep(Ref(j), stream.syms[j + 1]) = Ref(j)
    BY <2>3 DEF RefStep
  <2> QED
    BY <2>3, <2>4, <2>5
<1> HIDE DEF T
<1>4. \A k \in Nat : k \in T
  BY <1>2, <1>3, EveryNumber
<1>5. PICK k \in Nat : k = NumSyms - m
  BY <1>1
<1>6. m + k <= NumSyms /\ m + k = NumSyms
  BY <1>1, <1>5
<1>7. Ref(m + k) = Ref(m)
  BY <1>4, <1>6 DEF T
<1> QED
  BY <1>6, <1>7 DEF Whole

\* Between two calls: numbers for the output, the input and what is owed.
LEMMA RestFactsOfCalls ==
  ASSUME LzInv, AtRest
  PROVE  \E whole \in Seq(Nat), l \in Nat, owed \in Nat, w \in Nat :
           /\ whole = Ref(d.sym).out /\ l = Len(out) /\ owed = Pending /\ w = Len(d.tempBuf)
           /\ Len(whole) = l + owed /\ \A k \in 1 .. l : out[k] = whole[k]
           /\ Started <=> ~NotStarted
           /\ NotStarted => fed = w
           /\ ~NotStarted => fed = Start(d.sym) + w
           /\ d.remainLen = kMatchSpecLenStart => fed = Start(d.sym) /\ owed = 0
<1>1. d \in Decoders /\ stream \in Streams /\ fed \in Nat /\ out \in Seq(Nat)
  BY TypeFacts
<1>2. pc \in {"idle", "over"} /\ ~InReal /\ ~InDic /\ Level = d.remainLen /\ d.remainLen \in Nat
  BY <1>1, DecoderFields DEF AtRest, InReal, InDic, Level
<1>3. PICK owed \in Nat : owed = Owed(d.remainLen)
  BY <1>2 DEF Owed
<1>4. PICK whole : whole = Ref(d.sym).out
  OBVIOUS
<1>5. whole \in Seq(Nat) /\ Len(whole) = d.total + owed /\ d.total \in Nat
  <2>1. Core(d, owed)
    BY <1>2, <1>3, CoreNow
  <2> QED
    BY <2>1, <1>1, <1>4, CoreFacts
<1>6. PICK l \in Nat : l = Len(out)
  BY <1>1, NatSeq
<1>7. d.total = l /\ \A k \in 1 .. l : out[k] = whole[k]
  <2>1. d.total = l + 0 /\ \A k \in 1 .. l : out[k] = whole[k]
    BY <1>2, <1>4, <1>6 DEF LzInv, OutInv
  <2> QED
    BY <2>1
<1>8. owed = Pending
  BY <1>3 DEF Owed, Pending
<1>9. Started <=> ~NotStarted
  <2>1. d.remainLen # kMatchSpecLenStart + 1
    <3>1. d.remainLen \in 0 .. kMatchSpecLenStart \cup {kMatchSpecLenStart + 2, kMatchSpecLen_ErrorData}
      BY DEF LzInv, LevelInv
    <3> QED
      BY <3>1 DEF kMatchSpecLenStart, kMatchSpecLen_ErrorData
  <2> QED
    BY <2>1 DEF Started, NotStarted
<1>10. PICK p \in Nat, i \in Nat, w \in Nat : Hand(p, i, w)
  BY HandFacts
<1>11. p = fed /\ w = Len(d.tempBuf) /\ (NotStarted => p = w) /\ (~NotStarted => (p - w) + 0 = Start(d.sym))
  <2>1. call = NoCall
    BY <1>2 DEF LzInv, CallInv
  <2>2. i = 0 /\ call.given = 0
    BY <2>1, <1>10, EmptySeq DEF Hand, NoCall
  <2>3. p + i = fed + call.given /\ w = Len(d.tempBuf) /\ (NotStarted => p = w) /\ (~NotStarted => (p - w) + 0 = Start(d.sym))
    BY <1>2, <1>10 DEF Hand
  <2> QED
    BY <2>2, <2>3, <1>1
<1>12. Start(d.sym) \in Nat
  BY SymbolNow
<1>13. NotStarted => fed = w
  BY <1>11
<1>14. ~NotStarted => fed = Start(d.sym) + w
  BY <1>1, <1>11, <1>12
<1>15. d.remainLen = kMatchSpecLenStart => fed = Start(d.sym) /\ owed = 0
  <2>1. SUFFICES ASSUME d.remainLen = kMatchSpecLenStart PROVE fed = Start(d.sym) /\ owed = 0
    OBVIOUS
  <2>2. ~NotStarted /\ owed = 0
    BY <2>1, <1>3 DEF NotStarted, Owed, kMatchSpecLenStart
  <2>3. ~(w > 0)
    BY <2>1, <2>2, <1>2, <1>10 DEF Hand
  <2> QED
    BY <2>2, <2>3, <1>12, <1>14
<1> QED
  BY <1>5, <1>6, <1>7, <1>8, <1>9, <1>11, <1>13, <1>14, <1>15, <1>4

\* The five parts of LzmaDecodes.
LEMMA TypeOKHolds ==
  ASSUME LzInv
  PROVE  LzmaDecTypeOK
<1>1. d \in Decoders /\ stream \in Streams /\ fed \in Nat /\ call \in CallTypes
  BY TypeFacts
<1>2. d.remainLen \in 0 .. kMatchSpecLen_ErrorData
  <2>1. d.remainLen \in 0 .. kMatchSpecLenStart \cup {kMatchSpecLenStart + 2, kMatchSpecLen_ErrorData}
    BY DEF LzInv, LevelInv
  <2> QED
    BY <2>1 DEF kMatchSpecLenStart, kMatchSpecLen_ErrorData
<1>3. Len(d.tempBuf) <= Required
  BY DEF LzInv, InputInv
<1>4. PICK total \in Nat, processed \in Nat : total = d.total /\ processed = d.processedPos
  BY <1>1, DecoderFields
<1>5. d.processedPos \in 0 .. W - 1 /\ d.checkDicSize \in {0, DicSize}
  <2>1. W \in Nat /\ W > DicSize /\ DicSize \in Nat
    BY ConstantFacts
  <2>2. total % W \in Nat /\ total % W < W
    BY Wraps
  <2>3. \/ total < DicSize /\ processed = total /\ d.checkDicSize = 0
        \/ processed = total % W /\ d.checkDicSize \in {0, DicSize}
    BY <1>4, <2>1 DEF LzInv, CheckInv, Checks, LateChecks
  <2>4. processed < W
    BY <2>1, <2>2, <2>3
  <2> QED
    BY <2>1, <2>3, <2>4, <1>4
<1>6. PICK owed \in Nat : owed = Owed(Level)
  <2>1. Level \in Nat
    BY <1>1, TypeFacts, DecoderFields, RealFields DEF Level
  <2> QED
    BY <2>1 DEF Owed
<1>7. Core(d, owed)
  BY <1>6, CoreNow
<1>8. /\ d.sym \in 0 .. NumSyms /\ d.dicPos \in 0 .. d.dicBufSize /\ Data(d, Ref(d.sym).out, owed)
  BY <1>1, <1>7, CoreFacts
<1>9. DOMAIN d.dic = 0 .. d.dicBufSize - 1
  BY <1>8 DEF Data, Holds
<1>10. \A k \in 1 .. 4 : d.reps[k] \in Nat \ {0}
  BY <1>7 DEF Core
<1>11. fed \in 0 .. NumBytes
  <2>1. fed + call.given <= NumBytes
    BY DEF LzInv, InputInv
  <2>2. NumBytes \in Nat
    <3>1. NumSyms \in Nat
      BY <1>1, StreamFacts
    <3> QED
      BY <3>1, <1>1, StartFacts
  <2>3. call.given \in Nat
    BY <1>1, CallFields
  <2> QED
    BY <2>1, <2>2, <2>3, <1>1
<1> QED
  BY <1>1, <1>2, <1>3, <1>5, <1>8, <1>9, <1>10, <1>11, TypeFacts DEF LzmaDecTypeOK

\* What was handed out is the reference output, and remainLen says what is missing.
LEMMA OutputHolds ==
  ASSUME LzInv
  PROVE  OutputIsReference
<1>1. SUFFICES ASSUME AtRest
               PROVE  /\ out = SubSeq(Ref(d.sym).out, 1, Len(out))
                      /\ Len(Ref(d.sym).out) = Len(out) + Pending
  BY DEF OutputIsReference
<1>2. PICK whole \in Seq(Nat), l \in Nat, owed \in Nat, w \in Nat :
        /\ whole = Ref(d.sym).out /\ l = Len(out) /\ owed = Pending
        /\ Len(whole) = l + owed /\ \A k \in 1 .. l : out[k] = whole[k]
  BY <1>1, RestFactsOfCalls
<1>3. PICK part : part = SubSeq(whole, 1, l)
  OBVIOUS
<1>4. part \in Seq(Nat) /\ Len(part) = l /\ \A k \in 1 .. l : part[k] = whole[k]
  <2>1. PICK one \in Nat : one = 1
    OBVIOUS
  <2>2. /\ SubSeq(whole, one, l) \in Seq(Nat) /\ Len(SubSeq(whole, one, l)) = l + 1 - one
        /\ \A k \in 1 .. l + 1 - one : SubSeq(whole, one, l)[k] = whole[one - 1 + k]
    <3>1. 1 <= one /\ one <= l + 1 /\ l <= Len(whole)
      BY <2>1, <1>2
    <3> QED
      BY <3>1, NatPart
  <2>3. \A k \in 1 .. l : k \in 1 .. l + 1 - one /\ one - 1 + k = k
    BY <2>1
  <2> QED
    BY <2>1, <2>2, <2>3, <1>3
<1>5. out \in Seq(Nat)
  BY TypeFacts
<1>6. out = part
  BY <1>2, <1>4, <1>5, SeqEqual
<1> QED
  BY <1>2, <1>3, <1>6

\* A stream is refused where it is bad, and for the other reasons of an error only.
LEMMA RefusedHolds ==
  ASSUME LzInv
  PROVE  RefusedWhereBad
<1>1. SUFFICES ASSUME AtRest
               PROVE  /\ d.remainLen = kMatchSpecLen_ErrorData <=> Ref(d.sym).bad
                      /\ last.res = "data" => \/ Ref(d.sym).bad \/ ~stream.lead
                                              \/ ~Started /\ BadFirst
                                              \/ Ref(d.sym).ended /\ ~CodeIsZero
                                              \/ last.status = "not_finished"
  BY DEF RefusedWhereBad
<1>2. pc \in {"idle", "over"} /\ Level = d.remainLen
  BY <1>1 DEF AtRest, Level, InReal
<1>3. d.remainLen = kMatchSpecLen_ErrorData <=> Ref(d.sym).bad
  <2>1. d.remainLen \in 0 .. kMatchSpecLenStart \cup {kMatchSpecLenStart + 2, kMatchSpecLen_ErrorData}
        /\ (Ref(d.sym).bad <=> d.remainLen >= kMatchSpecLen_ErrorData)
    BY <1>2 DEF LzInv, LevelInv
  <2> QED
    BY <2>1 DEF kMatchSpecLenStart, kMatchSpecLen_ErrorData
<1>4. last.res = "data" => CauseOf(last.status)
  BY <1>2 DEF LzInv, LastInv
<1>5. Started <=> ~NotStarted
  BY <1>1, RestFactsOfCalls
<1> QED
  BY <1>3, <1>4, <1>5 DEF CauseOf

\* The statuses are true.
LEMMA StatusHolds ==
  ASSUME LzInv
  PROVE  StatusIsTrue
<1>1. SUFFICES ASSUME AtRest
               PROVE  /\ last.status = "needs_input" => last.taken = last.given
                      /\ last.res = "ok" /\ last.status \in {"not_finished", "maybe_finished"} => last.left = 0
                      /\ last.status = "finished_with_mark" =>
                           Ref(d.sym).ended /\ out = Whole.out /\ fed = Start(d.sym)
  BY DEF StatusIsTrue
<1>2. pc \in {"idle", "over"} /\ Level = d.remainLen
  BY <1>1 DEF AtRest, Level, InReal
<1>3. /\ last.status = "needs_input" => last.taken = last.given
      /\ last.res = "ok" /\ last.status \in {"not_finished", "maybe_finished"} => last.left = 0
      /\ last.status = "finished_with_mark" => Ref(d.sym).ended
  BY <1>2 DEF LzInv, LastInv
<1>4. ASSUME Ref(d.sym).ended PROVE out = Whole.out /\ fed = Start(d.sym)
  <2>1. d.remainLen = kMatchSpecLenStart
    BY <1>2, <1>4 DEF LzInv, LevelInv
  <2>2. PICK whole \in Seq(Nat), l \in Nat, owed \in Nat, w \in Nat :
          /\ whole = Ref(d.sym).out /\ l = Len(out)
          /\ Len(whole) = l + owed /\ \A k \in 1 .. l : out[k] = whole[k]
          /\ fed = Start(d.sym) /\ owed = 0
    BY <2>1, <1>1, RestFactsOfCalls
  <2>3. out = whole
    <3>1. out \in Seq(Nat) /\ Len(out) = Len(whole)
      BY <2>2, TypeFacts
    <3> QED
      BY <2>2, <3>1, SeqEqual
  <2>4. Whole = Ref(d.sym)
    <3>1. PICK m \in Nat : m = d.sym
      BY SymbolNow
    <3>2. stream \in Streams /\ m <= NumSyms
      BY <3>1, TypeFacts, SymbolNow
    <3>3. Ref(m).bad \/ Ref(m).ended
      BY <3>1, <1>4
    <3>4. Whole = Ref(m)
      BY <3>2, <3>3, NoSymbolCounts
    <3> QED
      BY <3>1, <3>4
  <2> QED
    BY <2>2, <2>3, <2>4
<1> QED
  BY <1>3, <1>4

\* Every byte of input is used once, and the internal checks never fail.
LEMMA InputUsedHolds ==
  ASSUME LzInv
  PROVE  LzmaInputUsedOnce
<1>1. InputAccounted
  <2>1. SUFFICES ASSUME AtRest PROVE fed = (IF Started THEN Start(d.sym) ELSE 0) + Len(d.tempBuf)
    BY DEF InputAccounted
  <2>2. PICK w \in Nat : /\ w = Len(d.tempBuf) /\ (Started <=> ~NotStarted)
                         /\ NotStarted => fed = w
                         /\ ~NotStarted => fed = Start(d.sym) + w
    BY <2>1, RestFactsOfCalls
  <2>3. CASE Started
    BY <2>2, <2>3
  <2>4. CASE ~Started
    BY <2>2, <2>4
  <2> QED
    BY <2>3, <2>4
<1>2. RangeCoderInStep
  BY DEF LzInv, LoopInv, RangeCoderInStep
<1>3. CheckDicSizeInStep
  <2>1. SUFFICES ASSUME pc # "after"
                 PROVE  IF d.total < DicSize THEN d.checkDicSize = 0 /\ d.processedPos = d.total
                        ELSE d.checkDicSize = DicSize /\ d.processedPos = d.total % W
    BY DEF CheckDicSizeInStep
  <2>2. Checks(d)
    BY <2>1, CoreNow
  <2>3. d.total \in Nat /\ DicSize \in Nat
    BY TypeFacts, DecoderFields, ConstantFacts
  <2> QED
    BY <2>2, <2>3 DEF Checks
<1>4. NeverFails
  <2>1. d.remainLen \in 0 .. kMatchSpecLenStart \cup {kMatchSpecLenStart + 2, kMatchSpecLen_ErrorData}
    BY DEF LzInv, LevelInv
  <2>2. last.res # "fail"
    BY DEF LzInv, LastInv
  <2> QED
    BY <2>1, <2>2 DEF NeverFails, kMatchSpecLenStart, kMatchSpecLen_ErrorFail, kMatchSpecLen_ErrorData
<1> QED
  BY <1>1, <1>2, <1>3, <1>4 DEF LzmaInputUsedOnce

\* However input and output are cut into calls and wherever the dictionary wraps, the decoder
\* hands out the bytes that the stream stands for, refuses it exactly where it is bad, takes
\* every byte of the input once, and its statuses are true (LzmaDec_DecodeToDic, _DecodeToBuf).
THEOREM LzmaDecIsCorrect == LzmaDecSpec => []LzmaDecodes
<1>1. LzmaDecInit => LzInv
  BY InitHolds
<1>2. LzInv /\ [LzmaDecNext]_lzmaDecVars => LzInv'
  BY NextHolds
<1>3. LzInv => LzmaDecodes
  BY TypeOKHolds, OutputHolds, RefusedHolds, StatusHolds, InputUsedHolds DEF LzmaDecodes
<1> QED
  BY <1>1, <1>2, <1>3, PTL DEF LzmaDecSpec
=============================================================================
