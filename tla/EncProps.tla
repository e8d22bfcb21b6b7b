------------------------------ MODULE EncProps ------------------------------
(***************************************************************************)
(* The properties of the encoders (CLzmaEncProps, CLzma2EncProps and       *)
(* CXzProps): what Normalize makes of those that are not set, how many     *)
(* threads and blocks come of it, and the dictionary size that is written  *)
(* for the decoder.  -1 is "not set", as in the code; sizes are divided by *)
(* 2^Shift, for TLC has only 31 bits, and so is the width of UInt32.       *)
(***************************************************************************)
EXTENDS Integers, FiniteSetsExt

CONSTANTS
  Shift, ThreadsMax,   \* ThreadsMax: MTCODER_THREADS_MAX
  Lzma2Given, XzGiven  \* the properties that callers set

ASSUME EncPropsAssumption ==
  /\ Shift \in 0 .. 8 /\ ThreadsMax \in Nat \ {0}
  /\ \A g \in Lzma2Given \cup {x.l2 : x \in XzGiven} :
       g.lz.dict \in Nat /\ g.lz.reduce \in Nat /\ g.block \in Nat /\ g.lz.threads \in {-1, 1, 2}

VARIABLES
  given,   \* the properties of the call
  enc,     \* the properties that XzEnc_SetProps or Lzma2Enc_SetProps keeps
  lzmaEnc    \* the LZMA encoder that is set up from them: [dict, lc, lp, pb, written]

propsVars == <<given, enc, lzmaEnc>>

Pow2(n) == 2 ^ (n - Shift)
Unset   == 2 ^ 30          \* (UInt64)(Int64)-1: the size is not known, a solid block
SolidBlock   == Unset
Auto    == 0
Two32   == Pow2(32)
-----------------------------------------------------------------------------
(* LZMA.                                                                   *)

\* No more dictionary than data.
Reduced(dict, reduce) == IF dict > reduce THEN Min({dict, Max({reduce, Pow2(12)})}) ELSE dict

LevelOf(p) == IF p.level < 0 THEN 5 ELSE p.level

\* LzmaEncProps_Normalize (where size_t has 8 bytes).
LzmaNormalize(p) ==
  LET level == LevelOf(p)
      dict  == IF p.dict # 0 THEN p.dict
               ELSE IF level <= 4 THEN Pow2(level * 2 + 16) ELSE IF level <= 8 THEN Pow2(level + 20) ELSE Pow2(28)
      algo  == IF p.algo >= 0 THEN p.algo ELSE IF level < 5 THEN 0 ELSE 1
  IN  [p EXCEPT !.level = level, !.dict = Reduced(dict, p.reduce), !.algo = algo,
                !.lc = IF @ < 0 THEN 3 ELSE @, !.lp = IF @ < 0 THEN 0 ELSE @, !.pb = IF @ < 0 THEN 2 ELSE @,
                !.threads = IF @ >= 0 THEN @ ELSE IF algo # 0 THEN 2 ELSE 1]

\* LzmaEnc_WriteProperties: the next multiple of 1 MiB, or the next 2^k or 3 * 2^k.
WrittenDict(dict) ==
  IF dict >= Pow2(21)
  THEN LET v == (((dict + Pow2(20) - 1) \div Pow2(20)) * Pow2(20)) % Two32 IN IF v < dict THEN dict ELSE v
  ELSE Min({v \in {(2 + (i % 2)) * Pow2(i \div 2) : i \in 22 .. 41} : v >= dict})

PropByte(p) == (p.pb * 5 + p.lp) * 9 + p.lc

\* LzmaProps_Decode
PropsOfByte(b) == [lc |-> b % 9, lp |-> (b \div 9) % 5, pb |-> b \div 45]

\* LzmaEnc_SetProps (kLzmaMaxHistorySize).
LzmaKept(n, dict) ==
  [dict |-> dict, lc |-> n.lc, lp |-> n.lp, pb |-> n.pb, written |-> WrittenDict(dict), byte |-> PropByte(n)]

LzmaSet(p) ==
  LET With(n) == LzmaKept(n, Min({n.dict, 15 * Pow2(28)})) IN With(LzmaNormalize(p))
-----------------------------------------------------------------------------
(* LZMA2.                                                                  *)

Blocks(file, size) == (file + size - 1) \div size

\* What t1 threads in each of t2 blocks and t3 threads in all come to, where a
\* block needs t1n if nothing is said: <<t1, t2, t3>> (in both Normalizes).
Shared(t1, t1n, t2given, t3) ==
  LET t2 == Min({t2given, ThreadsMax}) IN
  IF t3 <= 0 THEN <<t1, Max({t2, 1}), t1n * Max({t2, 1})>>
  ELSE IF t2 <= 0 THEN (IF t3 \div t1n = 0 THEN <<1, Min({t3, ThreadsMax}), t3>> ELSE <<t1, Min({t3 \div t1n, ThreadsMax}), t3>>)
  ELSE IF t1 <= 0 THEN <<Max({t3 \div t2, 1}), t2, t3>>
  ELSE <<t1, t2, t1n * t2>>

\* No more threads than blocks: <<numBlockThreads_Reduced, numTotalThreads>>.
Fewer(t1, t2, t3, file, size) ==
  IF t2 > 1 /\ file # Unset /\ Blocks(file, size) < t2
  THEN LET r == Max({Blocks(file, size), 1}) IN <<r, t1 * r>>
  ELSE <<t2, t3>>

\* Four dictionaries, at least 1 MiB, at most 256 MiB or the dictionary.
AutoBlock(dict) ==
  LET s == Max({Min({Max({4 * dict, Pow2(20)}), Pow2(28)}), dict}) IN Blocks(s, Pow2(20)) * Pow2(20)

\* With the threads t and the LZMA properties lz known.
Lzma2Threads(p, t, lz) ==
  LET size == IF p.block # Auto THEN p.block ELSE IF t[2] <= 1 THEN SolidBlock ELSE AutoBlock(lz.dict)
      f    == IF size = SolidBlock THEN <<1, t[3]>> ELSE Fewer(lz.threads, t[2], t[3], p.lz.reduce, size)
  IN IF p.block = SolidBlock
     THEN [p EXCEPT !.lz = lz, !.blockThreads = 1, !.reduced = 1, !.total = lz.threads]
     ELSE [p EXCEPT !.lz = lz, !.block = size, !.blockThreads = t[2],
                    !.reduced = IF size = SolidBlock THEN t[2] ELSE f[1], !.total = f[2]]

\* The LZMA encoder gets a block at a time.
LzmaOfBlock(p, threads) ==
  LET cut == p.block \notin {SolidBlock, Auto} /\ (p.block < p.lz.reduce \/ p.lz.reduce = Unset)
  IN LzmaNormalize([p.lz EXCEPT !.threads = threads, !.reduce = IF cut THEN p.block ELSE @])

SharedThreads(p) == Shared(p.lz.threads, LzmaNormalize(p.lz).threads, p.blockThreads, p.total)

\* Mutant: the size of the data is not put back.
Lzma2Normalize_Cut(p) ==
  LET With(t) == Lzma2Threads(p, t, LzmaOfBlock(p, t[1])) IN With(SharedThreads(p))

\* Lzma2EncProps_Normalize
Lzma2Normalize(p) ==
  LET With(t) == Lzma2Threads(p, t, [LzmaOfBlock(p, t[1]) EXCEPT !.reduce = p.lz.reduce]) IN With(SharedThreads(p))

\* LZMA2_DIC_SIZE_FROM_PROP and Lzma2Enc_WriteProperties.
DictOfProp(i)   == IF i = 40 THEN Two32 - 1 ELSE (2 + (i % 2)) * Pow2(i \div 2 + 11)
Lzma2Prop(dict) == Min({i \in 0 .. 39 : dict <= DictOfProp(i)} \cup {40})
-----------------------------------------------------------------------------
(* XZ.                                                                     *)

WithTotal(l2, total) == IF l2.total <= 0 THEN [l2 EXCEPT !.total = total] ELSE l2

\* XzEncProps_Normalize_Fixed, for the LZMA2 properties l2.
XzFixed(p, l2) ==
  LET With(t, n) ==
        LET f == Fewer(n.total, t[2], t[3], p.reduce, p.block)
        IN [p EXCEPT !.l2 = n, !.blockThreads = t[2], !.reduced = f[1], !.total = f[2]]
      Share(t) ==
        With(t, Lzma2Normalize([l2 EXCEPT !.total = t[1],
                                          !.lz.reduce = IF p.block < p.reduce \/ p.reduce = Unset THEN p.block ELSE @]))
  IN Share(Shared(l2.total, Lzma2Normalize(WithTotal(l2, p.total)).total, p.blockThreads, p.total))

\* XzProps_Normalize
XzAuto(p, l2, auto) ==
  [p EXCEPT !.block = auto.block, !.reduced = auto.reduced, !.blockThreads = auto.blockThreads,
            !.l2 = [l2 EXCEPT !.block = IF @ = Auto THEN auto.block ELSE @, !.reduced = 1, !.blockThreads = 1,
                              !.lz.reduce = IF @ > auto.block /\ auto.block # SolidBlock THEN auto.block ELSE @]]

XzNormalize(p) ==
  LET l2    == [p.l2 EXCEPT !.lz.reduce = p.reduce]
      solid == [p EXCEPT !.block = SolidBlock, !.reduced = 1, !.blockThreads = 1, !.l2 = WithTotal(l2, p.total)]
  IN  IF p.block = SolidBlock \/ (p.block = Auto /\ p.l2.block = SolidBlock) THEN solid
      ELSE IF p.block = Auto
      THEN XzAuto(p, l2, Lzma2Normalize(WithTotal(l2, p.total)))
      ELSE XzFixed(p, [l2 EXCEPT !.lz.reduce = Min({p.reduce, p.block}),
                                 !.block = IF @ = Auto THEN SolidBlock ELSE IF @ > p.block /\ @ # SolidBlock THEN p.block ELSE @])
-----------------------------------------------------------------------------
NoProps == [kind |-> "none"]
PropsInit ==
  /\ given \in {[kind |-> "lzma2", p |-> g] : g \in Lzma2Given} \cup {[kind |-> "xz", p |-> g] : g \in XzGiven}
  /\ enc = NoProps /\ lzmaEnc = NoProps

\* Lzma2Enc_SetProps
SetLzma2(p) ==
  LET n == LzmaNormalize(p.lz) IN
  IF n.lc + n.lp > 4 THEN [kind |-> "param"] ELSE [kind |-> "lzma2", p |-> Lzma2Normalize(p)]

SetProps ==
  /\ enc = NoProps
  /\ enc' = IF given.kind = "xz" THEN [kind |-> "xz", p |-> XzNormalize(given.p)] ELSE SetLzma2(given.p)
  /\ UNCHANGED <<given, lzmaEnc>>

Stored == IF enc.kind = "xz" THEN SetLzma2(enc.p.l2) ELSE enc

\* The LZMA encoders are set up (Lzma2EncInt_InitStream), and with XZ the LZMA2
\* encoder before them; the dictionary size is written for the decoder.
CoderOf(stored) ==
  IF stored.kind = "param" THEN [kind |-> "param"]
  ELSE [kind |-> "ready", lz |-> LzmaSet(stored.p.lz), threads |-> stored.p.lz.threads,
        prop |-> Lzma2Prop(LzmaNormalize(stored.p.lz).dict)]

SetCoder ==
  /\ enc # NoProps /\ lzmaEnc = NoProps
  /\ lzmaEnc' = CoderOf(Stored)
  /\ UNCHANGED <<given, enc>>

PropsDone == lzmaEnc # NoProps /\ UNCHANGED propsVars
PropsNext == SetProps \/ SetCoder \/ PropsDone
PropsSpec == PropsInit /\ [][PropsNext]_propsVars
-----------------------------------------------------------------------------
(* Properties                                                              *)

Kept == enc.kind \in {"lzma2", "xz"}

\* The decoder makes the dictionary at least as large as the encoder's, be it from
\* the five bytes of LZMA or from the one byte of LZMA2, and it gets back lc, lp
\* and pb.
DecoderCanFollow ==
  lzmaEnc.kind = "ready" =>
    /\ lzmaEnc.lz.written >= lzmaEnc.lz.dict /\ lzmaEnc.lz.written < Two32
    /\ DictOfProp(lzmaEnc.prop) >= lzmaEnc.lz.dict
    /\ PropsOfByte(lzmaEnc.lz.byte) = [lc |-> lzmaEnc.lz.lc, lp |-> lzmaEnc.lz.lp, pb |-> lzmaEnc.lz.pb]

\* A dictionary of more than 4 KiB is not larger than the data that is promised.
NoWaste ==
  LET promised == IF given.kind = "xz" THEN given.p.reduce ELSE given.p.lz.reduce
  IN  lzmaEnc.kind = "ready" /\ promised # Unset => lzmaEnc.lz.dict <= Max({promised, Pow2(12)})

\* Threads for blocks: no more than there is room for or blocks are expected; with
\* more than one the block has a size, one that MtCoder can be given.
ThreadsHaveBlocks ==
  Kept =>
    LET p == enc.p
        file == IF enc.kind = "xz" THEN p.reduce ELSE p.lz.reduce
    IN /\ p.reduced \in 1 .. p.blockThreads /\ p.blockThreads <= ThreadsMax
       /\ p.reduced > 1 => p.block \notin {Auto, SolidBlock} /\ (file # Unset => p.reduced <= Blocks(file, p.block))

\* A block whose size the encoder chose holds the dictionary.
BlockHoldsDict ==
  enc.kind = "lzma2" /\ given.p.block = Auto /\ enc.p.block # SolidBlock => enc.p.block >= enc.p.lz.dict

\* To normalise what is normalised changes nothing that the encoder works with:
\* Lzma2Enc_SetProps is given properties that a caller has normalised already.
NormalizeTwice ==
  enc.kind = "lzma2" => [Lzma2Normalize(enc.p) EXCEPT !.total = enc.p.total] = enc.p

\* The caller of LZMA2 who says nothing but how many threads there may be in all
\* gets no more: blocks times the threads of a block.  (With XZ and blocks of
\* automatic size an encoder forgets the total.)
TotalIsKept ==
  lzmaEnc.kind = "ready" /\ given.kind = "lzma2" /\ given.p.total > 0 /\ given.p.blockThreads = -1 /\ given.p.lz.threads = -1
    => enc.p.reduced * lzmaEnc.threads <= given.p.total

\* The properties that the Normalize functions make are ones that an encoder can
\* use and a decoder can follow.
PropsAreSound ==
  /\ DecoderCanFollow /\ ThreadsHaveBlocks /\ BlockHoldsDict
  /\ NormalizeTwice /\ TotalIsKept /\ NoWaste
=============================================================================
