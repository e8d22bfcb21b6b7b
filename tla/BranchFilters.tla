---------------------------- MODULE BranchFilters ----------------------------
(***************************************************************************)
(* The filters that pylzma.c offers, and py7zlib.py applies to what it has *)
(* decompressed: Bra.c and Bra86.c turn the relative addresses of branches *)
(* into absolute ones and back, Delta.c takes differences of bytes.  Data  *)
(* are bytes; an offset p into them starts at 0, as in the code.           *)
(***************************************************************************)
EXTENDS Integers, Sequences, SequencesExt, FiniteSetsExt

CONSTANTS
  Originals,   \* what is filtered: records [filter, data]
  Pieces       \* how much data a call may get, if it does not get all

ASSUME FilterAssumption ==
  /\ \A o \in Originals : \A k \in DOMAIN o.data : o.data[k] \in 0 .. 255
  /\ Pieces \subseteq Nat
-----------------------------------------------------------------------------
(* Numbers of bits k, k + 1, ... of data, from the low bit of the first byte. *)
BitAt(d, k)     == (d[k \div 8 + 1] \div 2 ^ (k % 8)) % 2
Bits(d, k, n) == MapThenSumSet(LAMBDA i : BitAt(d, k + i) * 2 ^ i, 0 .. n - 1)

SetBits(d, k, n, v) ==
  LET Byte(b) == MapThenSumSet(LAMBDA i : 2 ^ i * (IF 8 * b + i \in k .. k + n - 1 THEN (v \div 2 ^ (8 * b + i - k)) % 2
                                                   ELSE BitAt(d, 8 * b + i)), 0 .. 7)
  IN [i \in DOMAIN d |-> IF 8 * i > k /\ 8 * (i - 1) < k + n THEN Byte(i - 1) ELSE d[i]]

\* The data with the bytes from p replaced by w.
Put(d, p, w) == [i \in DOMAIN d |-> IF i - p \in DOMAIN w THEN w[i - p] ELSE d[i]]

\* Encoding adds the address, decoding subtracts it.
Converted(v, c, encoding) == IF encoding THEN v + c ELSE v - c
-----------------------------------------------------------------------------
(* Instructions of four bytes, w at the address pc.                        *)
ConvertARM64(w, pc, encoding) ==
  LET page == ((Bits(w, 5, 19) + 2 ^ 15) % 2 ^ 19) * 4 + Bits(w, 29, 2)
      z    == Converted(page, pc \div 4096, encoding) % 2 ^ 18
  IN IF Bits(w, 26, 6) = 37 THEN SetBits(w, 0, 26, Converted(Bits(w, 0, 26), pc \div 4, encoding) % 2 ^ 26)
     ELSE IF Bits(w, 24, 5) = 16 /\ BitAt(w, 31) = 1 /\ page < 2 ^ 18
          THEN SetBits(SetBits(w, 29, 2, z % 4), 5, 19, (z \div 4 - 2 ^ 15) % 2 ^ 19) ELSE w

ConvertARM(w, pc, encoding) ==
  IF w[4] # 235 THEN w ELSE SetBits(w, 0, 24, Converted(Bits(w, 0, 24), (pc + 8) \div 4, encoding) % 2 ^ 24)

\* The last two are big-endian.
ConvertPPC(bytes, pc, encoding) ==
  LET w == Reverse(bytes) IN
  IF Bits(w, 26, 6) # 18 \/ Bits(w, 0, 2) # 1 THEN bytes
  ELSE Reverse(SetBits(w, 0, 26, Converted(Bits(w, 0, 26), pc, encoding) % 2 ^ 26))

ConvertSPARC(bytes, pc, encoding) ==
  LET w == Reverse(bytes)
      v == (Bits(w, 0, 30) + 2 ^ 22) % 2 ^ 30
      x == Converted(4 * v, pc, encoding) % 2 ^ 25
  IN IF Bits(w, 30, 2) # 1 \/ v >= 2 ^ 23 THEN bytes
     ELSE Reverse(SetBits(w, 0, 30, (x \div 4 - 2 ^ 22) % 2 ^ 30))

\* What a filter returns: the data, how much of them is done, and its state.
Result(d, done, st) == [data |-> d, done |-> done, st |-> st]

\* Units of n bytes.
ByUnits(Convert(_, _, _), n, d, pc, encoding) ==
  LET units   == Len(d) \div n
      Unit(k) == Convert(SubSeq(d, n * k - n + 1, n * k), pc + n * (k - 1), encoding)
  IN Result(FlattenSeq([k \in 1 .. units |-> Unit(k)]) \o SubSeq(d, n * units + 1, Len(d)), n * units, <<>>)
-----------------------------------------------------------------------------
(* IA64: bundles of 16 bytes, with three instructions of 41 bits after the   *)
(* five of a template, that says which may be branches: the first of them is *)
(* FirstSlot, the others follow (0 is none).                                 *)
FirstSlot(template) == IF template < 16 THEN 0 ELSE <<3, 2, 0, 1, 3, 0, 3, 0>>[template \div 2 - 7]

\* The address is 20 bits and a sign that is 3 bits away from them.
ConvertSlot(d, m, pc, encoding) ==
  LET s == 5 + 41 * (m - 1)
      v == Bits(d, s + 12, 21) + 2 ^ 24 * BitAt(d, s + 36)
      c == (pc \div 8) % 2 ^ 22
      x == IF encoding THEN v + c ELSE v - c + 2 ^ 22        \* the other bits of pc are 0, or are 1
      z == x - ((x \div 2 ^ 22) % 4) * 2 ^ 22 + 7 * 2 ^ 21
  IN IF m = 0 \/ Bits(d, s + 9, 3) # 0 \/ Bits(d, s + 37, 4) # 5 THEN d
     ELSE SetBits(SetBits(d, s + 12, 21, z % 2 ^ 21), s + 36, 1, (z \div 2 ^ 24) % 2)

ConvertIA64(d, pc, encoding) ==
  LET first == FirstSlot(d[1] % 32) IN
  FoldLeft(LAMBDA b, m : IF first # 0 /\ m >= first THEN ConvertSlot(b, m, pc, encoding) ELSE b, d, <<1, 2, 3>>)
-----------------------------------------------------------------------------
(* ARM Thumb: a branch is two halves of an instruction.                    *)
ConvertPair(d, p, pc, encoding) ==
  LET k == 8 * p
      v == Bits(d, k, 11) * 2 ^ 11 + Bits(d, k + 16, 11)
      x == Converted(v, (pc + p + 4) \div 2, encoding) % 2 ^ 22
  IN SetBits(SetBits(d, k, 11, x \div 2 ^ 11), k + 16, 11, x % 2 ^ 11)

RECURSIVE ArmtFrom(_, _, _, _)
ArmtFrom(d, p, pc, encoding) ==
  LET lim == Len(d) - (Len(d) % 2) - 2 IN
  IF p >= lim THEN Result(d, p, <<>>)
  ELSE IF d[p + 2] \div 8 = 30 /\ d[p + 4] \div 8 = 31 THEN ArmtFrom(ConvertPair(d, p, pc, encoding), p + 4, pc, encoding)
  ELSE ArmtFrom(d, p + 2, pc, encoding)
-----------------------------------------------------------------------------
(* RISC-V: JAL has its address in four bytes, AUIPC and the instruction that  *)
(* follows have it in eight; instructions have two bytes or four.  An AUIPC   *)
(* of register 2 marks a pair that was converted, and one that looks like it  *)
(* before is changed as well, so that the decoder can tell them apart.        *)
IsJal(d, p)   == d[p + 1] % 128 = 111
IsAuipc(d, p) == d[p + 1] % 128 = 23
Register(d, p) == Bits(d, 8 * p + 7, 5)

\* Numbers of 32 bits: <<the high 20, the low 12>>.
AddTo(n, v) == LET low == n[2] + v IN <<(n[1] + low \div 4096) % 2 ^ 20, low % 4096>>
Signed12(v) == IF v >= 2048 THEN v - 4096 ELSE v
WordAt(w)     == <<Bits(w, 12, 20), Bits(w, 0, 12)>>
Bytes(n)      == SetBits(SetBits(<<0, 0, 0, 0>>, 12, 20, n[1]), 0, 12, n[2])
FourAt(d, p)  == SubSeq(d, p + 1, p + 4)

\* The offset of a JAL has its bits in another order than the number that replaces it.
ConvertJal(d, p, pc, encoding) ==
  LET k    == 8 * p
      from == IF encoding
              THEN BitAt(d, k + 31) * 2 ^ 20 + Bits(d, k + 12, 8) * 2 ^ 12 + BitAt(d, k + 20) * 2 ^ 11 + Bits(d, k + 21, 10) * 2
              ELSE Bits(d, k + 12, 4) * 2 ^ 17 + Bits(d, k + 16, 8) * 2 ^ 9 + Bits(d, k + 24, 8) * 2
      v    == Converted(from, pc + p, encoding) % 2 ^ 21
  IN IF encoding
     THEN SetBits(SetBits(SetBits(d, k + 12, 4, v \div 2 ^ 17), k + 16, 8, v \div 2 ^ 9), k + 24, 8, v \div 2)
     ELSE SetBits(SetBits(SetBits(SetBits(d, k + 31, 1, v \div 2 ^ 20), k + 12, 8, v \div 2 ^ 12), k + 20, 1, v \div 2 ^ 11),
                  k + 21, 10, v \div 2)

\* The second instruction uses the register of the AUIPC (RISCV_CHECK_1).
IsPair(d, p) == d[p + 5] % 4 = 3 /\ Bits(d, 8 * p + 47, 5) = Register(d, p)

\* The mark of a pair that was converted (RISCV_CHECK_2).
IsMarked(d, p) == Register(d, p) = 2 /\ Bits(d, 8 * p + 12, 2) = 3 /\ Bits(d, 8 * p + 27, 5) \notin {0, 2}

\* The mark goes in front of the low bits of the second instruction, and the address after it.
Marked(d, p, address) ==
  LET b == Bits(d, 8 * p + 32, 20) IN Put(d, p, Bytes(<<b, 2 * 128 + 23>>) \o address)

ConvertPairRV(d, p, pc, encoding) ==
  LET a == WordAt(FourAt(d, p))
      b == FourAt(d, p + 4)
      r == Bits(d, 8 * p + 27, 5)
      absolute == AddTo(<<a[1], 0>>, Signed12(Bits(b, 20, 12)) + pc + p)
      relative == AddTo(WordAt(Reverse(b)), -(pc + p))
      Unmarked(high, low) == Put(d, p, Bytes(<<high, r * 128 + 23>>) \o SetBits(SetBits(<<0, 0, 0, 0>>, 0, 20, a[1]), 20, 12, low))
  IN IF IsMarked(d, p)
     THEN IF encoding THEN Unmarked(Bits(b, 12, 20), Bits(b, 0, 12))
          ELSE Unmarked((relative[1] + relative[2] \div 2048) % 2 ^ 20, relative[2])
     ELSE Marked(d, p, IF encoding THEN Reverse(Bytes(absolute)) ELSE Bytes(<<a[1], Bits(b, 20, 12)>>))

\* How far the filter goes on from p, and whether it converts what is there.
RiscvStep(d, p) ==
  IF IsJal(d, p) THEN IF Register(d, p) \in {1, 5} THEN <<4, "jal">> ELSE <<2, "no">>
  ELSE IF Register(d, p) \in {0, 2} THEN IF IsMarked(d, p) THEN <<8, "pair">> ELSE <<4, "no">>
  ELSE IF IsPair(d, p) THEN <<8, "pair">> ELSE <<6, "no">>

\* It looks at two places at once, and may go past the second without coming back.
RECURSIVE RiscvFrom(_, _, _, _)
RiscvFrom(d, p, pc, encoding) ==
  LET lim    == Len(d) - (Len(d) % 2) - 6
      Hit(x) == IsJal(d, x) \/ IsAuipc(d, x)
      At(x)  == LET s == RiscvStep(d, x) IN
                RiscvFrom(CASE s[2] = "jal" -> ConvertJal(d, x, pc, encoding)
                            [] s[2] = "pair" -> ConvertPairRV(d, x, pc, encoding)
                            [] s[2] = "no" -> d,
                          x + s[1], pc, encoding)
      q == IF Hit(p) THEN p ELSE p + 2
  IN IF p >= lim THEN Result(d, p, <<>>)
     ELSE IF ~Hit(q) THEN RiscvFrom(d, p + 4, pc, encoding)
     ELSE IF q >= lim THEN Result(d, q, <<>>) ELSE At(q)
-----------------------------------------------------------------------------
(* x86: a call or a jump (bytes 232, 233) and an address, anywhere.  The mask *)
(* says which of the bytes before were one: an address is not converted when  *)
(* one of its bytes could be such an opcode for the decoder, or for no good.  *)
IsBranch(byte) == byte \in {232, 233}
IsSign(byte)   == byte \in {0, 255}            \* BR86_NEED_CONV_FOR_MS_BYTE

\* The address at p, as a number of 25 bits; the last of its bytes is its sign.
AddressAt(d, p)     == Bits(d, 8 * p, 24) + (IF d[p + 4] = 0 THEN 2 ^ 24 ELSE 0)
SetAddress(d, p, v) == Put(SetBits(d, 8 * p, 24, v % 2 ^ 24), p + 3, <<IF v >= 2 ^ 24 THEN 0 ELSE 255>>)

ConvertAddress(d, p, c, encoding) == SetAddress(d, p, Converted(AddressAt(d, p), c, encoding) % 2 ^ 25)

\* After other opcodes: when a byte becomes a sign, it and those below it are
\* complemented and the address is converted once more.
ConvertTwice(d, p, c, mask, encoding) ==
  LET v    == Converted(AddressAt(d, p), c, encoding) % 2 ^ 25
      ones == 2 ^ (8 * mask + 8)
      x    == v - (v % ones) + (ones - 1 - (v % ones))
  IN SetAddress(d, p, IF IsSign((v \div 2 ^ (8 * mask)) % 256) THEN Converted(x, c, encoding) % 2 ^ 25 ELSE v)

\* Mutant: a byte that the conversion could make a sign of, or that is one, does not matter.
X86Blocked_Sign(d, p, mask) == mask > 4 \/ mask = 3 \/ ~IsSign(d[p + 4])

\* Whether the address at p is left alone: by the opcodes before, by one of its bytes,
\* by its sign.
X86Blocked(d, p, mask) == mask > 4 \/ mask = 3 \/ (mask # 0 /\ IsSign(d[p + mask \div 2 + 1])) \/ ~IsSign(d[p + 4])

\* Four bytes at a time are looked at for an opcode, and the mask is shifted.
RECURSIVE X86From(_, _, _, _, _)
X86From(d, p, mask, pc, encoding) ==
  LET lim  == Len(d) - 4
      hits == {n \in 0 .. 3 : IsBranch(d[p + n + 1])}
      n    == Min(hits)
      m    == IF n = 3 THEN 0 ELSE mask \div 2 ^ n
      q    == p + n + 1
      c    == pc + q + 4
  IN IF p >= lim THEN Result(d, p, mask)
     ELSE IF hits = {} THEN X86From(d, p + 4, 0, pc, encoding)
     ELSE IF q > lim THEN Result(d, q - 1, m)
     ELSE IF X86Blocked(d, q, m) THEN X86From(d, q, m \div 2 + 4, pc, encoding)
     ELSE X86From(IF m = 0 THEN ConvertAddress(d, q, c, encoding) ELSE ConvertTwice(d, q, c, m \div 2, encoding),
                  q + 4, 0, pc, encoding)

ConvertX86(d, pc, mask, encoding) == IF Len(d) < 5 THEN Result(d, 0, mask) ELSE X86From(d, 0, mask, pc, encoding)
-----------------------------------------------------------------------------
(* Delta: each byte less the one that is delta before it; the state is the    *)
(* delta bytes before the data.                                               *)
Rotated(q, k) == SubSeq(q, k + 1, Len(q)) \o SubSeq(q, 1, k)

DeltaEncode(state, d) ==
  LET delta == Len(state)
      size  == Len(d)
      short == [i \in 1 .. size |-> (d[i] - state[i]) % 256]
      temp  == [i \in 1 .. delta |-> IF i <= size THEN d[i] ELSE state[i]]
  IN IF size = 0 THEN Result(d, 0, state)
     ELSE IF size <= delta THEN Result(short, size, Rotated(temp, size % delta))
     ELSE Result([i \in 1 .. size |-> (d[i] - (IF i <= delta THEN state[i] ELSE d[i - delta])) % 256],
                 size, SubSeq(d, size - delta + 1, size))

DeltaDecode(state, d) ==
  LET delta == Len(state)
      size  == Len(d)
      out   == FoldLeft(LAMBDA q, b : Append(q, (b + (IF Len(q) < delta THEN state[Len(q) + 1] ELSE q[Len(q) + 1 - delta])) % 256),
                        <<>>, d)
  IN IF size = 0 THEN Result(d, 0, state)
     ELSE IF size <= delta THEN Result(out, size, SubSeq(state, size + 1, delta) \o out)
     ELSE Result(out, size, SubSeq(out, size - delta + 1, size))
-----------------------------------------------------------------------------
(* A filter: its name, or <<"delta", n>>.                                     *)
DeltaInit(delta)   == [i \in 1 .. delta |-> 0]
IsDelta(filter)    == filter[1] = "delta"
StartState(filter) ==
  IF IsDelta(filter) THEN DeltaInit(filter[2]) ELSE IF filter = <<"x86">> THEN 0 ELSE <<>>

Filtered(filter, d, pc, st, encoding) ==
  CASE filter = <<"x86">>   -> ConvertX86(d, pc, st, encoding)
    [] filter = <<"arm64">> -> ByUnits(ConvertARM64, 4, d, pc, encoding)
    [] filter = <<"arm">>   -> ByUnits(ConvertARM, 4, d, pc, encoding)
    [] filter = <<"ppc">>   -> ByUnits(ConvertPPC, 4, d, pc, encoding)
    [] filter = <<"sparc">> -> ByUnits(ConvertSPARC, 4, d, pc, encoding)
    [] filter = <<"ia64">>  -> ByUnits(ConvertIA64, 16, d, pc, encoding)
    [] filter = <<"armt">>  -> ArmtFrom(d, 0, pc, encoding)
    [] filter = <<"riscv">> -> RiscvFrom(d, 0, pc, encoding)
    [] IsDelta(filter)      -> IF encoding THEN DeltaEncode(st, d) ELSE DeltaDecode(st, d)

\* The module's functions: all of the data in one call, from address 0.
bcj_x86_convert(d, encoding) == IF d = <<>> THEN d ELSE ConvertX86(d, 0, 0, encoding).data
bcj_convert(name, d, encoding) == IF d = <<>> THEN d ELSE Filtered(<<name>>, d, 0, <<>>, encoding).data
delta_decode(d, delta) == IF d = <<>> THEN d ELSE DeltaDecode(DeltaInit(delta), d).data
delta_encode(d, delta) == IF d = <<>> THEN d ELSE DeltaEncode(DeltaInit(delta), d).data

CallOfModule(filter, d, encoding) ==
  IF IsDelta(filter) THEN IF encoding THEN delta_encode(d, filter[2]) ELSE delta_decode(d, filter[2])
  ELSE IF filter = <<"x86">> THEN bcj_x86_convert(d, encoding) ELSE bcj_convert(filter[1], d, encoding)
-----------------------------------------------------------------------------
(* Data that are encoded in pieces, and decoded in pieces: a call gets what    *)
(* was not done before it and some more, until a call that has all does none.  *)
VARIABLES
  original,   \* a member of Originals
  work        \* [encoding, data, at, st, over]: at is how much was done

filterVars == <<original, work>>

Nothing == [filter |-> <<"x86">>, data |-> <<>>]
NewWork(o, d, encoding) == [encoding |-> encoding, data |-> d, at |-> 0, st |-> StartState(o.filter), over |-> FALSE]

FilterStart == original = Nothing /\ work = NewWork(Nothing, <<>>, TRUE)
FilterInit  == original \in Originals /\ work = NewWork(original, original.data, TRUE)

WorkAfter(r, n) ==
  [work EXCEPT !.data = Put(@, work.at, r.data), !.at = @ + r.done, !.st = r.st,
               !.over = r.done = 0 /\ work.at + n = Len(work.data)]

FilterCall(n) ==
  /\ ~work.over /\ work.at + n <= Len(work.data)
  /\ work' = WorkAfter(Filtered(original.filter, SubSeq(work.data, work.at + 1, work.at + n), work.at, work.st,
                                work.encoding), n)
  /\ UNCHANGED original

FilterRest == FilterCall(Len(work.data) - work.at)
FilterSome == \E n \in Pieces : n < Len(work.data) - work.at /\ FilterCall(n)

FilterBack ==
  /\ work.over /\ work.encoding
  /\ work' = NewWork(original, work.data, FALSE) /\ UNCHANGED original

FilterOver == work.over /\ ~work.encoding /\ UNCHANGED filterVars
FilterNext == FilterRest \/ FilterSome \/ FilterBack \/ FilterOver
FilterSpec == FilterInit /\ [][FilterNext]_filterVars
-----------------------------------------------------------------------------
(* Properties                                                                 *)

\* Data that were encoded in pieces of any size are what one call makes of them, and
\* decoding them, in pieces or in one call, gives the original: an instruction is taken
\* for a branch before and after it is converted, or not at all, also when it overlaps
\* others, and where a piece ends makes no difference.
FiltersInvert ==
  work.over =>
    IF work.encoding
    THEN /\ work.data = CallOfModule(original.filter, original.data, TRUE)
         /\ CallOfModule(original.filter, work.data, FALSE) = original.data
    ELSE work.data = original.data
=============================================================================
