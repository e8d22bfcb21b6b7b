----------------------------- MODULE ArithCoder -----------------------------
(***************************************************************************)
(* What a range coder promises: an interval of the numbers that is cut for *)
(* every bit that is coded, with as many digits as it takes.  low is its   *)
(* first number, as large as it gets; there are no carries.                *)
(***************************************************************************)
EXTENDS Integers

CONSTANTS
  B,         \* the base of a digit: a byte has B values
  Total,     \* kBitModelTotal
  Step,      \* 1 << kNumMoveBits
  Contexts   \* the probabilities that bits are coded with

Top == B * B * B   \* kTopValue
W   == Top * B     \* the numbers of 32 bits

VARIABLES low, range, probs, done
vars == <<low, range, probs, done>>

Init == done = FALSE /\ low = 0 /\ range = W - 1 /\ probs = [c \in Contexts |-> Total \div 2]

Bound(r, p) == (r \div Total) * p

\* What a bit does to its probability, that of a 0.
Adapted(p, bit) == IF bit = 0 THEN p + (Total - p) \div Step ELSE p - p \div Step

\* The interval after a bit, before it is made large again: <<low, range>>.
Cut(l, r, bound, bit) == IF bit = 0 THEN <<l, bound>> ELSE <<l + bound, r - bound>>

Normal(c) == IF c[2] < Top THEN <<c[1] * B, c[2] * B>> ELSE c

Code(c, bit) ==
  LET n == Normal(Cut(low, range, Bound(range, probs[c]), bit)) IN
  /\ ~done /\ UNCHANGED done
  /\ low' = n[1] /\ range' = n[2] /\ probs' = [probs EXCEPT ![c] = Adapted(@, bit)]

\* A bit without a probability: one half, twice.
Direct(bit) ==
  LET h == range \div 2
      n == Normal(IF bit = 0 THEN <<low, h>> ELSE <<low + h, h>>)
  IN ~done /\ low' = n[1] /\ range' = n[2] /\ UNCHANGED <<probs, done>>

\* The last digits of low are written.
Finish == ~done /\ done' = TRUE /\ UNCHANGED <<range, probs>> /\ low' = low * (B * B * B * B * B)

Next == (\E bit \in {0, 1} : Direct(bit) \/ \E c \in Contexts : Code(c, bit)) \/ Finish
Spec == Init /\ [][Next]_vars
=============================================================================
