------------------------------ MODULE LzmaStates ------------------------------
(***************************************************************************)
(* The twelve states of LZMA (LzmaEnc.c): what the last symbols were.       *)
(***************************************************************************)
EXTENDS Naturals, Sequences

\* kLiteralNextStates and the other three tables, one entry per state.
NextLit   == <<0, 0, 0, 0, 1, 2, 3, 4, 5, 6, 4, 5>>
NextMatch == [s \in 1..12 |-> IF s <= 7 THEN 7 ELSE 10]
NextRep   == [s \in 1..12 |-> IF s <= 7 THEN 8 ELSE 11]
NextShort == [s \in 1..12 |-> IF s <= 7 THEN 9 ELSE 11]
After(table, state) == table[state + 1]

LitStates == 0..6            \* IsLitState

\* GetLenToPosState
LenToPos(len) == IF len < 5 THEN len - 2 ELSE 3

\* The distance that is repeated comes first.
ToFront(reps, k) == <<reps[k + 1]>> \o SubSeq(reps, 1, k) \o SubSeq(reps, k + 2, 4)
=============================================================================
