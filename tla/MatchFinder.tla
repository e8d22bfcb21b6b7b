---------------------------- MODULE MatchFinder ----------------------------
(***************************************************************************)
(* What a match finder promises to LzmaEnc: the contract of IMatchFinder2  *)
(* (sdk/C/LzFind.h) as the encoder uses it, without threads, blocks or     *)
(* windows.                                                                *)
(***************************************************************************)
EXTENDS Naturals

CONSTANT Lens   \* possible lengths of the input

VARIABLES
  open,    \* between Init and ReleaseStream
  len,     \* bytes in the input
  failed,  \* reading the input has failed
  taken,   \* positions GetMatches and Skip have gone over
  avail,   \* what GetNumAvailableBytes answers
  eof      \* it has answered 0 to a new request

finderVars == <<open, len, failed, taken, avail, eof>>

FinderInit ==
  /\ open = FALSE /\ failed = FALSE /\ eof = FALSE
  /\ len = 0 /\ taken = 0 /\ avail = 0

Open ==
  /\ ~open
  /\ open' = TRUE /\ failed' = FALSE /\ eof' = FALSE
  /\ len' \in Lens
  /\ taken' = 0 /\ avail' = 0

Fail ==
  /\ failed' = TRUE
  /\ UNCHANGED <<open, len, taken, avail, eof>>

\* GetNumAvailableBytes: bytes once announced stay announced, and 0 means that
\* the input is exhausted or cannot be read.
Announce ==
  /\ open /\ ~eof
  /\ \E a \in avail .. len - taken :
       /\ avail' = a
       /\ eof' = (a = 0)
       /\ a = 0 => failed \/ taken = len
  /\ UNCHANGED <<open, len, failed, taken>>

\* GetMatches, or Skip(1).
Take ==
  /\ open /\ avail > 0
  /\ taken' = taken + 1 /\ avail' = avail - 1
  /\ UNCHANGED <<open, len, failed, eof>>

Close ==
  /\ open' = FALSE
  /\ UNCHANGED <<len, failed, taken, avail, eof>>

FinderNext == Open \/ Fail \/ Announce \/ Take \/ Close

FinderSpec == FinderInit /\ [][FinderNext]_finderVars
=============================================================================
