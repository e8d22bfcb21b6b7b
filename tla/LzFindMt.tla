------------------------------ MODULE LzFindMt ------------------------------
(***************************************************************************)
(* The multithreaded match finder (sdk/C/LzFindMt.c over the window of     *)
(* sdk/C/LzFind.c): what the three threads of MtSync do to the window and  *)
(* to the blocks.                                                          *)
(*                                                                         *)
(* Bytes, hashes and matches are left out; what is kept is where in the    *)
(* stream every thread is, how many positions each block is about, the     *)
(* number of available bytes it announces, and the pointers into the       *)
(* window that the hash thread corrects when it moves the window.          *)
(***************************************************************************)
EXTENDS MtSync, Integers

CONSTANTS
  StreamLens,         \* possible lengths of the input
  ReadMayFail,        \* may ISeqInStream_Read return an error?
  historySize,        \* dictionary size
  keepAddBufferBefore,\* bytes behind its position that LzmaEnc wants to see
  matchMaxLen,
  keepAddBufferAfter,
  numHashBytes,       \* bytes that make a hash: the last ones of a stream have none
  kMtHashBlockSize,   \* items of a hash block: a header of 2, one per position
  kMtBtBlockSize,     \* items of a bt block: a header of 2, one or more per position
  kBlockMoveAlign,
  Reserve             \* what GetBlockSize adds to the size of the window

MaxBtPositions == kMtBtBlockSize - 2

ASSUME SizesAssumption ==
  /\ StreamLens \subseteq Nat
  /\ ReadMayFail \in BOOLEAN
  /\ {historySize, keepAddBufferBefore, keepAddBufferAfter, matchMaxLen} \subseteq Nat
  /\ numHashBytes \in Nat \ {0} /\ numHashBytes <= matchMaxLen
  /\ kMtHashBlockSize \in Nat /\ kMtHashBlockSize > 2
  /\ kMtBtBlockSize \in Nat /\ kMtBtBlockSize > 2
  /\ kBlockMoveAlign \in Nat \ {0}
  /\ Reserve \in Nat /\ Reserve >= kBlockMoveAlign

VARIABLES
  mf,       \* the window: offsets in the stream of bufBase, buffer and streamPos
  hashBuf,  \* the ring of hash blocks
  btBuf,    \* the ring of bt blocks
  bt,       \* the fields of CMatchFinderMt that belong to the bt thread
  lz        \* the fields that belong to lz

dataVars == <<mf, hashBuf, btBuf, bt, lz>>
vars     == <<syncVars, dataVars>>

Smaller(a, b) == IF a < b THEN a ELSE b
AtLeast0(a)   == IF a < 0 THEN 0 ELSE a
-----------------------------------------------------------------------------
(* The window. *)

\* Mutant: the window is created for the single-threaded match finder.
keepSizeBefore_NoRings == historySize + keepAddBufferBefore + 1

keepSizeBefore ==
  historySize
  + (keepAddBufferBefore + kMtHashBlockSize * kMtHashNumBlocks + kMtBtBlockSize * kMtBtNumBlocks)
  + 1
keepSizeAfter  == matchMaxLen + (keepAddBufferAfter + kMtHashBlockSize)

\* Mutant: nothing is reserved for the alignment of a move.
blockSize_NoReserve == keepSizeBefore + keepSizeAfter

blockSize      == keepSizeBefore + keepSizeAfter + Reserve

NewWindow(len) ==
  [base |-> 0, pos |-> 0, streamPos |-> 0, len |-> len, ended |-> FALSE, failed |-> FALSE]

Avail(w) == w.streamPos - w.pos
Room(w)  == w.base + blockSize - w.streamPos


NeedMove(w) == ~w.ended /\ ~w.failed /\ w.base + blockSize - w.pos <= keepSizeAfter

\* MatchFinder_MoveBlock moves by a multiple of the alignment.
MoveOffset(w) ==
  LET offset == w.pos - w.base - keepSizeBefore IN offset - (offset % kBlockMoveAlign)

\* MatchFinder_ReadBlock: the windows it may leave.  The stream gives as much as
\* is asked for, or (n minimal) just more than keepSizeAfter; or it ends; or fails.
Enough(w, n) == Avail(w) + n > keepSizeAfter

ReadBlock(w) ==
  LET most  == Smaller(Room(w), w.len - w.streamPos)
      least == AtLeast0(keepSizeAfter + 1 - Avail(w))
      Read(n) == [w EXCEPT !.streamPos = @ + n]
  IN  IF w.ended \/ w.failed \/ Room(w) = 0 THEN {w}
      ELSE {Read(n) : n \in {m \in {least, most} : m <= most /\ m > 0 /\ Enough(w, m)}}
           \cup {[Read(n) EXCEPT !.ended = TRUE] :
                   n \in {m \in {w.len - w.streamPos} : m < Room(w) /\ ~Enough(w, m)}}
           \cup {[Read(n) EXCEPT !.failed = TRUE] :
                   n \in {m \in 0..most : ReadMayFail /\ ~Enough(w, m) /\ m < Room(w)}}

ReadIfRequired(w) == IF keepSizeAfter >= Avail(w) THEN ReadBlock(w) ELSE {w}
-----------------------------------------------------------------------------
EmptyBlock == [from |-> 0, num |-> 0, avail |-> 0]
NewBt == [pos |-> 0, ptr |-> 0, sent |-> 0, hashRem |-> 0, hashNumAvail |-> 0,
          block |-> EmptyBlock, full |-> FALSE]
NewLz == [pos |-> 0, ptr |-> 0, rem |-> 0, avail |-> 0, eof |-> FALSE]

\* Mutant: GetNextBlock returns the incremented number.
CurrentSlot_Next(s) == Slot(s, numProcessedBlocks[s])

\* The block its consumer is working on.
CurrentSlot(s) == Slot(s, numProcessedBlocks[s] - 1)

Init ==
  /\ SyncInit
  /\ mf = NewWindow(0)
  /\ hashBuf = [i \in 0 .. kMtHashNumBlocks - 1 |-> EmptyBlock]
  /\ btBuf = [i \in 0 .. kMtBtNumBlocks - 1 |-> EmptyBlock]
  /\ bt = NewBt
  /\ lz = NewLz
-----------------------------------------------------------------------------
(* The lz thread. *)

\* MatchFinderMt_InitMt and MatchFinderMt_Init, which LzmaEnc_CodeOneBlock calls
\* before the first block of a stream.
InitStream ==
  /\ InitMt
  /\ \E len \in StreamLens : mf' = NewWindow(len)
  /\ bt' = NewBt
  /\ lz' = NewLz
  /\ UNCHANGED <<hashBuf, btBuf>>

\* MatchFinderMt_GetNextBlock_Bt: out of positions, lz asks for a block.  LzmaEnc
\* does not ask again when it was told that no bytes are left.
LzAsks ==
  /\ lz.rem = 0 /\ ~lz.eof
  /\ LzGetNextBlock
  /\ UNCHANGED dataVars

LzReadsHeader ==
  LET block == btBuf[CurrentSlot("bt")] IN
  /\ NextLock("lz", "bt", "using")
  /\ lz' = [lz EXCEPT !.rem = block.num, !.avail = block.avail, !.eof = block.avail = 0]
  /\ UNCHANGED <<mf, hashBuf, btBuf, bt>>

\* GetMatches, or one turn of the loop of Skip.
LzTakesPosition ==
  /\ pc["lz"] = "using" /\ lz.rem > 0
  /\ lz' = [lz EXCEPT !.pos = @ + 1, !.ptr = @ + 1, !.rem = @ - 1, !.avail = @ - 1]
  /\ UNCHANGED <<syncVars, mf, hashBuf, btBuf, bt>>

LzStep ==
  \/ /\ \/ NextRelease("lz", "bt") \/ NextWait("lz", "bt")
        \/ StopRelease("lz", "bt") \/ StopWait("lz", "bt", "idle")
        \/ DestructStep
     /\ UNCHANGED dataVars
  \/ LzReadsHeader

LzCalls ==
  \/ (Create \/ ReleaseStream \/ DestructBegin) /\ UNCHANGED dataVars
  \/ InitStream \/ LzAsks \/ LzTakesPosition
-----------------------------------------------------------------------------
(* The hash thread. *)

\* Mutant: mt->buffer is not corrected.
HashMovesWindow_LzOnly ==
  LET shift == MoveOffset(mf) IN
  /\ HashMove
  /\ mf' = [mf EXCEPT !.base = @ + shift]
  /\ lz' = [lz EXCEPT !.ptr = @ - shift]
  /\ UNCHANGED <<hashBuf, btBuf, bt>>

HashMovesWindow ==
  LET shift == MoveOffset(mf) IN
  /\ HashMove
  /\ mf' = [mf EXCEPT !.base = @ + shift]
  /\ lz' = [lz EXCEPT !.ptr = @ - shift]
  /\ bt' = [bt EXCEPT !.ptr = @ - shift]
  /\ UNCHANGED <<hashBuf, btBuf>>

\* heads[0] - 2 and heads[1] of the block, and the window after it.
HashBlock(w) ==
  [from |-> w.pos, avail |-> Avail(w),
   num |-> IF Avail(w) >= numHashBytes
             THEN Smaller(Avail(w) - numHashBytes + 1, kMtHashBlockSize - 2) ELSE 0]

AfterHashBlock(w) ==
  [w EXCEPT !.pos = @ + (IF Avail(w) >= numHashBytes THEN HashBlock(w).num ELSE Avail(w))]

HashFillsBlock ==
  /\ Publish("hash", "fill", "need")
  /\ \E w \in ReadIfRequired(mf) :
       /\ hashBuf' = [hashBuf EXCEPT ![Slot("hash", blockIndex["hash"])] = HashBlock(w)]
       /\ mf' = AfterHashBlock(w)
  /\ UNCHANGED <<btBuf, bt, lz>>

HashThread ==
  \/ NeedMove(mf) /\ HashEnterBt /\ UNCHANGED dataVars
  \/ ~NeedMove(mf) /\ WaitFree("hash", "need") /\ UNCHANGED dataVars
  \/ (WaitStart("hash", "need") \/ HashEnterHash \/ HashCheck \/ ReportStopped("hash"))
     /\ UNCHANGED dataVars
  \/ HashMovesWindow \/ HashFillsBlock
-----------------------------------------------------------------------------
(* The bt thread. *)

\* The block starts with the bytes known to be available: d[1] = hashNumAvail.
BtBeginsBlock ==
  /\ BtCheck
  /\ bt' = [bt EXCEPT !.block = [from |-> bt.sent, num |-> 0, avail |-> bt.hashNumAvail],
                      !.full = FALSE]
  /\ UNCHANGED <<mf, hashBuf, btBuf, lz>>

BtAsks ==
  /\ bt.hashRem = 0 /\ ~bt.full
  /\ BtGetNextBlock
  /\ UNCHANGED dataVars


\* Mutant: the last bytes of the stream are announced but get no position.
BtReadsHeader_NoTail ==
  LET heads == hashBuf[CurrentSlot("hash")]
      ends  == heads.avail < numHashBytes
  IN
  /\ NextLock("bt", "hash", "fill")
  /\ bt' = [bt EXCEPT !.hashRem = heads.num,
                      !.hashNumAvail = IF ends THEN 0 ELSE heads.avail,
                      !.block.avail = bt.block.num + heads.avail, !.full = ends]
  /\ UNCHANGED <<mf, hashBuf, btBuf, lz>>

\* A hash block with less than numHashBytes available ends the stream: its bytes
\* go into the block as positions without matches, and bt does not move.
BtReadsHeader ==
  LET heads   == hashBuf[CurrentSlot("hash")]
      ends    == heads.avail < numHashBytes
      more    == IF ends THEN heads.avail ELSE 0
      sum     == bt.block.num + heads.avail
  IN
  /\ NextLock("bt", "hash", "fill")
  /\ bt' = [bt EXCEPT !.hashRem = heads.num,
                      !.hashNumAvail = IF ends THEN 0 ELSE heads.avail,
                      !.block.avail = sum,
                      !.block.num = @ + more,
                      !.full = ends]
  /\ UNCHANGED <<mf, hashBuf, btBuf, lz>>

\* The loop over n heads.  It is left early only when the block is full, which
\* depends on the matches: after any number of positions up to MaxBtPositions.
BtGetMatches ==
  /\ pc["bt"] = "fill" /\ ~needStart["hash"] /\ ~bt.full
  /\ \E n \in 1 .. Smaller(bt.hashRem, MaxBtPositions - bt.block.num) :
       \E full \in BOOLEAN :
         /\ n < bt.hashRem \/ bt.block.num + n = MaxBtPositions => full
         /\ bt' = [bt EXCEPT !.pos = @ + n, !.ptr = @ + n, !.hashRem = @ - n,
                             !.hashNumAvail = @ - n, !.block.num = @ + n, !.full = full]
  /\ UNCHANGED <<syncVars, mf, hashBuf, btBuf, lz>>

BtEndsBlock ==
  /\ bt.full
  /\ BtUnlock
  /\ btBuf' = [btBuf EXCEPT ![Slot("bt", blockIndex["bt"])] = bt.block]
  /\ bt' = [bt EXCEPT !.sent = @ + bt.block.num]
  /\ UNCHANGED <<mf, hashBuf, lz>>

BtThread ==
  \/ /\ \/ WaitStart("bt", "free") \/ WaitFree("bt", "free")
        \/ BtLock \/ NextRelease("bt", "hash") \/ NextWait("bt", "hash")
        \/ BtPublish \/ BtStop
        \/ StopRelease("bt", "hash") \/ StopWait("bt", "hash", "stopped")
        \/ ReportStopped("bt")
     /\ UNCHANGED dataVars
  \/ BtBeginsBlock \/ BtAsks \/ BtReadsHeader \/ BtGetMatches \/ BtEndsBlock
-----------------------------------------------------------------------------
Next == LzCalls \/ LzStep \/ HashThread \/ BtThread \/ (Finished /\ UNCHANGED dataVars)

Spec == Init /\ [][Next]_vars

(* Threads that can run do run.  Which call the encoder makes next, if any, is *)
(* its choice: LzCalls is not fair.                                            *)
FairSpec == Spec /\ WF_vars(LzStep) /\ WF_vars(HashThread) /\ WF_vars(BtThread)
-----------------------------------------------------------------------------
DataTypeOK ==
  /\ mf \in [base : Nat, pos : Nat, streamPos : Nat, len : Nat,
             ended : BOOLEAN, failed : BOOLEAN]
  /\ hashBuf \in [0 .. kMtHashNumBlocks - 1 -> [from : Nat, num : Nat, avail : Nat]]
  /\ btBuf \in [0 .. kMtBtNumBlocks - 1 -> [from : Nat, num : Nat, avail : Nat]]
  /\ bt \in [pos : Nat, ptr : Nat, sent : Nat, hashRem : Nat, hashNumAvail : Nat,
             block : [from : Nat, num : Nat, avail : Nat], full : BOOLEAN]
  /\ lz \in [pos : Nat, ptr : Nat, rem : Nat, avail : Nat, eof : BOOLEAN]

Active == pc["lz"] \in {"using", "nextRelease", "nextWait", "nextLock"}

(* Every position reaches lz exactly once and in order: the block in use is    *)
(* about the positions after those lz has taken, to the last one of it, and so *)
(* are the heads bt is working on.  btBuf and hashBuf are read while the ring  *)
(* runs on, so this also says that a block in use stays as it was published.   *)
PositionsInOrder ==
  /\ UsesBlock("bt") =>
       LET b == btBuf[CurrentSlot("bt")] IN lz.pos = b.from + b.num - lz.rem
  /\ UsesBlock("hash") /\ bt.hashRem > 0 =>
       LET h == hashBuf[CurrentSlot("hash")] IN bt.pos = h.from + h.num - bt.hashRem

(* lz->btNumAvailBytes, by which LzmaEnc decides how far a match may reach and *)
(* when the stream is over: it covers the block in use (it is decremented      *)
(* without a test), it never exceeds what is in the window, and it is 0 at the *)
(* end of a block only when the whole input was taken or the reading failed.   *)
AvailIsTruthful ==
  UsesBlock("bt") =>
    /\ lz.rem <= lz.avail
    /\ lz.pos + lz.avail <= mf.streamPos
    /\ lz.eof => mf.failed \/ (mf.ended /\ lz.pos = mf.len)
    /\ lz.eof => lz.pos = mf.streamPos

(* The window still holds what the threads behind the hash thread look back    *)
(* at: the dictionary, and for lz the bytes LzmaEnc has not encoded yet.  This *)
(* is what kHashBufferSize + kBtBufferSize in keepSizeBefore are for.          *)
HistoryIsKept ==
  Active =>
    /\ mf.base <= AtLeast0(lz.pos - historySize - keepAddBufferBefore)
    /\ mf.base <= AtLeast0(bt.pos - historySize)

(* pointerToCurPos and buffer point at the byte of the position of their       *)
(* thread, however often the window has been moved under them.                 *)
PointersFollowWindow ==
  Active => /\ mf.base + lz.ptr = lz.pos
            /\ mf.base + bt.ptr = bt.pos

(* A move makes enough room: NeedMove is false after it, so the hash thread    *)
(* does not move forever, and ReadBlock never finds the window full ("we don't *)
(* execute this branch in normal code flow").                                  *)
MoveMakesRoom ==
  /\ pc["hash"] = "move" =>
       LET w == [mf EXCEPT !.base = @ + MoveOffset(mf)] IN
       MoveOffset(mf) >= 0 /\ ~NeedMove(w) /\ w.base + blockSize >= w.streamPos
  /\ pc["hash"] \in {"check", "fill"} /\ keepSizeAfter >= Avail(mf)
       /\ ~mf.ended /\ ~mf.failed => Room(mf) > 0

(* The contract of IMatchFinder2, which the single-threaded match finder also  *)
(* fulfils: whatever the three threads do, the encoder sees a sequence of      *)
(* Announce and Take steps; bytes once announced are never withdrawn.          *)
Contract == INSTANCE MatchFinder WITH
  Lens <- StreamLens, open <- Active, len <- mf.len, failed <- mf.failed,
  taken <- lz.pos, avail <- lz.avail, eof <- lz.eof

ImplementsMatchFinder == Contract!FinderSpec

InCall == pc["lz"] \in CallLabels \cup {"exitBt", "joinBt", "exitHash", "joinHash"}

(* Every position of the input reaches lz exactly once and in order, and no    *)
(* count falls below 0 (MatchFinderMt_GetNextBlock_Bt); what it is told is true. *)
DataInOrder == DataTypeOK /\ PositionsInOrder /\ AvailIsTruthful

(* The window serves its three threads: it keeps what they look back at and     *)
(* has room for what comes.                                                    *)
WindowServes == HistoryIsKept /\ MoveMakesRoom

(* Every call of lz to the match finder returns.  MtSync_GetNextBlock: lz is   *)
(* not left waiting for a block, at the end of the stream, after a read error, *)
(* or while the hash thread waits for both critical sections to move the       *)
(* window.  MtSync_StopWriting, with the producers wherever they are: waiting  *)
(* for a free block, filling one, or in the middle of such a move.             *)
(* MatchFinderMt_Destruct: both threads are made to exit and joined, also when *)
(* only one of them was created.                                               *)
CallsReturn == InCall ~> ~InCall
=============================================================================
