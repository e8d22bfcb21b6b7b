------------------------------- MODULE MtSync -------------------------------
(***************************************************************************)
(* The synchronisation of the multithreaded match finder (CMtSync of       *)
(* sdk/C/LzFindMt.c over the POSIX primitives of sdk/C/Threads.c).         *)
(*                                                                         *)
(* Three threads form a pipeline.  The hash thread fills hash blocks, the  *)
(* bt thread turns them into blocks of matches, the lz thread (the caller  *)
(* of the encoder) consumes those.  A CMtSync joins two neighbours:        *)
(* sync "hash" is produced by the hash thread and consumed by bt, sync     *)
(* "bt" is produced by the bt thread and consumed by lz.  A consumer       *)
(* starts its producer on its first request, stops it, and makes it exit.  *)
(*                                                                         *)
(* What is in the blocks, and whether the window must be moved, is left    *)
(* open here and decided in LzFindMt.                                      *)
(***************************************************************************)
EXTENDS Naturals

CONSTANTS
  kMtHashNumBlocks,  \* blocks in the ring of sync "hash"
  kMtBtNumBlocks,    \* blocks in the ring of sync "bt"
  MaxHashBlocks,     \* bounds: blocks that bt, and lz, take in one session
  MaxBtBlocks,
  MaxSessions        \* bound: sessions (uses of the encoder) in a behaviour

ASSUME NumBlocksAssumption ==
  /\ kMtHashNumBlocks \in Nat \ {0}
  /\ kMtBtNumBlocks \in Nat \ {0}

ASSUME BoundsAssumption ==
  /\ MaxHashBlocks \in Nat
  /\ MaxBtBlocks \in Nat
  /\ MaxSessions \in Nat

Syncs   == {"bt", "hash"}
Threads == {"lz", "bt", "hash"}
Nobody  == "nobody"

MaxBlocks(s) == IF s = "bt" THEN MaxBtBlocks ELSE MaxHashBlocks
NumBlocks(s) == IF s = "bt" THEN kMtBtNumBlocks ELSE kMtHashNumBlocks

VARIABLES
  pc,                  \* where each thread is
  created,             \* Thread_WasCreated(&p->thread)
  needStart,           \* fields of CMtSync
  stopWriting,
  exit,
  csWasEntered,
  numProcessedBlocks,
  canStart,            \* auto-reset events: signalled?
  wasStopped,
  freeSemaphore,       \* semaphore counts
  filledSemaphore,
  cs,                  \* the thread that is in the critical section
  blockIndex,          \* local variable of each producer thread
  session              \* sessions started so far

flagVars  == <<needStart, stopWriting, exit, canStart, wasStopped>>
lockVars  == <<cs, csWasEntered>>
countVars == <<numProcessedBlocks, freeSemaphore, filledSemaphore, blockIndex>>
lifeVars  == <<created, session>>
syncVars  == <<pc, flagVars, lockVars, countVars, lifeVars>>

(***************************************************************************)
(* Labels.  lz: "new" no finder yet; "idle" stopped; "using" holds or will *)
(* ask for blocks; a "next" label inside MtSync_GetNextBlock; a "stop"     *)
(* label inside MtSync_StopWriting; then the steps of MtSync_Destruct.     *)
(***************************************************************************)
CallLabels == {"nextRelease", "nextWait", "nextLock", "stopRelease", "stopWait"}
LzLabels   == {"new", "createBt", "createFailed", "idle", "using",
               "exitBt", "joinBt", "exitHash", "joinHash", "done"} \cup CallLabels
BtLabels   == {"none", "start", "free", "check", "lock", "fill", "publish",
               "stop", "stopped", "exited"} \cup CallLabels
HashLabels == {"none", "start", "need", "enterHash", "move", "check", "fill",
               "stopped", "exited"}

PcTypeOK ==
  /\ pc \in [Threads -> LzLabels \cup BtLabels \cup HashLabels]
  /\ pc["lz"] \in LzLabels /\ pc["bt"] \in BtLabels /\ pc["hash"] \in HashLabels

FlagTypeOK ==
  /\ created \in [Syncs -> BOOLEAN]
  /\ needStart \in [Syncs -> BOOLEAN]
  /\ stopWriting \in [Syncs -> BOOLEAN]
  /\ exit \in [Syncs -> BOOLEAN]
  /\ csWasEntered \in [Syncs -> BOOLEAN]
  /\ canStart \in [Syncs -> BOOLEAN]
  /\ wasStopped \in [Syncs -> BOOLEAN]
  /\ cs \in [Syncs -> Threads \cup {Nobody}]

CountTypeOK ==
  /\ numProcessedBlocks \in [Syncs -> Nat]
  /\ blockIndex \in [Syncs -> Nat]
  /\ session \in 0..MaxSessions

IsSemaphore(sem) ==
  /\ sem \in [Syncs -> Nat]
  /\ \A s \in Syncs : sem[s] <= NumBlocks(s)

TypeOK ==
  /\ PcTypeOK /\ FlagTypeOK /\ CountTypeOK
  /\ IsSemaphore(freeSemaphore) /\ IsSemaphore(filledSemaphore)

SyncInit ==
  /\ pc = [t \in Threads |-> IF t = "lz" THEN "new" ELSE "none"]
  /\ created = [s \in Syncs |-> FALSE]
  /\ needStart = [s \in Syncs |-> FALSE]
  /\ stopWriting = [s \in Syncs |-> FALSE]
  /\ exit = [s \in Syncs |-> FALSE]
  /\ csWasEntered = [s \in Syncs |-> FALSE]
  /\ numProcessedBlocks = [s \in Syncs |-> 0]
  /\ canStart = [s \in Syncs |-> FALSE]
  /\ wasStopped = [s \in Syncs |-> FALSE]
  /\ freeSemaphore = [s \in Syncs |-> 0]
  /\ filledSemaphore = [s \in Syncs |-> 0]
  /\ cs = [s \in Syncs |-> Nobody]
  /\ blockIndex = [s \in Syncs |-> 0]
  /\ session = 0
-----------------------------------------------------------------------------
(* The POSIX primitives. *)

Goto(t, label) == pc' = [pc EXCEPT ![t] = label]

\* Event_Set, and the auto-reset Event_Wait.
Signal(event, s)  == event' = [event EXCEPT ![s] = TRUE]
Consume(event, s) == event[s] /\ event' = [event EXCEPT ![s] = FALSE]

\* Semaphore_ReleaseN(p, 1): at the maximum the post fails, and no caller looks.
Posted(sem, s) == IF sem[s] < NumBlocks(s) THEN [sem EXCEPT ![s] = @ + 1] ELSE sem
Release(sem, s) == sem' = Posted(sem, s)

\* Mutant: Semaphore_Wait does not wait.
Wait_NoWait(sem, s) == sem' = [sem EXCEPT ![s] = @ - 1]

Wait(sem, s) == sem[s] > 0 /\ sem' = [sem EXCEPT ![s] = @ - 1]

\* LOCK_BUFFER and UNLOCK_BUFFER (the DEBUG_BUFFER_LOCK checks are LockDiscipline).
LockBuffer(t, s) ==
  /\ cs[s] = Nobody
  /\ cs' = [cs EXCEPT ![s] = t]
  /\ csWasEntered' = [csWasEntered EXCEPT ![s] = TRUE]

UnlockBuffer(s) ==
  /\ cs' = [cs EXCEPT ![s] = Nobody]
  /\ csWasEntered' = [csWasEntered EXCEPT ![s] = FALSE]
-----------------------------------------------------------------------------
(* MtSync_GetNextBlock, called by consumer t of sync s. *)

\* Mutant: a block is freed at the start too.
StartProducer_FreesBlock(t, s) ==
  /\ needStart[s]
  /\ numProcessedBlocks' = [numProcessedBlocks EXCEPT ![s] = 1]
  /\ needStart' = [needStart EXCEPT ![s] = FALSE]
  /\ stopWriting' = [stopWriting EXCEPT ![s] = FALSE]
  /\ exit' = [exit EXCEPT ![s] = FALSE]
  /\ wasStopped' = [wasStopped EXCEPT ![s] = FALSE]
  /\ Signal(canStart, s)
  /\ Goto(t, "nextRelease")
  /\ UNCHANGED <<lockVars, freeSemaphore, filledSemaphore, blockIndex, lifeVars>>

StartProducer(t, s) ==
  /\ needStart[s]
  /\ numProcessedBlocks' = [numProcessedBlocks EXCEPT ![s] = 1]
  /\ needStart' = [needStart EXCEPT ![s] = FALSE]
  /\ stopWriting' = [stopWriting EXCEPT ![s] = FALSE]
  /\ exit' = [exit EXCEPT ![s] = FALSE]
  /\ wasStopped' = [wasStopped EXCEPT ![s] = FALSE]
  /\ Signal(canStart, s)
  /\ Goto(t, "nextWait")
  /\ UNCHANGED <<lockVars, freeSemaphore, filledSemaphore, blockIndex, lifeVars>>

FreeCurrentBlock(t, s) ==
  /\ ~needStart[s]
  /\ UnlockBuffer(s)
  /\ numProcessedBlocks' = [numProcessedBlocks EXCEPT ![s] = @ + 1]
  /\ Goto(t, "nextRelease")
  /\ UNCHANGED <<flagVars, freeSemaphore, filledSemaphore, blockIndex, lifeVars>>

GetNextBlock(t, s) ==
  /\ numProcessedBlocks[s] < MaxBlocks(s) \/ needStart[s]
  /\ StartProducer(t, s) \/ FreeCurrentBlock(t, s)

NextRelease(t, s) ==
  /\ pc[t] = "nextRelease"
  /\ Release(freeSemaphore, s)
  /\ Goto(t, "nextWait")
  /\ UNCHANGED <<flagVars, lockVars, numProcessedBlocks, filledSemaphore, blockIndex, lifeVars>>

NextWait(t, s) ==
  /\ pc[t] = "nextWait"
  /\ Wait(filledSemaphore, s)
  /\ Goto(t, "nextLock")
  /\ UNCHANGED <<flagVars, lockVars, numProcessedBlocks, freeSemaphore, blockIndex, lifeVars>>

\* GetNextBlock returns with the buffer locked.
NextLock(t, s, returnTo) ==
  /\ pc[t] = "nextLock"
  /\ LockBuffer(t, s)
  /\ Goto(t, returnTo)
  /\ UNCHANGED <<flagVars, countVars, lifeVars>>
-----------------------------------------------------------------------------
(* MtSync_StopWriting, called by consumer t of sync s. *)

StopNothing(t, s, returnTo) ==
  /\ ~created[s] \/ needStart[s]
  /\ Goto(t, returnTo)
  /\ UNCHANGED <<flagVars, lockVars, countVars, lifeVars>>

StopBegin(t, s) ==
  /\ created[s] /\ ~needStart[s]
  /\ IF csWasEntered[s] THEN UnlockBuffer(s) ELSE UNCHANGED lockVars
  /\ stopWriting' = [stopWriting EXCEPT ![s] = TRUE]
  /\ Goto(t, "stopRelease")
  /\ UNCHANGED <<needStart, exit, canStart, wasStopped, countVars, lifeVars>>

StopWriting(t, s, returnTo) == StopNothing(t, s, returnTo) \/ StopBegin(t, s)

StopRelease(t, s) ==
  /\ pc[t] = "stopRelease"
  /\ Release(freeSemaphore, s)
  /\ Goto(t, "stopWait")
  /\ UNCHANGED <<flagVars, lockVars, numProcessedBlocks, filledSemaphore, blockIndex, lifeVars>>

StopWait(t, s, returnTo) ==
  /\ pc[t] = "stopWait"
  /\ Consume(wasStopped, s)
  /\ needStart' = [needStart EXCEPT ![s] = TRUE]
  /\ Goto(t, returnTo)
  /\ UNCHANGED <<stopWriting, exit, canStart, lockVars, countVars, lifeVars>>
-----------------------------------------------------------------------------
(* The lz thread: the calls LzmaEnc makes. *)

\* MtSync_Create for one sync; failing (event or thread creation) it runs
\* MtSync_Destruct on that sync, which has no thread to stop.
CreateOk(s, from, to) ==
  /\ pc["lz"] = from
  /\ created' = [created EXCEPT ![s] = TRUE]
  /\ needStart' = [needStart EXCEPT ![s] = TRUE]
  /\ exit' = [exit EXCEPT ![s] = TRUE]
  /\ csWasEntered' = [csWasEntered EXCEPT ![s] = FALSE]
  /\ pc' = [pc EXCEPT !["lz"] = to, ![s] = "start"]
  /\ UNCHANGED <<stopWriting, canStart, wasStopped, cs, countVars, session>>

CreateFails(s, from) ==
  /\ pc["lz"] = from
  /\ needStart' \in {needStart, [needStart EXCEPT ![s] = TRUE]}
  /\ exit' = [exit EXCEPT ![s] = needStart'[s]]
  /\ csWasEntered' = [csWasEntered EXCEPT ![s] = FALSE]
  /\ Goto("lz", "createFailed")
  /\ UNCHANGED <<stopWriting, canStart, wasStopped, cs, countVars, lifeVars>>

\* MatchFinderMt_Create: sync "hash", then sync "bt".
Create ==
  \/ CreateOk("hash", "new", "createBt")
  \/ CreateOk("bt", "createBt", "idle")
  \/ CreateFails("hash", "new")
  \/ CreateFails("bt", "createBt")

\* Mutant: the semaphores are initialised once only.
InitMt_KeepsCounts ==
  /\ pc["lz"] = "idle"
  /\ session < MaxSessions
  /\ \A s \in Syncs : needStart[s] /\ ~csWasEntered[s]
  /\ session' = session + 1
  /\ freeSemaphore' = IF session = 0 THEN [s \in Syncs |-> NumBlocks(s)] ELSE freeSemaphore
  /\ filledSemaphore' = IF session = 0 THEN [s \in Syncs |-> 0] ELSE filledSemaphore
  /\ Goto("lz", "using")
  /\ UNCHANGED <<flagVars, lockVars, numProcessedBlocks, blockIndex, created>>

\* MatchFinderMt_InitMt (MtSync_Init of both).  With a sync that is running or
\* locked MtSync_Init returns SZ_ERROR_FAIL: InitMtSucceeds says it never is.
InitMt ==
  /\ pc["lz"] = "idle"
  /\ session < MaxSessions
  /\ \A s \in Syncs : needStart[s] /\ ~csWasEntered[s]
  /\ session' = session + 1
  /\ freeSemaphore' = [s \in Syncs |-> NumBlocks(s)]
  /\ filledSemaphore' = [s \in Syncs |-> 0]
  /\ Goto("lz", "using")
  /\ UNCHANGED <<flagVars, lockVars, numProcessedBlocks, blockIndex, created>>

LzGetNextBlock == pc["lz"] = "using" /\ GetNextBlock("lz", "bt")

\* MatchFinderMt_ReleaseStream.
ReleaseStream == pc["lz"] = "using" /\ StopWriting("lz", "bt", "idle")

\* The steps inside a call of lz: all but the choice of the next call.
LzCallStep ==
  \/ NextRelease("lz", "bt")
  \/ NextWait("lz", "bt")
  \/ NextLock("lz", "bt", "using")
  \/ StopRelease("lz", "bt")
  \/ StopWait("lz", "bt", "idle")

\* MatchFinderMt_Destruct.  Its ReleaseStream has no effect in these states, and
\* neither has the StopWriting of each MtSync_Destruct (StopStopsBoth).
DestructBegin ==
  /\ pc["lz"] \in {"idle", "createFailed"}
  /\ Goto("lz", IF created["bt"] THEN "exitBt" ELSE "exitHash")
  /\ UNCHANGED <<flagVars, lockVars, countVars, lifeVars>>

SendExit(s, from, to) ==
  /\ pc["lz"] = from
  /\ created[s]
  /\ exit' = [exit EXCEPT ![s] = TRUE]
  /\ Signal(canStart, s)
  /\ Goto("lz", to)
  /\ UNCHANGED <<needStart, stopWriting, wasStopped, lockVars, countVars, lifeVars>>

\* Thread_Wait_Close, the deletion of the critical section and the events.
Join(s, from, to) ==
  /\ pc["lz"] = from
  /\ pc[s] = "exited"
  /\ created' = [created EXCEPT ![s] = FALSE]
  /\ csWasEntered' = [csWasEntered EXCEPT ![s] = FALSE]
  /\ Goto("lz", to)
  /\ UNCHANGED <<flagVars, cs, countVars, session>>

NothingToJoin ==
  /\ pc["lz"] = "exitHash" /\ ~created["hash"]
  /\ Goto("lz", "done")
  /\ UNCHANGED <<flagVars, lockVars, countVars, lifeVars>>

DestructStep ==
  \/ SendExit("bt", "exitBt", "joinBt")
  \/ Join("bt", "joinBt", "exitHash")
  \/ SendExit("hash", "exitHash", "joinHash")
  \/ Join("hash", "joinHash", "done")
  \/ NothingToJoin
-----------------------------------------------------------------------------
(* What the two producers have in common. *)

\* Event_Wait(&p->canStart), and the test of p->exit after it.
WaitStart(w, loop) ==
  /\ pc[w] = "start"
  /\ Consume(canStart, w)
  /\ blockIndex' = [blockIndex EXCEPT ![w] = 0]
  /\ Goto(w, IF exit[w] THEN "exited" ELSE loop)
  /\ UNCHANGED <<needStart, stopWriting, exit, wasStopped, lockVars,
                 numProcessedBlocks, freeSemaphore, filledSemaphore, lifeVars>>

WaitFree(w, from) ==
  /\ pc[w] = from
  /\ Wait(freeSemaphore, w)
  /\ Goto(w, "check")
  /\ UNCHANGED <<flagVars, lockVars, numProcessedBlocks, filledSemaphore, blockIndex, lifeVars>>

Publish(w, from, loop) ==
  /\ pc[w] = from
  /\ Release(filledSemaphore, w)
  /\ blockIndex' = [blockIndex EXCEPT ![w] = @ + 1]
  /\ Goto(w, loop)
  /\ UNCHANGED <<flagVars, lockVars, numProcessedBlocks, freeSemaphore, lifeVars>>

ReportStopped(w) ==
  /\ pc[w] = "stopped"
  /\ Signal(wasStopped, w)
  /\ Goto(w, "start")
  /\ UNCHANGED <<needStart, stopWriting, exit, canStart, lockVars, countVars, lifeVars>>
-----------------------------------------------------------------------------
(* HashThreadFunc. *)

\* Mutant: btSync.cs is not entered.
HashEnterBt_NoLock ==
  /\ pc["hash"] = "need"
  /\ Goto("hash", "enterHash")
  /\ UNCHANGED <<flagVars, lockVars, countVars, lifeVars>>

\* The window must be moved: enter btSync.cs, then hashSync.cs.
HashEnterBt ==
  /\ pc["hash"] = "need"
  /\ cs["bt"] = Nobody
  /\ cs' = [cs EXCEPT !["bt"] = "hash"]
  /\ Goto("hash", "enterHash")
  /\ UNCHANGED <<flagVars, csWasEntered, countVars, lifeVars>>

HashEnterHash ==
  /\ pc["hash"] = "enterHash"
  /\ cs["hash"] = Nobody
  /\ cs' = [cs EXCEPT !["hash"] = "hash"]
  /\ Goto("hash", "move")
  /\ UNCHANGED <<flagVars, csWasEntered, countVars, lifeVars>>

HashMove ==
  /\ pc["hash"] = "move"
  /\ cs' = [s \in Syncs |-> Nobody]
  /\ Goto("hash", "need")
  /\ UNCHANGED <<flagVars, csWasEntered, countVars, lifeVars>>

HashCheck ==
  /\ pc["hash"] = "check"
  /\ Goto("hash", IF exit["hash"] THEN "exited"
                  ELSE IF stopWriting["hash"] THEN "stopped" ELSE "fill")
  /\ UNCHANGED <<flagVars, lockVars, countVars, lifeVars>>

HashStep ==
  \/ WaitStart("hash", "need")
  \/ HashEnterBt \/ HashEnterHash \/ HashMove
  \/ WaitFree("hash", "need")
  \/ HashCheck
  \/ Publish("hash", "fill", "need")
  \/ ReportStopped("hash")
-----------------------------------------------------------------------------
(* BtThreadFunc and BtFillBlock. *)

BtCheck ==
  /\ pc["bt"] = "check"
  /\ Goto("bt", IF stopWriting["bt"] THEN "stop"
                ELSE IF needStart["hash"] THEN "fill" ELSE "lock")
  /\ UNCHANGED <<flagVars, lockVars, countVars, lifeVars>>

BtLock ==
  /\ pc["bt"] = "lock"
  /\ LockBuffer("bt", "hash")
  /\ Goto("bt", "fill")
  /\ UNCHANGED <<flagVars, countVars, lifeVars>>

\* BtGetMatches is out of hash heads and asks for the next hash block.
BtGetNextBlock == pc["bt"] = "fill" /\ GetNextBlock("bt", "hash")

\* BtGetMatches returns.  It has asked for a hash block before, if the hash
\* thread was not running (LzFindMt shows why).
BtUnlock ==
  /\ pc["bt"] = "fill" /\ ~needStart["hash"]
  /\ UnlockBuffer("hash")
  /\ Goto("bt", "publish")
  /\ UNCHANGED <<flagVars, countVars, lifeVars>>

BtPublish == Publish("bt", "publish", IF exit["bt"] THEN "exited" ELSE "free")

\* Mutant: the hash thread is left running.
BtStop_Alone ==
  /\ pc["bt"] = "stop"
  /\ Goto("bt", "stopped")
  /\ UNCHANGED <<flagVars, lockVars, countVars, lifeVars>>

BtStop == pc["bt"] = "stop" /\ StopWriting("bt", "hash", "stopped")

BtStep ==
  \/ WaitStart("bt", "free")
  \/ WaitFree("bt", "free")
  \/ BtCheck \/ BtLock \/ BtGetNextBlock
  \/ NextRelease("bt", "hash") \/ NextWait("bt", "hash") \/ NextLock("bt", "hash", "fill")
  \/ BtUnlock \/ BtPublish
  \/ BtStop \/ StopRelease("bt", "hash") \/ StopWait("bt", "hash", "stopped")
  \/ ReportStopped("bt")
-----------------------------------------------------------------------------
\* After the destruction nothing is left to run.
Finished == pc["lz"] = "done" /\ UNCHANGED syncVars

LzChoice == Create \/ InitMt \/ LzGetNextBlock \/ ReleaseStream \/ DestructBegin

SyncNext == LzChoice \/ LzCallStep \/ DestructStep \/ HashStep \/ BtStep \/ Finished

SyncSpec == SyncInit /\ [][SyncNext]_syncVars
-----------------------------------------------------------------------------
(* What the code relies on. *)

Consumer(s) == IF s = "bt" THEN "lz" ELSE "bt"

\* The consumer of s is in the part of its code that works on a block it was
\* given, and reads the window through its pointer.
UsesBlock(s) ==
  /\ ~needStart[s]
  /\ pc[Consumer(s)] = (IF s = "bt" THEN "using" ELSE "fill")

\* The consumer of s has been given a block that it has not freed yet.
OwnsBlock(s) ==
  \/ UsesBlock(s)
  \/ pc[Consumer(s)] = "nextLock"
  \/ s = "hash" /\ ~needStart[s] /\ pc["bt"] \in {"publish", "free", "check", "lock"}

\* The block it has, or will be given next.
FirstOwned(s) == numProcessedBlocks[s] - 1

\* The producer of s is writing the block blockIndex[s].
FillsBlock(s) ==
  pc[s] = "fill" \/ (s = "bt" /\ pc[s] \in {"lock", "nextRelease", "nextWait", "nextLock"})

Slot(s, i) == i % NumBlocks(s)

(* While the hash thread moves the window (MatchFinder_MoveBlock and the       *)
(* correction of buffer and pointerToCurPos), neither lz nor bt is using its   *)
(* block: they would read the window through a stale pointer.                  *)
MoveExcludesReaders ==
  pc["hash"] = "move" => \A s \in Syncs : ~UsesBlock(s)

(* The checks of DEBUG_BUFFER_LOCK (BUFFER_MUST_BE_LOCKED, _UNLOCKED): a       *)
(* consumer that unlocks the buffer is the thread inside the critical section, *)
(* one that locks it is not, and csWasEntered tells which.                     *)
LockDiscipline ==
  \A s \in Syncs :
    /\ csWasEntered[s] <=> cs[s] = Consumer(s)
    /\ UsesBlock(s) => csWasEntered[s]
    /\ pc[Consumer(s)] \in {"nextRelease", "nextWait", "nextLock", "stopRelease", "stopWait"}
         => ~csWasEntered[s]
    /\ s = "hash" /\ pc["bt"] = "lock" => ~csWasEntered[s]

(* No Semaphore_Release1 exceeds the maximum ("check semaphore count !!!" in   *)
(* MtSync_StopWriting): the error is ignored, the post would be lost, and the  *)
(* thread waiting for it would never run again.                                *)
NoLostPost ==
  \A s \in Syncs :
    /\ pc[Consumer(s)] \in {"nextRelease", "stopRelease"} => freeSemaphore[s] < NumBlocks(s)
    /\ pc[s] = (IF s = "bt" THEN "publish" ELSE "fill") => filledSemaphore[s] < NumBlocks(s)

(* A producer never writes into the slot of a block its consumer is using, or  *)
(* of one that waits to be used, and a consumer uses only published blocks.    *)
NoOverwrite ==
  \A s \in Syncs : ~needStart[s] /\ pc[Consumer(s)] \notin {"stopRelease", "stopWait"} =>
    /\ OwnsBlock(s) => numProcessedBlocks[s] - 1 < blockIndex[s]
    /\ FillsBlock(s) => \A i \in FirstOwned(s) .. blockIndex[s] - 1 :
         Slot(s, i) # Slot(s, blockIndex[s])

(* When lz is idle both producers are in Event_Wait(&canStart), no event is    *)
(* signalled, and nobody is in a critical section: stopping bt has stopped     *)
(* hash, MtSync_Init may reset the semaphores and does not fail, and           *)
(* MtSync_Destruct has nothing to stop ("stop(btSync) will stop (htSync)       *)
(* also").                                                                     *)
StopStopsBoth ==
  pc["lz"] \in {"idle", "exitBt"} => \A s \in Syncs : created[s] =>
    /\ needStart[s] /\ pc[s] = "start"
    /\ ~csWasEntered[s] /\ cs[s] = Nobody
    /\ ~canStart[s] /\ ~wasStopped[s]

(* A producer thread leaves its function only when it is told to by           *)
(* MtSync_Destruct: "exit" is TRUE from the creation on and must have been     *)
(* reset before the first start.                                               *)
ExitOnlyOnDestruct ==
  \A s \in Syncs : pc[s] = "exited" =>
    pc["lz"] \in {"joinBt", "exitHash", "joinHash", "done"}
=============================================================================
