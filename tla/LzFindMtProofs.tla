--------------------------- MODULE LzFindMtProofs ---------------------------
(***************************************************************************)
(* Proofs about MtSync, for any number of blocks in the two rings: the     *)
(* critical sections exclude the readers while the window is moved, the    *)
(* start/stop/exit handshake, and the semaphores' conservation law, from   *)
(* which no post is lost and no block in use is overwritten.               *)
(*                                                                         *)
(* And about LzFindMt, for any sizes of the window, the rings and their    *)
(* blocks and any input: it implements MtSync, so that all that is proved  *)
(* of the handshakes holds of the match finder; the pointers into the      *)
(* window follow it; the positions flow through the two rings to lz        *)
(* without gap or repetition; the window keeps what the threads look back  *)
(* at; and the whole implements the contract in MatchFinder.               *)
(***************************************************************************)
EXTENDS LzFindMt, Integers, TLAPS
-----------------------------------------------------------------------------
(* The handshakes.                                                         *)

NextLabels == {"nextRelease", "nextWait", "nextLock"}
StopLabels == {"stopRelease", "stopWait"}

Working == pc["lz"] \in {"using"} \cup CallLabels

(***************************************************************************)
(* Who is in the critical sections.                                        *)
(***************************************************************************)
LockInv ==
  /\ \A s \in Syncs : csWasEntered[s] <=> UsesBlock(s)
  /\ \A s \in Syncs : csWasEntered[s] <=> cs[s] = Consumer(s)
  /\ cs["bt"] \in {Nobody, "lz", "hash"} /\ cs["hash"] \in {Nobody, "bt", "hash"}
  /\ cs["bt"] = "hash" <=> pc["hash"] \in {"enterHash", "move"}
  /\ cs["hash"] = "hash" <=> pc["hash"] = "move"

(***************************************************************************)
(* The life of a producer: not created; waiting for canStart; told to      *)
(* exit; and, while lz is working, the handshake of start and stop.        *)
(***************************************************************************)
Absent(s)  == ~created[s] /\ pc[s] = "none" /\ ~canStart[s] /\ ~wasStopped[s]
Gone(s)    == ~created[s] /\ pc[s] \in {"none", "exited"}
Quiet(s)   == created[s] /\ needStart[s] /\ pc[s] = "start" /\ ~canStart[s] /\ ~wasStopped[s]
Leaving(s) == /\ created[s] /\ needStart[s] /\ exit[s]
              /\ pc[s] = "exited" \/ (pc[s] = "start" /\ canStart[s])

Starting(s) == pc[s] = "start" /\ canStart[s] /\ ~wasStopped[s]
Running(s)  == pc[s] \notin {"none", "start", "exited"} /\ ~canStart[s] /\ ~wasStopped[s]
Stopped(s)  == pc[s] = "start" /\ ~canStart[s] /\ wasStopped[s] /\ stopWriting[s]

Started(s) ==
  /\ created[s] /\ ~needStart[s] /\ ~exit[s]
  /\ Starting(s) \/ Running(s) \/ Stopped(s)
  /\ stopWriting[s] <=> pc[Consumer(s)] \in StopLabels
  /\ pc[s] \in {"stop", "stopped"} \cup StopLabels => stopWriting[s]

LifeInv ==
  /\ pc["lz"] = "new" => Absent("hash") /\ Absent("bt")
  /\ pc["lz"] = "createBt" => Quiet("hash") /\ Absent("bt")
  /\ pc["lz"] = "createFailed" => (Quiet("hash") \/ Absent("hash")) /\ Absent("bt")
  /\ pc["lz"] \in {"idle", "exitBt"} => Quiet("hash") /\ Quiet("bt")
  /\ pc["lz"] = "joinBt" => Quiet("hash") /\ Leaving("bt")
  /\ pc["lz"] = "exitHash" => (Quiet("hash") \/ Absent("hash")) /\ Gone("bt")
  /\ pc["lz"] = "joinHash" => Leaving("hash") /\ Gone("bt")
  /\ pc["lz"] = "done" => Gone("hash") /\ Gone("bt")
  /\ Working => \A s \in Syncs : Quiet(s) \/ Started(s)
  /\ pc["lz"] \in CallLabels => ~needStart["bt"]
  /\ pc["bt"] \in CallLabels \cup {"lock"} => ~needStart["hash"]
  /\ Working /\ pc["bt"] \in {"start", "stopped"} => Quiet("hash")

(***************************************************************************)
(* The conservation of blocks: what was published was taken or is counted  *)
(* by filledSemaphore, and every block is free, published and not yet      *)
(* freed, or in the hands of the producer.                                 *)
(***************************************************************************)
Published(s) == IF pc[s] = "start" /\ canStart[s] THEN 0 ELSE blockIndex[s]
Held(s)      == IF pc[s] \in {"free", "need", "enterHash", "move"} \/ (pc[s] = "start" /\ canStart[s])
                THEN 0 ELSE 1
Taken(s)     == numProcessedBlocks[s] - (IF pc[Consumer(s)] \in {"nextRelease", "nextWait"} THEN 1 ELSE 0)
Freed(s)     == numProcessedBlocks[s] - 1
                + (IF pc[Consumer(s)] = "nextRelease" THEN -1
                   ELSE IF pc[Consumer(s)] = "stopWait" THEN 1 ELSE 0)

Balanced(s) ==
  /\ numProcessedBlocks[s] >= 1
  /\ filledSemaphore[s] + Taken(s) = Published(s)
  /\ freeSemaphore[s] + Published(s) + Held(s) = NumBlocks(s) + Freed(s)

Fresh(s) == freeSemaphore[s] = NumBlocks(s) /\ filledSemaphore[s] = 0

CountInv ==
  Working =>
    /\ \A s \in Syncs : ~needStart[s] => Balanced(s)
    /\ needStart["bt"] => Fresh("bt")
    /\ needStart["hash"] /\ (pc["bt"] = "start" => needStart["bt"] \/ canStart["bt"])
       /\ pc["bt"] \notin {"stop", "stopped"} => Fresh("hash")
-----------------------------------------------------------------------------
(* Type correctness. *)

USE DEF Syncs, Threads, Nobody, Consumer

\* A jump to one of its own labels keeps a thread typed.
LEMMA GotoType ==
  ASSUME PcTypeOK, NEW t \in Threads, NEW label, Goto(t, label),
         label \in CASE t = "lz" -> LzLabels [] t = "bt" -> BtLabels [] t = "hash" -> HashLabels
  PROVE  PcTypeOK'
  BY DEF PcTypeOK, Goto

\* The initial state is typed.
LEMMA TypeInit == SyncInit => TypeOK
  BY NumBlocksAssumption, BoundsAssumption
  DEF SyncInit, TypeOK, PcTypeOK, FlagTypeOK, CountTypeOK, IsSemaphore, LzLabels, BtLabels,
      HashLabels, CallLabels, NumBlocks

\* Every thread stays at labels of its own function.
LEMMA PcTypeNext ==
  ASSUME PcTypeOK, [SyncNext]_syncVars
  PROVE  PcTypeOK'
<1> USE DEF LzLabels, BtLabels, HashLabels, CallLabels
<1>1. CASE Create \/ DestructStep
  BY <1>1, GotoType
  DEF Create, CreateOk, CreateFails, PcTypeOK, Goto,
      DestructStep, SendExit, Join, NothingToJoin
<1>2. CASE InitMt \/ LzGetNextBlock \/ ReleaseStream \/ DestructBegin
  BY <1>2, GotoType
  DEF InitMt, LzGetNextBlock, GetNextBlock, StartProducer,
      FreeCurrentBlock, ReleaseStream, StopWriting, StopNothing, StopBegin, DestructBegin
<1>3. CASE LzCallStep
  BY <1>3, GotoType
  DEF LzCallStep, NextRelease, NextWait, NextLock, StopRelease, StopWait
<1>4. CASE HashStep
  BY <1>4, GotoType
  DEF HashStep, WaitStart, HashEnterBt, HashEnterHash, HashMove, WaitFree,
      HashCheck, Publish, ReportStopped
<1>5. CASE BtStep
  BY <1>5, GotoType
  DEF BtStep, WaitStart, WaitFree, BtCheck, BtLock,
      BtGetNextBlock, GetNextBlock, StartProducer, FreeCurrentBlock, NextRelease, NextWait,
      NextLock, BtUnlock, BtPublish, Publish, BtStop, StopWriting, StopNothing, StopBegin,
      StopRelease, StopWait, ReportStopped
<1>6. CASE UNCHANGED syncVars
  BY <1>6
  DEF syncVars, PcTypeOK
<1> QED BY <1>1, <1>2, <1>3, <1>4, <1>5, <1>6 DEF SyncNext, LzChoice, Finished

\* The calls of GetNextBlock and StopWriting keep the flags and locks typed.
LEMMA FlagTypeCalls ==
  ASSUME FlagTypeOK, NEW s \in Syncs, NEW t \in Threads, NEW label,
         GetNextBlock(t, s) \/ StopWriting(t, s, label) \/ NextLock(t, s, label)
         \/ StopWait(t, s, label) \/ WaitStart(s, label)
  PROVE  FlagTypeOK'
<1> USE DEF flagVars, lockVars, countVars, lifeVars
<1>0. ASSUME UnlockBuffer(s)
      PROVE  csWasEntered' \in [Syncs -> BOOLEAN] /\ cs' \in [Syncs -> Threads \cup {Nobody}]
  BY <1>0 DEF FlagTypeOK, UnlockBuffer
<1>1. CASE GetNextBlock(t, s)
  <2>1. CASE StartProducer(t, s)
    BY <2>1 DEF StartProducer, FlagTypeOK, Signal
  <2>2. CASE FreeCurrentBlock(t, s)
    BY <1>0, <2>2 DEF FreeCurrentBlock, FlagTypeOK
  <2> QED BY <1>1, <2>1, <2>2 DEF GetNextBlock
<1>2. CASE StopWriting(t, s, label)
  <2>1. CASE StopNothing(t, s, label)
    BY <2>1 DEF StopNothing, FlagTypeOK
  <2>2. CASE StopBegin(t, s)
    <3>1. csWasEntered' \in [Syncs -> BOOLEAN] /\ cs' \in [Syncs -> Threads \cup {Nobody}]
      <4>1. UnlockBuffer(s) \/ UNCHANGED lockVars
        BY <2>2, Zenon DEF StopBegin
      <4> QED BY <1>0, <4>1 DEF FlagTypeOK
    <3> QED BY <2>2, <3>1 DEF StopBegin, FlagTypeOK
  <2> QED BY <1>2, <2>1, <2>2 DEF StopWriting
<1>3. CASE NextLock(t, s, label)
  BY <1>3 DEF NextLock, LockBuffer, FlagTypeOK
<1>4. CASE StopWait(t, s, label)
  BY <1>4 DEF StopWait, Consume, FlagTypeOK
<1>5. CASE WaitStart(s, label)
  BY <1>5 DEF WaitStart, Consume, FlagTypeOK
<1> QED BY <1>1, <1>2, <1>3, <1>4, <1>5

\* So does every step.
LEMMA FlagTypeNext ==
  ASSUME FlagTypeOK, [SyncNext]_syncVars
  PROVE  FlagTypeOK'
<1> USE DEF flagVars, lockVars, countVars, lifeVars
<1>1. CASE Create
  <2>1. ASSUME NEW s \in Syncs, NEW from, NEW to, CreateOk(s, from, to) PROVE FlagTypeOK'
    BY <2>1 DEF CreateOk, FlagTypeOK
  <2>2. ASSUME NEW s \in Syncs, NEW from, CreateFails(s, from) PROVE FlagTypeOK'
    <3>1. needStart' \in [Syncs -> BOOLEAN]
      BY <2>2 DEF CreateFails, FlagTypeOK
    <3> QED BY <2>2, <3>1 DEF CreateFails, FlagTypeOK
  <2> QED BY <1>1, <2>1, <2>2 DEF Create
<1>2. CASE DestructStep
  <2>1. ASSUME NEW s \in Syncs, NEW from, NEW to, SendExit(s, from, to) PROVE FlagTypeOK'
    BY <2>1 DEF SendExit, FlagTypeOK, Signal
  <2>2. ASSUME NEW s \in Syncs, NEW from, NEW to, Join(s, from, to) PROVE FlagTypeOK'
    BY <2>2 DEF Join, FlagTypeOK
  <2>3. CASE NothingToJoin
    BY <2>3 DEF NothingToJoin, FlagTypeOK
  <2> QED BY <1>2, <2>1, <2>2, <2>3 DEF DestructStep
<1>3. CASE InitMt \/ DestructBegin \/ UNCHANGED syncVars
  BY <1>3 DEF InitMt, DestructBegin, syncVars, FlagTypeOK
<1>4. CASE LzGetNextBlock \/ ReleaseStream
  BY <1>4, FlagTypeCalls DEF LzGetNextBlock, ReleaseStream
<1>5. ASSUME NEW s \in Syncs, NEW t \in Threads,
             NextRelease(t, s) \/ NextWait(t, s) \/ StopRelease(t, s)
      PROVE  FlagTypeOK'
  BY <1>5 DEF NextRelease, NextWait, StopRelease, FlagTypeOK
<1>6. CASE LzCallStep
  BY <1>5, <1>6, FlagTypeCalls DEF LzCallStep
<1>7. ASSUME NEW s \in Syncs, NEW from, NEW to,
             WaitFree(s, from) \/ Publish(s, from, to) \/ ReportStopped(s)
      PROVE  FlagTypeOK'
  BY <1>7 DEF WaitFree, Publish, ReportStopped, FlagTypeOK, Signal
<1>8. CASE HashStep
  <2>1. CASE HashEnterBt \/ HashEnterHash \/ HashMove \/ HashCheck
    BY <2>1 DEF HashEnterBt, HashEnterHash, HashMove, HashCheck, FlagTypeOK
  <2> QED BY <1>7, <1>8, <2>1, FlagTypeCalls DEF HashStep
<1>9. CASE BtStep
  <2>1. CASE BtCheck \/ BtLock \/ BtUnlock
    <3>1. CASE BtCheck
      BY <3>1 DEF BtCheck, FlagTypeOK
    <3>2. CASE BtLock
      BY <3>2 DEF BtLock, LockBuffer, FlagTypeOK
    <3>3. CASE BtUnlock
      BY <3>3 DEF BtUnlock, UnlockBuffer, FlagTypeOK
    <3> QED BY <2>1, <3>1, <3>2, <3>3
  <2>2. CASE BtGetNextBlock \/ BtStop
    BY <2>2, FlagTypeCalls DEF BtGetNextBlock, BtStop
  <2> QED BY <1>5, <1>7, <1>9, <2>1, <2>2, FlagTypeCalls DEF BtStep, BtPublish
<1> QED BY <1>1, <1>2, <1>3, <1>4, <1>6, <1>8, <1>9 DEF SyncNext, LzChoice, Finished

\* The counters stay natural numbers, and the sessions within their bound.
LEMMA CountTypeNext ==
  ASSUME CountTypeOK, [SyncNext]_syncVars
  PROVE  CountTypeOK'
<1> USE BoundsAssumption DEF CountTypeOK, flagVars, lockVars, countVars, lifeVars
<1>1. CASE Create \/ DestructStep
  BY <1>1
  DEF Create, CreateOk, CreateFails,
      DestructStep, SendExit, Join, NothingToJoin
<1>2. CASE InitMt \/ LzGetNextBlock \/ ReleaseStream \/ DestructBegin
  BY <1>2
  DEF InitMt, LzGetNextBlock, GetNextBlock, StartProducer,
      FreeCurrentBlock, ReleaseStream, StopWriting, StopNothing, StopBegin, DestructBegin
<1>3. CASE LzCallStep
  BY <1>3
  DEF LzCallStep, NextRelease, NextWait, NextLock, StopRelease, StopWait
<1>4. CASE HashStep
  BY <1>4
  DEF HashStep, WaitStart, HashEnterBt, HashEnterHash, HashMove, WaitFree,
      HashCheck, Publish, ReportStopped
<1>5. CASE BtStep
  BY <1>5
  DEF BtStep, WaitStart, WaitFree, BtCheck, BtLock,
      BtGetNextBlock, GetNextBlock, StartProducer, FreeCurrentBlock, NextRelease, NextWait,
      NextLock, BtUnlock, BtPublish, Publish, BtStop, StopWriting, StopNothing, StopBegin,
      StopRelease, StopWait, ReportStopped
<1>6. CASE UNCHANGED syncVars
  BY <1>6
  DEF syncVars
<1> QED BY <1>1, <1>2, <1>3, <1>4, <1>5, <1>6 DEF SyncNext, LzChoice, Finished

\* A semaphore stays between 0 and its maximum: Wait waits, Posted stops there.
LEMMA SemaphoresNext ==
  ASSUME IsSemaphore(freeSemaphore), IsSemaphore(filledSemaphore), [SyncNext]_syncVars
  PROVE  (IsSemaphore(freeSemaphore) /\ IsSemaphore(filledSemaphore))'
<1> USE NumBlocksAssumption DEF IsSemaphore, NumBlocks, flagVars, lockVars, countVars, lifeVars, Release,
        Posted, Wait
<1>1. CASE Create \/ DestructStep
  BY <1>1
  DEF Create, CreateOk, CreateFails,
      DestructStep, SendExit, Join, NothingToJoin
<1>2. CASE InitMt \/ LzGetNextBlock \/ ReleaseStream \/ DestructBegin
  BY <1>2
  DEF InitMt, LzGetNextBlock, GetNextBlock, StartProducer,
      FreeCurrentBlock, ReleaseStream, StopWriting, StopNothing, StopBegin, DestructBegin
<1>3. CASE LzCallStep
  BY <1>3
  DEF LzCallStep, NextRelease, NextWait, NextLock, StopRelease, StopWait
<1>4. CASE HashStep
  BY <1>4
  DEF HashStep, WaitStart, HashEnterBt, HashEnterHash, HashMove, WaitFree,
      HashCheck, Publish, ReportStopped
<1>5. CASE BtStep
  BY <1>5
  DEF BtStep, WaitStart, WaitFree, BtCheck, BtLock,
      BtGetNextBlock, GetNextBlock, StartProducer, FreeCurrentBlock, NextRelease, NextWait,
      NextLock, BtUnlock, BtPublish, Publish, BtStop, StopWriting, StopNothing, StopBegin,
      StopRelease, StopWait, ReportStopped
<1>6. CASE UNCHANGED syncVars
  BY <1>6
  DEF syncVars
<1> QED BY <1>1, <1>2, <1>3, <1>4, <1>5, <1>6 DEF SyncNext, LzChoice, Finished

(* Every variable has its type, and no semaphore exceeds its maximum. *)
THEOREM TypeCorrect == SyncSpec => []TypeOK
<1>1. TypeOK /\ [SyncNext]_syncVars => TypeOK'
  BY PcTypeNext, FlagTypeNext, CountTypeNext, SemaphoresNext DEF TypeOK
<1> QED BY <1>1, TypeInit, PTL DEF SyncSpec
-----------------------------------------------------------------------------
(* The inductive invariant. *)

\* The initial state satisfies the parts of the invariant.
LEMMA InvInit == SyncInit => LockInv /\ LifeInv /\ CountInv
  BY DEF SyncInit, LockInv, UsesBlock, LifeInv, Absent, Working, CallLabels, CountInv

\* Each step keeps the critical sections and csWasEntered in agreement.
LEMMA LockNext ==
  ASSUME PcTypeOK, FlagTypeOK, LockInv, LifeInv, [SyncNext]_syncVars
  PROVE  LockInv'
<1> USE DEF PcTypeOK, FlagTypeOK, LockInv, UsesBlock, LifeInv, Working, Absent, Gone,
        Quiet, Leaving, Started, Starting, Running, Stopped, CallLabels, NextLabels,
        StopLabels, Goto, flagVars, lockVars, countVars, lifeVars
<1>1. CASE Create
  BY <1>1 DEF Create, CreateOk, CreateFails
<1>2. CASE InitMt \/ DestructBegin
  BY <1>2 DEF InitMt, DestructBegin
<1>3. CASE LzGetNextBlock
  BY <1>3 DEF LzGetNextBlock, GetNextBlock, StartProducer, FreeCurrentBlock, Signal,
      UnlockBuffer
<1>4. CASE ReleaseStream
  BY <1>4 DEF ReleaseStream, StopWriting, StopNothing, StopBegin, UnlockBuffer
<1>5. CASE NextRelease("lz", "bt") \/ NextWait("lz", "bt") \/ NextLock("lz", "bt", "using")
  BY <1>5 DEF NextRelease, NextWait, NextLock, LockBuffer
<1>6. CASE StopRelease("lz", "bt") \/ StopWait("lz", "bt", "idle")
  BY <1>6 DEF StopRelease, StopWait, Consume
<1>7. CASE DestructStep
  BY <1>7 DEF DestructStep, SendExit, Join, NothingToJoin, Signal
<1>8. CASE WaitStart("hash", "need") \/ ReportStopped("hash")
  BY <1>8 DEF WaitStart, ReportStopped, Consume, Signal
<1>9. CASE HashEnterBt \/ HashEnterHash \/ HashMove
  BY <1>9 DEF HashEnterBt, HashEnterHash, HashMove
<1>10. CASE WaitFree("hash", "need") \/ HashCheck \/ Publish("hash", "fill", "need")
  BY <1>10 DEF WaitFree, HashCheck, Publish
<1>11. CASE WaitStart("bt", "free") \/ ReportStopped("bt")
  BY <1>11 DEF WaitStart, ReportStopped, Consume, Signal
<1>12. CASE WaitFree("bt", "free") \/ BtCheck
  BY <1>12 DEF WaitFree, BtCheck
<1>13. CASE BtLock \/ BtUnlock \/ BtPublish
  BY <1>13 DEF BtLock, BtUnlock, BtPublish, Publish, LockBuffer, UnlockBuffer
<1>14. CASE BtGetNextBlock
  BY <1>14 DEF BtGetNextBlock, GetNextBlock, StartProducer, FreeCurrentBlock, Signal,
      UnlockBuffer
<1>15. CASE NextRelease("bt", "hash") \/ NextWait("bt", "hash") \/ NextLock("bt", "hash", "fill")
  BY <1>15 DEF NextRelease, NextWait, NextLock, LockBuffer
<1>16. CASE BtStop
  BY <1>16 DEF BtStop, StopWriting, StopNothing, StopBegin, UnlockBuffer
<1>17. CASE StopRelease("bt", "hash") \/ StopWait("bt", "hash", "stopped")
  BY <1>17 DEF StopRelease, StopWait, Consume
<1>18. CASE UNCHANGED syncVars
  BY <1>18 DEF syncVars
<1> QED BY <1>1, <1>2, <1>3, <1>4, <1>5, <1>6, <1>7, <1>8, <1>9, <1>10, <1>11, <1>12,
      <1>13, <1>14, <1>15, <1>16, <1>17, <1>18 DEF SyncNext, LzChoice, Finished,
      LzCallStep, HashStep, BtStep

\* Each step keeps the producers in the stage of life that the place of lz implies.
LEMMA LifeNext ==
  ASSUME PcTypeOK, FlagTypeOK, LockInv, LifeInv, [SyncNext]_syncVars
  PROVE  LifeInv'
<1> USE DEF PcTypeOK, FlagTypeOK, LockInv, UsesBlock, LifeInv, Working, Absent, Gone,
        Quiet, Leaving, Started, Starting, Running, Stopped, CallLabels, NextLabels,
        StopLabels, Goto, flagVars, lockVars, countVars, lifeVars
<1>1. CASE Create
  BY <1>1 DEF Create, CreateOk, CreateFails
<1>2. CASE InitMt \/ DestructBegin
  BY <1>2 DEF InitMt, DestructBegin
<1>3. CASE LzGetNextBlock
  BY <1>3 DEF LzGetNextBlock, GetNextBlock, StartProducer, FreeCurrentBlock, Signal,
      UnlockBuffer
<1>4. CASE ReleaseStream
  BY <1>4 DEF ReleaseStream, StopWriting, StopNothing, StopBegin, UnlockBuffer
<1>5. CASE NextRelease("lz", "bt") \/ NextWait("lz", "bt") \/ NextLock("lz", "bt", "using")
  BY <1>5 DEF NextRelease, NextWait, NextLock, LockBuffer
<1>6. CASE StopRelease("lz", "bt") \/ StopWait("lz", "bt", "idle")
  BY <1>6 DEF StopRelease, StopWait, Consume
<1>7. CASE DestructStep
  BY <1>7 DEF DestructStep, SendExit, Join, NothingToJoin, Signal
<1>8. CASE WaitStart("hash", "need") \/ ReportStopped("hash")
  BY <1>8 DEF WaitStart, ReportStopped, Consume, Signal
<1>9. CASE HashEnterBt \/ HashEnterHash \/ HashMove
  BY <1>9 DEF HashEnterBt, HashEnterHash, HashMove
<1>10. CASE WaitFree("hash", "need") \/ HashCheck \/ Publish("hash", "fill", "need")
  BY <1>10 DEF WaitFree, HashCheck, Publish
<1>11. CASE WaitStart("bt", "free") \/ ReportStopped("bt")
  BY <1>11 DEF WaitStart, ReportStopped, Consume, Signal
<1>12. CASE WaitFree("bt", "free") \/ BtCheck
  BY <1>12 DEF WaitFree, BtCheck
<1>13. CASE BtLock \/ BtUnlock \/ BtPublish
  BY <1>13 DEF BtLock, BtUnlock, BtPublish, Publish, LockBuffer, UnlockBuffer
<1>14. CASE BtGetNextBlock
  BY <1>14 DEF BtGetNextBlock, GetNextBlock, StartProducer, FreeCurrentBlock, Signal,
      UnlockBuffer
<1>15. CASE NextRelease("bt", "hash") \/ NextWait("bt", "hash") \/ NextLock("bt", "hash", "fill")
  BY <1>15 DEF NextRelease, NextWait, NextLock, LockBuffer
<1>16. CASE BtStop
  BY <1>16 DEF BtStop, StopWriting, StopNothing, StopBegin, UnlockBuffer
<1>17. CASE StopRelease("bt", "hash") \/ StopWait("bt", "hash", "stopped")
  BY <1>17 DEF StopRelease, StopWait, Consume
<1>18. CASE UNCHANGED syncVars
  BY <1>18 DEF syncVars
<1> QED BY <1>1, <1>2, <1>3, <1>4, <1>5, <1>6, <1>7, <1>8, <1>9, <1>10, <1>11, <1>12,
      <1>13, <1>14, <1>15, <1>16, <1>17, <1>18 DEF SyncNext, LzChoice, Finished,
      LzCallStep, HashStep, BtStep

\* Each step keeps the balance of blocks.
LEMMA CountNext ==
  ASSUME PcTypeOK, FlagTypeOK, CountTypeOK, IsSemaphore(freeSemaphore),
         IsSemaphore(filledSemaphore), LifeInv, CountInv, [SyncNext]_syncVars
  PROVE  CountInv'
<1> USE NumBlocksAssumption DEF IsSemaphore, PcTypeOK, FlagTypeOK, CountTypeOK, LifeInv,
        CountInv, Balanced, Fresh, Published, Held, Taken, Freed, NumBlocks, Release,
        Posted, Wait, Working, Absent, Gone, Quiet, Leaving, Started, Starting, Running,
        Stopped, CallLabels, NextLabels, StopLabels, Goto, flagVars, lockVars, countVars,
        lifeVars
<1>1. CASE Create
  BY <1>1 DEF Create, CreateOk, CreateFails
<1>2. CASE InitMt \/ DestructBegin
  BY <1>2 DEF InitMt, DestructBegin
<1>3. CASE LzGetNextBlock
  <2>1. CASE StartProducer("lz", "bt")
    BY <1>3, <2>1 DEF LzGetNextBlock, StartProducer, Signal
  <2>2. CASE FreeCurrentBlock("lz", "bt")
    BY <1>3, <2>2 DEF LzGetNextBlock, FreeCurrentBlock, UnlockBuffer
  <2> QED BY <1>3, <2>1, <2>2 DEF LzGetNextBlock, GetNextBlock
<1>4. CASE ReleaseStream
  <2>1. CASE StopNothing("lz", "bt", "idle")
    BY <1>4, <2>1 DEF ReleaseStream, StopNothing
  <2>2. CASE StopBegin("lz", "bt")
    BY <1>4, <2>2 DEF ReleaseStream, StopBegin
  <2> QED BY <1>4, <2>1, <2>2 DEF ReleaseStream, StopWriting
<1>5. CASE NextRelease("lz", "bt") \/ NextWait("lz", "bt") \/ NextLock("lz", "bt", "using")
  <2>1. CASE NextRelease("lz", "bt")
    BY <1>5, <2>1 DEF NextRelease
  <2>2. CASE NextWait("lz", "bt")
    BY <1>5, <2>2 DEF NextWait
  <2>3. CASE NextLock("lz", "bt", "using")
    BY <1>5, <2>3 DEF NextLock
  <2> QED BY <1>5, <2>1, <2>2, <2>3
<1>6. CASE StopRelease("lz", "bt") \/ StopWait("lz", "bt", "idle")
  <2>1. CASE StopRelease("lz", "bt")
    BY <1>6, <2>1 DEF StopRelease
  <2>2. CASE StopWait("lz", "bt", "idle")
    BY <1>6, <2>2 DEF StopWait, Consume
  <2> QED BY <1>6, <2>1, <2>2
<1>7. CASE DestructStep
  BY <1>7 DEF DestructStep, SendExit, Join, NothingToJoin, Signal
<1>8. CASE WaitStart("hash", "need") \/ ReportStopped("hash")
  <2>1. CASE WaitStart("hash", "need")
    BY <1>8, <2>1 DEF WaitStart, Consume
  <2>2. CASE ReportStopped("hash")
    BY <1>8, <2>2 DEF ReportStopped, Signal
  <2> QED BY <1>8, <2>1, <2>2
<1>9. CASE HashEnterBt \/ HashEnterHash \/ HashMove
  BY <1>9 DEF HashEnterBt, HashEnterHash, HashMove
<1>10. CASE WaitFree("hash", "need") \/ HashCheck \/ Publish("hash", "fill", "need")
  BY <1>10 DEF WaitFree, HashCheck, Publish
<1>11. CASE WaitStart("bt", "free") \/ ReportStopped("bt")
  <2>1. CASE WaitStart("bt", "free")
    BY <1>11, <2>1 DEF WaitStart, Consume
  <2>2. CASE ReportStopped("bt")
    BY <1>11, <2>2 DEF ReportStopped, Signal
  <2> QED BY <1>11, <2>1, <2>2
<1>12. CASE WaitFree("bt", "free") \/ BtCheck
  <2>1. CASE WaitFree("bt", "free")
    <3>0. SUFFICES ASSUME Working PROVE CountInv'
      BY <2>1 DEF WaitFree
    <3>1. ~needStart["bt"] => Balanced("bt")'
      BY <2>1, <3>0 DEF WaitFree
    <3>2. ~needStart["hash"] => Balanced("hash")'
      BY <2>1, <3>0 DEF WaitFree
    <3> QED BY <2>1, <3>0, <3>1, <3>2 DEF WaitFree
  <2>2. CASE BtCheck
    BY <1>12, <2>2 DEF BtCheck
  <2> QED BY <1>12, <2>1, <2>2
<1>13. CASE BtLock \/ BtUnlock \/ BtPublish
  <2>1. CASE BtLock
    BY <1>13, <2>1 DEF BtLock
  <2>2. CASE BtUnlock
    BY <1>13, <2>2 DEF BtUnlock
  <2>3. CASE BtPublish
    <3>0. SUFFICES ASSUME Working PROVE CountInv'
      BY <2>3 DEF BtPublish, Publish
    <3>1. ~needStart["bt"] => Balanced("bt")'
      BY <2>3, <3>0 DEF BtPublish, Publish
    <3>2. ~needStart["hash"] => Balanced("hash")'
      BY <2>3, <3>0 DEF BtPublish, Publish
    <3> QED BY <2>3, <3>0, <3>1, <3>2 DEF BtPublish, Publish
  <2> QED BY <1>13, <2>1, <2>2, <2>3
<1>14. CASE BtGetNextBlock
  BY <1>14 DEF BtGetNextBlock, GetNextBlock, StartProducer, FreeCurrentBlock, Signal,
      UnlockBuffer
<1>15. CASE NextRelease("bt", "hash") \/ NextWait("bt", "hash") \/ NextLock("bt", "hash", "fill")
  <2>1. CASE NextRelease("bt", "hash")
    <3>0. SUFFICES ASSUME Working PROVE CountInv'
      BY <2>1 DEF NextRelease
    <3>1. freeSemaphore["hash"] < NumBlocks("hash")
      <4>1. Balanced("hash") /\ pc["bt"] = "nextRelease"
        BY <2>1, <3>0 DEF NextRelease
      <4>2. freeSemaphore["hash"] + Published("hash") + Held("hash")
              = NumBlocks("hash") + numProcessedBlocks["hash"] - 2
        BY <4>1
      <4>3. Published("hash") >= numProcessedBlocks["hash"] - 1
        BY <4>1
      <4> QED BY <4>2, <4>3
    <3>2. freeSemaphore' = [freeSemaphore EXCEPT !["hash"] = @ + 1]
      BY <2>1, <3>1 DEF NextRelease
    <3>3. ~needStart["bt"] => Balanced("bt")'
      BY <2>1, <3>0, <3>2 DEF NextRelease
    <3>4. ~needStart["hash"] => Balanced("hash")'
      BY <2>1, <3>0, <3>2 DEF NextRelease
    <3> QED BY <2>1, <3>0, <3>2, <3>3, <3>4 DEF NextRelease
  <2>2. CASE NextWait("bt", "hash")
    BY <1>15, <2>2 DEF NextWait
  <2>3. CASE NextLock("bt", "hash", "fill")
    BY <1>15, <2>3 DEF NextLock
  <2> QED BY <1>15, <2>1, <2>2, <2>3
<1>16. CASE BtStop
  BY <1>16 DEF BtStop, StopWriting, StopNothing, StopBegin, UnlockBuffer
<1>17. CASE StopRelease("bt", "hash") \/ StopWait("bt", "hash", "stopped")
  BY <1>17 DEF StopRelease, StopWait, Consume
<1>18. CASE UNCHANGED syncVars
  BY <1>18 DEF syncVars
<1> QED BY <1>1, <1>2, <1>3, <1>4, <1>5, <1>6, <1>7, <1>8, <1>9, <1>10, <1>11, <1>12,
      <1>13, <1>14, <1>15, <1>16, <1>17, <1>18 DEF SyncNext, LzChoice, Finished,
      LzCallStep, HashStep, BtStep

Inv == TypeOK /\ LockInv /\ LifeInv /\ CountInv

\* The invariant holds in every state.
LEMMA InvHolds == SyncSpec => []Inv
<1>1. SyncInit => Inv
  BY TypeInit, InvInit DEF Inv
<1>2. Inv /\ [SyncNext]_syncVars => Inv'
  BY PcTypeNext, FlagTypeNext, CountTypeNext, SemaphoresNext, LockNext, LifeNext, CountNext
  DEF Inv, TypeOK
<1> QED BY <1>1, <1>2, PTL DEF SyncSpec
-----------------------------------------------------------------------------
(* The properties. *)

(* MatchFinder_MoveBlock never runs while a consumer uses its block.           *)
THEOREM MoveIsExclusive == SyncSpec => []MoveExcludesReaders
<1>1. Inv => MoveExcludesReaders
  BY DEF Inv, LockInv, MoveExcludesReaders
<1> QED BY <1>1, InvHolds, PTL

(* csWasEntered is true of the critical section: no thread enters one it is in *)
(* or leaves one it is not in.                                                 *)
THEOREM LocksAreDisciplined == SyncSpec => []LockDiscipline
<1>1. Inv => LockDiscipline
  BY DEF Inv, TypeOK, PcTypeOK, FlagTypeOK, LockInv, LifeInv, LockDiscipline, UsesBlock, CallLabels
<1> QED BY <1>1, InvHolds, PTL

(* When StopWriting(btSync) has returned, both producers wait for canStart.    *)
THEOREM StoppingStopsBoth == SyncSpec => []StopStopsBoth
<1>1. Inv => StopStopsBoth
  BY DEF Inv, TypeOK, PcTypeOK, FlagTypeOK, LockInv, LifeInv, StopStopsBoth, UsesBlock, Quiet
<1> QED BY <1>1, InvHolds, PTL

(* A producer ends only in MtSync_Destruct.                                    *)
THEOREM ProducersExitLast == SyncSpec => []ExitOnlyOnDestruct
<1>1. Inv => ExitOnlyOnDestruct
  BY DEF Inv, TypeOK, PcTypeOK, LifeInv, ExitOnlyOnDestruct, LzLabels, CallLabels, Working,
         Absent, Quiet, Started, Starting, Running, Stopped, Leaving
<1> QED BY <1>1, InvHolds, PTL

(* No semaphore is released beyond its maximum.                                *)
THEOREM PostsAreNotLost == SyncSpec => []NoLostPost
<1>1. Inv => NoLostPost
  BY NumBlocksAssumption DEF Inv, TypeOK, PcTypeOK, FlagTypeOK, CountTypeOK, IsSemaphore, LifeInv,
     CountInv, Balanced, Published, Held, Taken, Freed, NumBlocks, Working, Absent, Gone, Quiet,
     Leaving, Started, Starting, Running, Stopped, NextLabels, StopLabels, CallLabels, LzLabels,
     NoLostPost
<1> QED BY <1>1, InvHolds, PTL

\* Fewer than n neighbouring blocks are in different slots of a ring of n.
LEMMA SlotsDiffer ==
  ASSUME NEW n \in Nat \ {0}, NEW i \in Nat, NEW j \in Nat, i < j, j - i < n
  PROVE  i % n # j % n
<1> SUFFICES ASSUME i % n = j % n PROVE FALSE
  OBVIOUS
<1> DEFINE d == (j \div n) - (i \div n)
<1>1. d \in Int
  OBVIOUS
<1>2. j - i = n * d
  <2>1. i = n * (i \div n) + (i % n) /\ i \div n \in Int
    OBVIOUS
  <2>2. j = n * (j \div n) + (j % n) /\ j \div n \in Int
    OBVIOUS
  <2>3. n * d = n * (j \div n) - n * (i \div n)
    BY <2>1, <2>2
  <2> QED BY <2>1, <2>2, <2>3
<1> HIDE DEF d
<1>3. CASE d <= 0
  <2>1. n * d <= 0
    BY <1>1, <1>3
  <2> QED BY <1>2, <2>1
<1>4. CASE d >= 1
  <2>1. n * d >= n
    BY <1>1, <1>4
  <2> QED BY <1>2, <2>1
<1> QED BY <1>1, <1>3, <1>4

(* The producer writes only into slots whose blocks were freed, and a consumer *)
(* uses only published blocks.                                                 *)
THEOREM BlocksAreNotOverwritten == SyncSpec => []NoOverwrite
<1>1. Inv => NoOverwrite
  <2> SUFFICES ASSUME Inv, NEW s \in Syncs, ~needStart[s], pc[Consumer(s)] \notin StopLabels
               PROVE  /\ OwnsBlock(s) => numProcessedBlocks[s] - 1 < blockIndex[s]
                      /\ FillsBlock(s) => \A i \in FirstOwned(s) .. blockIndex[s] - 1 :
                           Slot(s, i) # Slot(s, blockIndex[s])
    BY DEF NoOverwrite, StopLabels
  <2>types. PcTypeOK /\ FlagTypeOK /\ CountTypeOK /\ IsSemaphore(freeSemaphore)
            /\ IsSemaphore(filledSemaphore) /\ NumBlocks(s) \in Nat \ {0}
    BY NumBlocksAssumption DEF Inv, TypeOK, NumBlocks
  <2>working. Working \/ ~(OwnsBlock(s) \/ FillsBlock(s))
    BY <2>types DEF Inv, LifeInv, OwnsBlock, UsesBlock, FillsBlock, PcTypeOK, LzLabels, CallLabels,
       Working, Absent, Gone, Quiet, Leaving
  <2>balanced. Working => Balanced(s) /\ (Started(s) \/ Quiet(s))
    BY DEF Inv, CountInv, LifeInv
  <2>1. ASSUME OwnsBlock(s) PROVE numProcessedBlocks[s] - 1 < blockIndex[s]
    BY <2>1, <2>types, <2>working, <2>balanced
    DEF OwnsBlock, UsesBlock, Balanced, Taken, Published, CountTypeOK, IsSemaphore
  <2>2. ASSUME FillsBlock(s), NEW i \in FirstOwned(s) .. blockIndex[s] - 1
        PROVE  Slot(s, i) # Slot(s, blockIndex[s])
    <3>1. numProcessedBlocks[s] \in Nat \ {0} /\ blockIndex[s] \in Nat
      BY <2>2, <2>types, <2>working, <2>balanced DEF Balanced, CountTypeOK
    <3>2. Held(s) = 1 /\ Published(s) = blockIndex[s]
      BY <2>2 DEF FillsBlock, Held, Published
    <3>3. Freed(s) <= numProcessedBlocks[s] - 1
      BY <3>1 DEF Freed, StopLabels
    <3>4. blockIndex[s] - (numProcessedBlocks[s] - 1) < NumBlocks(s)
      <4> QED BY <2>2, <2>types, <2>working, <2>balanced, <3>1, <3>2, <3>3
              DEF Balanced, IsSemaphore, Freed
    <3> QED BY <2>2, <2>types, <3>1, <3>4, SlotsDiffer DEF Slot, FirstOwned
  <2> QED BY <2>1, <2>2
<1> QED BY <1>1, InvHolds, PTL
-----------------------------------------------------------------------------
(* The data.                                                               *)

\* A step of the match finder is a step of the handshake or leaves it alone.
LEMMA StepIsSyncStep == [Next]_vars => [SyncNext]_syncVars
<1> SUFFICES ASSUME [Next]_vars PROVE [SyncNext]_syncVars
  OBVIOUS
<1> USE DEF SyncNext, LzChoice
<1>1. CASE LzCalls
  BY <1>1 DEF LzCalls, InitStream, LzAsks, LzTakesPosition
<1>2. CASE LzStep
  BY <1>2 DEF LzStep, LzReadsHeader, LzCallStep
<1>3. CASE HashThread
  BY <1>3 DEF HashThread, HashMovesWindow, HashFillsBlock, HashStep
<1>4. CASE BtThread
  BY <1>4 DEF BtThread, BtBeginsBlock, BtAsks, BtReadsHeader, BtGetMatches, BtEndsBlock, BtStep
<1>5. CASE Finished \/ UNCHANGED vars
  BY <1>5 DEF Finished, vars
<1> QED BY <1>1, <1>2, <1>3, <1>4, <1>5 DEF Next

(* The match finder implements the handshakes of MtSync: the data only decide  *)
(* which of the steps that MtSync allows is taken.                             *)
THEOREM ImplementsSync == Spec => SyncSpec
<1>1. Init => SyncInit
  BY DEF Init
<1> QED BY <1>1, StepIsSyncStep, PTL DEF Spec, SyncSpec

(* No thread of the match finder reads the window while it is moved, no post   *)
(* is lost, and no block is overwritten while it is in use.                    *)
THEOREM FinderIsSafe == Spec => [](MoveExcludesReaders /\ NoLostPost /\ NoOverwrite)
  BY ImplementsSync, MoveIsExclusive, PostsAreNotLost, BlocksAreNotOverwritten, PTL
-----------------------------------------------------------------------------
(* The pointers into the window. *)

Window == [base : Int, pos : Int, streamPos : Int, len : Int, ended : BOOLEAN, failed : BOOLEAN]
Block  == [from : Int, num : Int, avail : Int]
LzState == [pos : Int, ptr : Int, rem : Int, avail : Int, eof : BOOLEAN]
BtState == [pos : Int, ptr : Int, sent : Int, hashRem : Int, hashNumAvail : Int,
            block : Block, full : BOOLEAN]

RingsTyped ==
  /\ hashBuf \in [0 .. kMtHashNumBlocks - 1 -> Block]
  /\ btBuf \in [0 .. kMtBtNumBlocks - 1 -> Block]

PointerInv ==
  /\ mf \in Window /\ lz \in LzState /\ bt \in BtState
  /\ mf.base + lz.ptr = lz.pos
  /\ mf.base + bt.ptr = bt.pos

DataInv == RingsTyped /\ PointerInv

\* The sizes of the window are integers.
LEMMA SizesTyped ==
  /\ keepSizeBefore \in Int /\ keepSizeAfter \in Int /\ blockSize \in Int
  BY SizesAssumption, NumBlocksAssumption DEF keepSizeBefore, keepSizeAfter, blockSize

\* MatchFinder_ReadIfRequired moves nothing that is in the window.
LEMMA ReadKeepsBase ==
  ASSUME NEW w \in Window, NEW v \in ReadIfRequired(w)
  PROVE  v \in Window /\ v.base = w.base
<1> DEFINE most == Smaller(Room(w), w.len - w.streamPos)
           least == AtLeast0(keepSizeAfter + 1 - Avail(w))
           Read(n) == [w EXCEPT !.streamPos = @ + n]
<1>1. most \in Int /\ least \in Int
  BY SizesTyped DEF Smaller, AtLeast0, Room, Avail, Window
<1>2. w.len - w.streamPos \in Int
  BY DEF Window
<1>3. \/ v = w
      \/ \E n \in {least, most} : v = Read(n)
      \/ \E n \in {w.len - w.streamPos} : v = [Read(n) EXCEPT !.ended = TRUE]
      \/ \E n \in 0 .. most : v = [Read(n) EXCEPT !.failed = TRUE]
  BY Zenon DEF ReadIfRequired, ReadBlock
<1>4. PICK n \in Int :
         v \in {w, Read(n), [Read(n) EXCEPT !.ended = TRUE], [Read(n) EXCEPT !.failed = TRUE]}
  <2> HIDE DEF most, least, Read
  <2> QED BY <1>1, <1>2, <1>3
<1>5. Read(n) \in Window /\ Read(n).base = w.base
  BY DEF Window
<1>6. /\ [Read(n) EXCEPT !.ended = TRUE] \in Window
      /\ [Read(n) EXCEPT !.ended = TRUE].base = w.base
      /\ [Read(n) EXCEPT !.failed = TRUE] \in Window
      /\ [Read(n) EXCEPT !.failed = TRUE].base = w.base
  <2> HIDE DEF Read
  <2> QED BY <1>5 DEF Window
<1> QED
  <2> HIDE DEF Read
  <2> QED BY <1>4, <1>5, <1>6

\* The slot of a block is in its ring.
LEMMA SlotInRing ==
  ASSUME NEW i \in Int
  PROVE  /\ Slot("hash", i) \in 0 .. kMtHashNumBlocks - 1
         /\ Slot("bt", i) \in 0 .. kMtBtNumBlocks - 1
  BY NumBlocksAssumption DEF Slot, NumBlocks

\* What the hash thread writes is a block, and it does not move the window's base.
LEMMA HashBlockTyped ==
  ASSUME NEW w \in Window
  PROVE  HashBlock(w) \in Block /\ AfterHashBlock(w) \in Window /\ AfterHashBlock(w).base = w.base
<1>1. Avail(w) \in Int /\ HashBlock(w).num \in Int /\ HashBlock(w) \in Block
  BY SizesAssumption DEF Avail, HashBlock, Smaller, Window, Block
<1> QED BY <1>1 DEF AfterHashBlock, Window

\* Initially the rings are empty and every pointer is at the first byte.
LEMMA DataInit == Init => DataInv
  BY NumBlocksAssumption
  DEF Init, DataInv, RingsTyped, PointerInv, NewWindow, NewBt, NewLz, EmptyBlock,
      Window, Block, LzState, BtState

\* The block a consumer works on.
LEMMA CurrentBlockTyped ==
  ASSUME CountTypeOK, RingsTyped
  PROVE  hashBuf[CurrentSlot("hash")] \in Block /\ btBuf[CurrentSlot("bt")] \in Block
<1>1. numProcessedBlocks["hash"] - 1 \in Int /\ numProcessedBlocks["bt"] - 1 \in Int
  BY DEF CountTypeOK, Syncs
<1>2. CurrentSlot("hash") \in 0 .. kMtHashNumBlocks - 1 /\ CurrentSlot("bt") \in 0 .. kMtBtNumBlocks - 1
  BY <1>1, SlotInRing DEF CurrentSlot
<1> QED BY <1>2 DEF RingsTyped

\* The rings hold blocks.
LEMMA RingsNext ==
  ASSUME CountTypeOK, DataInv, [Next]_vars
  PROVE  RingsTyped'
<1> USE DEF DataInv
<1>1. \A s \in Syncs : blockIndex[s] \in Int
  BY DEF CountTypeOK
<1>2. CASE HashFillsBlock
  <2>1. PICK w \in ReadIfRequired(mf) :
          hashBuf' = [hashBuf EXCEPT ![Slot("hash", blockIndex["hash"])] = HashBlock(w)]
    BY <1>2 DEF HashFillsBlock
  <2>2. HashBlock(w) \in Block
    BY ReadKeepsBase, HashBlockTyped DEF PointerInv
  <2>3. btBuf' = btBuf
    BY <1>2 DEF HashFillsBlock
  <2> QED BY <1>1, <2>1, <2>2, <2>3, SlotInRing DEF RingsTyped
<1>3. CASE BtEndsBlock
  <2>1. bt.block \in Block
    BY DEF PointerInv, BtState
  <2> QED BY <1>1, <1>3, <2>1, SlotInRing DEF RingsTyped, BtEndsBlock
<1>4. CASE UNCHANGED <<hashBuf, btBuf>>
  BY <1>4 DEF RingsTyped
<1>5. \/ HashFillsBlock \/ BtEndsBlock \/ UNCHANGED <<hashBuf, btBuf>>
  BY DEF Next, vars, dataVars, LzCalls, LzStep, HashThread, BtThread, InitStream, LzAsks,
     LzTakesPosition, LzReadsHeader, HashMovesWindow, BtBeginsBlock, BtAsks, BtReadsHeader,
     BtGetMatches
<1> QED BY <1>2, <1>3, <1>4, <1>5

\* An update of a block.
LEMMA BlockUpdated ==
  ASSUME NEW b \in Block, NEW m \in Int, NEW n \in Int
  PROVE  [b EXCEPT !.avail = m, !.num = @ + n] \in Block
<1>1. PICK c : c = [b EXCEPT !.avail = m, !.num = @ + n]
  OBVIOUS
<1>2. c = [from |-> b.from, num |-> b.num + n, avail |-> m]
  BY <1>1 DEF Block
<1>3. c \in Block
  BY <1>2 DEF Block
<1> QED BY <1>1, <1>3

\* The types of the fields of bt.
LEMMA BtFields ==
  ASSUME PointerInv
  PROVE  /\ {bt.pos, bt.ptr, bt.sent, bt.hashRem, bt.hashNumAvail} \subseteq Int
         /\ bt.block \in Block /\ bt.full \in BOOLEAN
         /\ {bt.block.from, bt.block.num, bt.block.avail} \subseteq Int
  BY DEF PointerInv, BtState, Block

\* No step takes a pointer away from its position.
LEMMA PointerNext ==
  ASSUME CountTypeOK, DataInv, [Next]_vars
  PROVE  PointerInv'
<1> USE DEF DataInv
<1>1. CASE InitStream
  <2>1. \E len \in Nat : mf' = NewWindow(len)
    BY <1>1, SizesAssumption DEF InitStream
  <2> QED
    BY <1>1, <2>1
    DEF InitStream, PointerInv, NewWindow, NewBt, NewLz, EmptyBlock, Window, Block, LzState, BtState
<1>2. CASE LzReadsHeader
  BY <1>2, CurrentBlockTyped DEF LzReadsHeader, PointerInv, LzState, Block
<1>3. CASE LzTakesPosition
  <2>1. mf.base \in Int /\ {lz.pos, lz.ptr, lz.rem, lz.avail} \subseteq Int /\ lz.eof \in BOOLEAN
    BY DEF PointerInv, Window, LzState
  <2>2. lz' = [pos |-> lz.pos + 1, ptr |-> lz.ptr + 1, rem |-> lz.rem - 1,
               avail |-> lz.avail - 1, eof |-> lz.eof]
    BY <1>3 DEF LzTakesPosition, PointerInv, LzState
  <2>3. lz' \in LzState /\ lz'.pos = lz.pos + 1 /\ lz'.ptr = lz.ptr + 1
    BY <2>1, <2>2 DEF LzState
  <2> QED BY <1>3, <2>1, <2>3 DEF LzTakesPosition, PointerInv
<1>4. CASE HashMovesWindow
  <2>1. MoveOffset(mf) \in Int
    BY SizesTyped, SizesAssumption DEF MoveOffset, PointerInv, Window
  <2> QED BY <1>4, <2>1 DEF HashMovesWindow, PointerInv, Window, LzState, BtState
<1>5. CASE HashFillsBlock
  <2>1. mf' \in Window /\ mf'.base = mf.base
    BY <1>5, ReadKeepsBase, HashBlockTyped DEF HashFillsBlock, PointerInv
  <2> QED BY <1>5, <2>1 DEF HashFillsBlock, PointerInv
<1>6. CASE BtBeginsBlock
  <2>1. [from |-> bt.sent, num |-> 0, avail |-> bt.hashNumAvail] \in Block
    BY BtFields DEF PointerInv, Block
  <2>2. PICK block \in Block : bt' = [bt EXCEPT !.block = block, !.full = FALSE]
    BY <1>6, <2>1 DEF BtBeginsBlock
  <2>3. bt' = [pos |-> bt.pos, ptr |-> bt.ptr, sent |-> bt.sent, hashRem |-> bt.hashRem,
               hashNumAvail |-> bt.hashNumAvail, block |-> block, full |-> FALSE]
    BY <2>2 DEF PointerInv, BtState
  <2>4. bt' \in BtState /\ bt'.pos = bt.pos /\ bt'.ptr = bt.ptr
    BY <2>3, BtFields DEF PointerInv, BtState
  <2> QED BY <1>6, <2>4 DEF BtBeginsBlock, PointerInv
<1>7. CASE BtReadsHeader
  <2> DEFINE heads == hashBuf[CurrentSlot("hash")]
             ends  == heads.avail < numHashBytes
             more  == IF ends THEN heads.avail ELSE 0
             left  == IF ends THEN 0 ELSE heads.avail
             block == [bt.block EXCEPT !.avail = bt.block.num + heads.avail, !.num = @ + more]
  <2>1. heads \in Block
    BY CurrentBlockTyped
  <2>2. /\ heads.num \in Int /\ heads.avail \in Int /\ more \in Int /\ left \in Int
        /\ bt.block.num + heads.avail \in Int
    BY <2>1, BtFields DEF Block
  <2>3. ends \in BOOLEAN
    BY <2>2, SizesAssumption
  <2>4. block \in Block
    BY <2>1, <2>2, BtFields, BlockUpdated
  <2>5. bt' = [pos |-> bt.pos, ptr |-> bt.ptr, sent |-> bt.sent, hashRem |-> heads.num,
               hashNumAvail |-> left, block |-> block, full |-> ends]
    BY <1>7, BtFields DEF BtReadsHeader, PointerInv, BtState, Block
  <2>6. bt' \in BtState /\ bt'.pos = bt.pos /\ bt'.ptr = bt.ptr
    <3> HIDE DEF heads, ends, left, block
    <3> QED BY <2>2, <2>3, <2>4, <2>5, BtFields DEF PointerInv, BtState
  <2> QED BY <1>7, <2>6 DEF BtReadsHeader, PointerInv
<1>8. CASE BtGetMatches
  <2>1. mf.base \in Int
    BY DEF PointerInv, Window
  <2>2. Smaller(bt.hashRem, MaxBtPositions - bt.block.num) \in Int
    BY BtFields, SizesAssumption DEF PointerInv, Smaller, MaxBtPositions
  <2>3. PICK n \in 1 .. Smaller(bt.hashRem, MaxBtPositions - bt.block.num), full \in BOOLEAN :
          bt' = [bt EXCEPT !.pos = @ + n, !.ptr = @ + n, !.hashRem = @ - n,
                           !.hashNumAvail = @ - n, !.block.num = @ + n, !.full = full]
    BY <1>8, Zenon DEF BtGetMatches
  <2>4. n \in Int /\ bt.block.num + n \in Int
    BY <2>2, BtFields DEF PointerInv
  <2>5. [bt.block EXCEPT !.num = @ + n] \in Block
    BY <2>4, BtFields DEF PointerInv, Block
  <2>6. PICK block \in Block :
          bt' = [pos |-> bt.pos + n, ptr |-> bt.ptr + n, sent |-> bt.sent,
                 hashRem |-> bt.hashRem - n, hashNumAvail |-> bt.hashNumAvail - n,
                 block |-> block, full |-> full]
    BY <2>3, <2>4, <2>5 DEF PointerInv, BtState
  <2>7. bt' \in BtState /\ bt'.pos = bt.pos + n /\ bt'.ptr = bt.ptr + n
    BY <2>4, <2>6, BtFields DEF PointerInv, BtState
  <2> QED BY <1>8, <2>1, <2>4, <2>7, BtFields DEF BtGetMatches, PointerInv
<1>9. CASE BtEndsBlock
  BY <1>9 DEF BtEndsBlock, PointerInv, BtState, Block
<1>10. CASE UNCHANGED <<mf, bt, lz>>
  BY <1>10 DEF PointerInv
<1> QED
  BY <1>1, <1>2, <1>3, <1>4, <1>5, <1>6, <1>7, <1>8, <1>9, <1>10
  DEF Next, vars, dataVars, LzCalls, LzStep, HashThread, BtThread, LzAsks, BtAsks

(* pointerToCurPos and buffer stay with the positions of their threads, for    *)
(* any sizes and however often the window is moved.                            *)
THEOREM PointersFollow == Spec => []PointersFollowWindow
<1>1. DataInv => PointersFollowWindow
  BY DEF DataInv, PointerInv, PointersFollowWindow
<1>2. TypeOK /\ DataInv /\ [Next]_vars => DataInv'
  BY RingsNext, PointerNext DEF DataInv, TypeOK
<1> QED BY <1>1, <1>2, DataInit, ImplementsSync, TypeCorrect, PTL DEF Spec
-----------------------------------------------------------------------------
(***************************************************************************)
(* The flow of positions.  Each ring holds the blocks that were made and   *)
(* not yet freed, from FirstOwned on; they follow each other without a gap *)
(* up to where their producer is, and what they announce only grows.       *)
(* Unread is the first of them whose header the consumer has not read.     *)
(***************************************************************************)
MaxHeads == kMtHashBlockSize - 2

Over    == mf.ended \/ mf.failed
Filling == pc["bt"] \in {"lock", "fill"} \cup NextLabels
BtAt    == bt.sent + (IF Filling THEN bt.block.num ELSE 0)

Unread(s) == numProcessedBlocks[s] - (IF pc[Consumer(s)] \in NextLabels THEN 1 ELSE 0)
Made(s)   == Published(s) + (IF s = "bt" /\ pc["bt"] = "publish" THEN 1 ELSE 0)

\* Where block i starts, or will start, and how far it reaches at least.
HashFrom(i)  == IF i < Made("hash") THEN hashBuf[Slot("hash", i)].from ELSE mf.pos
BtFrom(i)    == IF i < Made("bt") THEN btBuf[Slot("bt", i)].from ELSE bt.sent
HashReach(i) == IF i < Made("hash")
                THEN hashBuf[Slot("hash", i)].from + hashBuf[Slot("hash", i)].avail
                ELSE mf.streamPos
BtReach(i)   == IF i < Made("bt")
                THEN btBuf[Slot("bt", i)].from + btBuf[Slot("bt", i)].avail
                ELSE BtAt + bt.hashNumAvail

\* The positions that a hash block stands for: a short one for all the bytes left.
Short(h)   == h.avail < numHashBytes
Covered(h) == IF Short(h) THEN h.avail ELSE h.num

HashBlockInv(i) ==
  LET h == hashBuf[Slot("hash", i)] IN
  /\ h.num <= h.avail /\ h.num <= MaxHeads
  /\ Short(h) => h.num = 0 /\ Over /\ h.from + h.avail = mf.streamPos
  /\ h.from + Covered(h) = HashFrom(i + 1)
  /\ h.from + h.avail <= HashReach(i + 1)
  /\ h.from + h.avail <= mf.streamPos

HashFlow ==
  Working /\ ~needStart["hash"] =>
    /\ \A i \in FirstOwned("hash") .. Made("hash") - 1 : HashBlockInv(i)
    /\ BtAt + bt.hashRem = HashFrom(Unread("hash"))
    /\ BtAt + bt.hashNumAvail <= HashReach(Unread("hash"))
    /\ IF pc["bt"] \in NextLabels THEN bt.hashRem = 0
       ELSE bt.hashRem <= hashBuf[Slot("hash", FirstOwned("hash"))].num
    /\ ~Over => \A k \in FirstOwned("hash") .. Made("hash") :
                  mf.pos - HashFrom(k) <= (Made("hash") - k) * MaxHeads

BtBlockInv(i) ==
  LET b == btBuf[Slot("bt", i)] IN
  /\ b.num <= b.avail
  /\ b.num <= MaxBtPositions \/ Over
  /\ b.avail = 0 => Over /\ b.from = mf.streamPos
  /\ b.from + b.num = BtFrom(i + 1)
  /\ b.from + b.avail <= BtReach(i + 1)
  /\ b.from + b.avail <= mf.streamPos

BtFlow ==
  Working /\ ~needStart["bt"] =>
    /\ \A i \in FirstOwned("bt") .. Made("bt") - 1 : BtBlockInv(i)
    /\ lz.pos + lz.rem = BtFrom(Unread("bt"))
    /\ lz.pos + lz.avail <= BtReach(Unread("bt"))
    /\ pc["lz"] \in NextLabels => lz.rem = 0 /\ ~lz.eof
    /\ ~Over => \A k \in FirstOwned("bt") .. Made("bt") :
                  bt.sent - BtFrom(k) <= (Made("bt") - k) * MaxBtPositions

(* The bt thread, and the block it fills. *)
BtInv ==
  Working =>
    /\ bt.hashRem <= MaxHeads
    /\ bt.hashRem <= bt.hashNumAvail
    /\ BtAt + bt.hashNumAvail <= mf.streamPos
    /\ bt.pos = BtAt \/ (Over /\ bt.hashRem = 0 /\ BtAt = mf.streamPos /\ bt.pos <= BtAt)
    /\ Filling =>
         /\ bt.block.from = bt.sent
         /\ bt.block.from + bt.block.avail = BtAt + bt.hashNumAvail
         /\ bt.block.num <= MaxBtPositions \/ Over
         /\ bt.full => bt.block.num > 0 \/ (Over /\ BtAt = mf.streamPos)

LzInv ==
  Working =>
    /\ lz.rem <= lz.avail
    /\ lz.pos + lz.avail <= mf.streamPos
    /\ lz.rem <= MaxBtPositions \/ Over
    /\ lz.eof => Over /\ lz.pos = mf.streamPos

(* Before the threads are started nothing has been read. *)
Unstarted ==
  /\ needStart["hash"]
  /\ pc["bt"] = "start" => needStart["bt"] \/ canStart["bt"]
  /\ pc["bt"] \notin {"stop", "stopped"}

FreshInv ==
  Working =>
    /\ Unstarted => /\ mf.pos = 0 /\ mf.streamPos = 0 /\ ~Over
                    /\ bt.pos = 0 /\ bt.sent = 0 /\ bt.hashRem = 0 /\ bt.hashNumAvail = 0
                    /\ Filling => bt.block.num = 0 /\ ~bt.full
    /\ needStart["bt"] => lz = NewLz

(* The window. *)
WindowInv ==
  /\ mf.base <= mf.pos /\ mf.pos <= mf.streamPos /\ mf.streamPos <= mf.len
  /\ Room(mf) >= 0
  /\ mf.ended => mf.streamPos = mf.len
  /\ pc["hash"] \in {"enterHash", "move"} => NeedMove(mf)
  /\ pc["hash"] \in {"check", "fill"} => ~NeedMove(mf)

HistoryInv ==
  Working => /\ mf.base <= AtLeast0(lz.pos - historySize - keepAddBufferBefore)
             /\ mf.base <= AtLeast0(bt.pos - historySize)

(* A consumer that stops its producer has posted the block that it gives back: *)
(* the producer gets no farther than it would have.                            *)
SpareInv ==
  Working => \A s \in Syncs :
    pc[Consumer(s)] = "stopWait" /\ ~needStart[s]
      /\ pc[s] \notin {"check", "stop", "stopped", "start"} \cup StopLabels
      => freeSemaphore[s] >= 1

FlowInv ==
  DataTypeOK /\ HashFlow /\ BtFlow /\ BtInv /\ LzInv /\ FreshInv /\ WindowInv /\ HistoryInv /\ SpareInv
-----------------------------------------------------------------------------
(* What the handshakes contribute. *)

\* The blocks that were made and not freed, with the one that is being filled,
\* are different blocks of the ring.
LEMMA RingBound ==
  ASSUME Inv, SpareInv, Working, NEW s \in Syncs, ~needStart[s]
  PROVE  /\ FirstOwned(s) \in Nat /\ Made(s) \in Nat /\ Unread(s) \in Nat
         /\ FirstOwned(s) <= Unread(s) /\ Unread(s) <= FirstOwned(s) + 1 /\ Unread(s) <= Made(s)
         /\ Made(s) + (IF FillsBlock(s) THEN 1 ELSE 0) - FirstOwned(s) <= NumBlocks(s)
         /\ FillsBlock(s) => Made(s) = blockIndex[s]
<1>1. PcTypeOK /\ FlagTypeOK /\ CountTypeOK /\ IsSemaphore(freeSemaphore)
      /\ IsSemaphore(filledSemaphore) /\ NumBlocks(s) \in Nat \ {0}
  BY NumBlocksAssumption DEF Inv, TypeOK, NumBlocks
<1>2. Balanced(s) /\ Started(s)
  BY DEF Inv, CountInv, LifeInv, Quiet
<1>3. numProcessedBlocks[s] \in Nat \ {0} /\ blockIndex[s] \in Nat /\ freeSemaphore[s] \in Nat
      /\ filledSemaphore[s] \in Nat
  BY <1>1, <1>2 DEF Balanced, CountTypeOK, IsSemaphore
<1>4. Published(s) \in Nat /\ Made(s) \in Nat
  BY <1>3 DEF Published, Made
<1>5. FillsBlock(s) => Published(s) = blockIndex[s] /\ Held(s) = 1 /\ Made(s) = blockIndex[s]
  BY <1>3 DEF FillsBlock, Published, Held, Made
<1>6. s = "bt" /\ pc["bt"] = "publish" => Held(s) = 1 /\ ~FillsBlock(s)
  BY DEF Held, FillsBlock
<1>7. freeSemaphore[s] + Published(s) + Held(s) = NumBlocks(s) + Freed(s)
  BY <1>2 DEF Balanced
<1>8. pc[Consumer(s)] # "stopWait" => Freed(s) <= numProcessedBlocks[s] - 1
  BY <1>3 DEF Freed, StopLabels
<1>9. Held(s) \in {0, 1}
  BY DEF Held
<1>10. Made(s) + (IF FillsBlock(s) THEN 1 ELSE 0) <= Published(s) + Held(s)
  BY <1>3, <1>4, <1>5, <1>6, <1>9 DEF Made
<1>13. /\ FirstOwned(s) \in Nat /\ Unread(s) \in Nat
       /\ FirstOwned(s) <= Unread(s) /\ Unread(s) <= FirstOwned(s) + 1
  BY <1>3 DEF FirstOwned, Unread
<1>14. Unread(s) <= Made(s)
  BY <1>2, <1>3, <1>4, <1>13 DEF Balanced, Taken, Unread, NextLabels, Made
<1>11. CASE pc[Consumer(s)] # "stopWait"
  BY <1>1, <1>3, <1>4, <1>5, <1>7, <1>8, <1>9, <1>10, <1>11, <1>13, <1>14 DEF FirstOwned, Freed
<1>12. CASE pc[Consumer(s)] = "stopWait"
  <2>1. Freed(s) = numProcessedBlocks[s]
    BY <1>3, <1>12 DEF Freed, StopLabels
  <2>2. freeSemaphore[s] >= 1 \/ pc[s] \in {"check", "stop", "stopped", "start"} \cup StopLabels
    BY <1>12 DEF SpareInv
  <2>3. CASE freeSemaphore[s] >= 1
    BY <1>1, <1>3, <1>4, <1>5, <1>7, <1>9, <1>10, <1>12, <1>13, <1>14, <2>1, <2>3 DEF FirstOwned
  <2>4. CASE pc[s] \in {"check", "stop", "stopped", "start"} \cup StopLabels
    <3>1. ~FillsBlock(s) /\ Made(s) = Published(s)
      BY <1>4, <2>4 DEF FillsBlock, Made, StopLabels
    <3>2. Published(s) = 0 \/ Held(s) = 1
      BY <2>4 DEF Published, Held, StopLabels
    <3> QED
      BY <1>1, <1>3, <1>4, <1>7, <1>9, <1>12, <1>13, <1>14, <2>1, <3>1, <3>2 DEF FirstOwned
  <2> QED BY <2>2, <2>3, <2>4
<1> QED BY <1>11, <1>12

\* The slot of the block that is being filled holds no block that is needed.
LEMMA SlotIsFree ==
  ASSUME Inv, SpareInv, Working, NEW s \in Syncs, ~needStart[s], FillsBlock(s),
         NEW i \in FirstOwned(s) .. Made(s) - 1
  PROVE  Slot(s, i) # Slot(s, blockIndex[s])
<1>1. /\ FirstOwned(s) \in Nat /\ Made(s) \in Nat /\ Made(s) = blockIndex[s]
      /\ Made(s) + 1 - FirstOwned(s) <= NumBlocks(s)
  BY RingBound
<1>2. NumBlocks(s) \in Nat \ {0}
  BY NumBlocksAssumption DEF NumBlocks
<1>3. i \in Nat /\ i < blockIndex[s] /\ blockIndex[s] - i < NumBlocks(s) /\ blockIndex[s] \in Nat
  BY <1>1, <1>2
<1> QED BY <1>2, <1>3, SlotsDiffer DEF Slot

\* The steps that neither change the data nor ask for a block.
LzQuiet ==
  \/ Create \/ ReleaseStream \/ DestructBegin \/ DestructStep
  \/ NextRelease("lz", "bt") \/ NextWait("lz", "bt")
  \/ StopRelease("lz", "bt") \/ StopWait("lz", "bt", "idle")
HashQuiet ==
  \/ NeedMove(mf) /\ HashEnterBt
  \/ ~NeedMove(mf) /\ WaitFree("hash", "need")
  \/ WaitStart("hash", "need") \/ HashEnterHash \/ HashCheck \/ ReportStopped("hash")
BtQuiet ==
  \/ WaitStart("bt", "free") \/ WaitFree("bt", "free")
  \/ BtLock \/ NextRelease("bt", "hash") \/ NextWait("bt", "hash")
  \/ BtPublish \/ BtStop
  \/ StopRelease("bt", "hash") \/ StopWait("bt", "hash", "stopped")
  \/ ReportStopped("bt")
Quietly == (LzQuiet \/ HashQuiet \/ BtQuiet \/ UNCHANGED syncVars) /\ UNCHANGED dataVars

\* All steps of the match finder.
LEMMA StepCases ==
  ASSUME [Next]_vars
  PROVE  \/ Quietly \/ InitStream \/ LzAsks \/ LzReadsHeader \/ LzTakesPosition
         \/ HashMovesWindow \/ HashFillsBlock
         \/ BtBeginsBlock \/ BtAsks \/ BtReadsHeader \/ BtGetMatches \/ BtEndsBlock
<1>1. CASE LzCalls \/ LzStep
  BY <1>1 DEF LzCalls, LzStep, Quietly, LzQuiet
<1>2. CASE HashThread
  BY <1>2 DEF HashThread, Quietly, HashQuiet
<1>3. CASE BtThread
  BY <1>3 DEF BtThread, Quietly, BtQuiet
<1>4. CASE (Finished /\ UNCHANGED dataVars) \/ UNCHANGED vars
  BY <1>4 DEF Finished, vars, Quietly
<1> QED BY <1>1, <1>2, <1>3, <1>4 DEF Next

\* Where producer and consumer are in the flow of a ring: a step that leaves this
\* alone, and one that starts nothing and does not begin or end a block of bt.
SameFlow(s) ==
  /\ Working
  /\ Made(s)' = Made(s)
  /\ pc'[Consumer(s)] \in NextLabels <=> pc[Consumer(s)] \in NextLabels
  /\ ~needStart'[s] => /\ ~needStart[s]
                       /\ FirstOwned(s)' = FirstOwned(s)
                       /\ Unread(s)' = Unread(s)
SameStart ==
  /\ Working
  /\ Unstarted' => Unstarted
  /\ needStart'["bt"] => needStart["bt"]

\* Quiet steps do.
LEMMA QuietFlow ==
  ASSUME Inv, Quietly, Working'
  PROVE  SameFlow("bt") /\ SameFlow("hash") /\ SameStart /\ (Filling' <=> Filling)
<1>1. PcTypeOK /\ FlagTypeOK /\ CountTypeOK /\ LifeInv
  BY DEF Inv, TypeOK
<1> USE DEF SameFlow, SameStart, Working, Filling, NextLabels, StopLabels, CallLabels, Unstarted, Made, Published,
        FirstOwned, Unread, PcTypeOK, FlagTypeOK, CountTypeOK, Goto, flagVars, lockVars, countVars,
        lifeVars, Syncs, Threads, Consumer
<1>2. CASE LzQuiet
  <2>1. CASE Create \/ DestructBegin \/ DestructStep \/ StopWait("lz", "bt", "idle")
    BY <1>1, <2>1
    DEF Create, CreateOk, CreateFails, DestructBegin, DestructStep, SendExit, Join, NothingToJoin,
        StopWait
  <2>2. CASE ReleaseStream
    BY <1>1, <2>2 DEF ReleaseStream, StopWriting, StopBegin, StopNothing
  <2>3. CASE NextRelease("lz", "bt") \/ NextWait("lz", "bt") \/ StopRelease("lz", "bt")
    BY <1>1, <2>3 DEF NextRelease, NextWait, StopRelease
  <2> QED BY <1>2, <2>1, <2>2, <2>3 DEF LzQuiet
<1>3. CASE HashQuiet
  <2>1. CASE HashEnterBt \/ WaitFree("hash", "need") \/ HashEnterHash \/ HashCheck
    BY <1>1, <2>1 DEF HashEnterBt, WaitFree, HashEnterHash, HashCheck
  <2>2. CASE WaitStart("hash", "need")
    BY <1>1, <2>2 DEF WaitStart, Consume
  <2>3. CASE ReportStopped("hash")
    BY <1>1, <2>3 DEF ReportStopped, LifeInv, Started, Starting, Running, Stopped, Quiet
  <2> QED BY <1>3, <2>1, <2>2, <2>3 DEF HashQuiet
<1>4. CASE BtQuiet
  <2>1. CASE WaitFree("bt", "free") \/ BtLock
    BY <1>1, <2>1 DEF WaitFree, BtLock, LockBuffer
  <2>2. CASE NextRelease("bt", "hash") \/ NextWait("bt", "hash") \/ StopRelease("bt", "hash")
    BY <1>1, <2>2 DEF NextRelease, NextWait, StopRelease
  <2>3. CASE WaitStart("bt", "free")
    BY <1>1, <2>3 DEF WaitStart, Consume
  <2>4. CASE BtPublish
    BY <1>1, <2>4 DEF BtPublish, Publish, LifeInv, Started, Starting, Running, Stopped, Quiet
  <2>5. CASE BtStop
    BY <1>1, <2>5 DEF BtStop, StopWriting, StopBegin, StopNothing
  <2>6. CASE StopWait("bt", "hash", "stopped")
    BY <1>1, <2>6 DEF StopWait
  <2>7. CASE ReportStopped("bt")
    BY <1>1, <2>7 DEF ReportStopped, LifeInv, Started, Starting, Running, Stopped, Quiet
  <2> QED BY <1>4, <2>1, <2>2, <2>3, <2>4, <2>5, <2>6, <2>7 DEF BtQuiet
<1>5. CASE UNCHANGED syncVars
  BY <1>1, <1>5 DEF syncVars
<1> QED BY <1>2, <1>3, <1>4, <1>5 DEF Quietly
-----------------------------------------------------------------------------
(* Steps that leave a ring and its consumer alone. *)

SameWindow == mf'.pos = mf.pos /\ mf'.streamPos = mf.streamPos /\ (Over' <=> Over)

\* They keep the flow of hash blocks.
LEMMA HashFlowKept ==
  ASSUME HashFlow, SameFlow("hash"), SameWindow, hashBuf' = hashBuf, BtAt' = BtAt,
         bt'.hashRem = bt.hashRem, bt'.hashNumAvail = bt.hashNumAvail
  PROVE  HashFlow'
<1> SUFFICES ASSUME Working', ~needStart'["hash"] PROVE HashFlow'
  BY DEF HashFlow
<1>1. /\ Working /\ ~needStart["hash"] /\ Made("hash")' = Made("hash")
      /\ FirstOwned("hash")' = FirstOwned("hash") /\ Unread("hash")' = Unread("hash")
      /\ pc'["bt"] \in NextLabels <=> pc["bt"] \in NextLabels
  BY DEF SameFlow, Syncs, Consumer
<1>2. \A i : HashFrom(i)' = HashFrom(i) /\ HashReach(i)' = HashReach(i)
  BY <1>1 DEF HashFrom, HashReach, SameWindow
<1>3. \A i : HashBlockInv(i)' <=> HashBlockInv(i)
  BY <1>2 DEF HashBlockInv, SameWindow
<1> QED BY <1>1, <1>2, <1>3 DEF HashFlow, SameWindow

\* They keep the flow of bt blocks.
LEMMA BtFlowKept ==
  ASSUME BtFlow, SameFlow("bt"), SameWindow, btBuf' = btBuf, BtAt' = BtAt, bt'.sent = bt.sent,
         bt'.hashNumAvail = bt.hashNumAvail,
         lz'.pos = lz.pos, lz'.rem = lz.rem, lz'.avail = lz.avail, lz'.eof = lz.eof
  PROVE  BtFlow'
<1> SUFFICES ASSUME Working', ~needStart'["bt"] PROVE BtFlow'
  BY DEF BtFlow
<1>1. /\ Working /\ ~needStart["bt"] /\ Made("bt")' = Made("bt")
      /\ FirstOwned("bt")' = FirstOwned("bt") /\ Unread("bt")' = Unread("bt")
      /\ pc'["lz"] \in NextLabels => pc["lz"] \in NextLabels
  BY DEF SameFlow, Syncs, Consumer
<1>2. \A i : BtFrom(i)' = BtFrom(i) /\ BtReach(i)' = BtReach(i)
  BY <1>1 DEF BtFrom, BtReach
<1>3. \A i : BtBlockInv(i)' <=> BtBlockInv(i)
  BY <1>2 DEF BtBlockInv, SameWindow
<1> QED BY <1>1, <1>2, <1>3 DEF BtFlow, SameWindow

\* They keep what is known of the bt thread, of lz, and of threads not started.
LEMMA ThreadsKept ==
  ASSUME BtInv, LzInv, FreshInv, SameStart, Filling' <=> Filling, SameWindow, BtAt' = BtAt,
         bt'.pos = bt.pos, bt'.sent = bt.sent, bt'.hashRem = bt.hashRem,
         bt'.hashNumAvail = bt.hashNumAvail, bt'.block = bt.block, bt'.full = bt.full,
         lz'.pos = lz.pos, lz'.rem = lz.rem, lz'.avail = lz.avail, lz'.eof = lz.eof
  PROVE  BtInv' /\ LzInv' /\ (lz' = lz => FreshInv')
<1>1. Working /\ (Unstarted' => Unstarted) /\ (needStart'["bt"] => needStart["bt"])
  BY DEF SameStart
<1>2. BtInv' /\ LzInv'
  BY <1>1 DEF BtInv, LzInv, SameWindow
<1> QED BY <1>1, <1>2 DEF FreshInv, SameWindow
-----------------------------------------------------------------------------
(* Where the other steps take the threads. *)

\* The hash thread moves the window, or fills a block of its ring.
LEMMA HashMoveFlow ==
  ASSUME Inv, HashMove, Working'
  PROVE  /\ SameFlow("bt") /\ SameFlow("hash") /\ SameStart /\ (Filling' <=> Filling)
         /\ ~needStart["hash"] /\ ~needStart["bt"]
  BY DEF HashMove, Goto, flagVars, countVars, lifeVars, Inv, TypeOK, PcTypeOK, FlagTypeOK, CountTypeOK,
     LifeInv, Quiet, Started, Starting, Running, Stopped, SameFlow, SameStart, Working, Filling, NextLabels,
     CallLabels, Unstarted, Made, Published, FirstOwned, Unread, Syncs, Threads, Consumer

LEMMA HashFillFlow ==
  ASSUME Inv, Publish("hash", "fill", "need"), Working'
  PROVE  /\ SameFlow("bt") /\ SameStart /\ (Filling' <=> Filling)
         /\ Working /\ ~needStart["hash"] /\ FillsBlock("hash")
         /\ needStart' = needStart /\ pc'["bt"] = pc["bt"] /\ pc'["hash"] = "need"
         /\ Made("hash")' = Made("hash") + 1
         /\ FirstOwned("hash")' = FirstOwned("hash") /\ Unread("hash")' = Unread("hash")
  BY DEF Publish, Goto, flagVars, lockVars, lifeVars, Inv, TypeOK, PcTypeOK, FlagTypeOK, CountTypeOK,
     LifeInv, Quiet, Started, Starting, Running, Stopped, SameFlow, SameStart, Working, Filling, NextLabels,
     CallLabels, Unstarted, Made, Published, FirstOwned, Unread, FillsBlock, Syncs, Threads, Consumer

\* The bt thread begins a block, reads a header, and ends its block.
LEMMA BtBeginFlow ==
  ASSUME Inv, BtCheck, Working'
  PROVE  SameFlow("bt") /\ SameFlow("hash") /\ SameStart /\ ~Filling
  BY DEF BtCheck, Goto, flagVars, lockVars, countVars, lifeVars, Inv, TypeOK, PcTypeOK, FlagTypeOK,
     CountTypeOK, LifeInv, Quiet, Started, Starting, Running, Stopped, SameFlow, SameStart, Working, Filling,
     NextLabels, CallLabels, Unstarted, Made, Published, FirstOwned, Unread, Syncs, Threads, Consumer

LEMMA BtReadFlow ==
  ASSUME Inv, NextLock("bt", "hash", "fill"), Working'
  PROVE  /\ SameFlow("bt") /\ SameStart /\ Filling /\ Filling'
         /\ ~needStart["hash"] /\ pc'["bt"] = "fill" /\ pc["bt"] \in NextLabels
         /\ Made("hash")' = Made("hash") /\ FirstOwned("hash")' = FirstOwned("hash")
         /\ Unread("hash") = FirstOwned("hash") /\ Unread("hash")' = Unread("hash") + 1
         /\ Unread("hash") < Made("hash")
<1>1. PcTypeOK /\ FlagTypeOK /\ CountTypeOK /\ LifeInv /\ filledSemaphore["hash"] \in Nat
  BY DEF Inv, TypeOK, IsSemaphore, Syncs
<1>2. /\ SameFlow("bt") /\ SameStart /\ Filling /\ Filling'
      /\ ~needStart["hash"] /\ pc'["bt"] = "fill" /\ pc["bt"] = "nextLock"
      /\ Made("hash")' = Made("hash") /\ FirstOwned("hash")' = FirstOwned("hash")
      /\ Unread("hash") = FirstOwned("hash") /\ Unread("hash")' = Unread("hash") + 1
  BY <1>1
  DEF NextLock, LockBuffer, Goto, flagVars, lockVars, countVars, lifeVars, PcTypeOK, FlagTypeOK,
     CountTypeOK, LifeInv, Quiet, Started, Starting, Running, Stopped, SameFlow, SameStart, Working, Filling,
     NextLabels, CallLabels, Unstarted, Made, Published, FirstOwned, Unread, Syncs, Threads, Consumer
<1>3. Balanced("hash")
  BY <1>2 DEF Inv, CountInv, SameStart, Syncs
<1>4. Unread("hash") < Made("hash")
  BY <1>1, <1>2, <1>3 DEF Balanced, Taken, Published, Made, Unread, NextLabels, CountTypeOK, Syncs, Consumer
<1> QED BY <1>2, <1>4 DEF NextLabels

LEMMA BtEndFlow ==
  ASSUME Inv, BtUnlock, Working'
  PROVE  /\ SameFlow("hash") /\ SameStart /\ Filling /\ ~Filling'
         /\ FillsBlock("bt") /\ ~needStart["bt"] /\ ~needStart["hash"]
         /\ needStart' = needStart /\ pc'["lz"] = pc["lz"]
         /\ Made("bt")' = Made("bt") + 1
         /\ FirstOwned("bt")' = FirstOwned("bt") /\ Unread("bt")' = Unread("bt")
  BY DEF BtUnlock, UnlockBuffer, Goto, flagVars, countVars, lifeVars, Inv, TypeOK, PcTypeOK, FlagTypeOK,
     CountTypeOK, LifeInv, Quiet, Started, Starting, Running, Stopped, SameFlow, SameStart, Working, Filling,
     NextLabels, CallLabels, Unstarted, Made, Published, FirstOwned, Unread, FillsBlock, Syncs, Threads,
     Consumer

\* The lz thread reads a header.
LEMMA LzReadFlow ==
  ASSUME Inv, NextLock("lz", "bt", "using")
  PROVE  /\ SameFlow("hash") /\ SameStart /\ (Filling' <=> Filling)
         /\ Working /\ Working' /\ ~needStart["bt"] /\ needStart' = needStart
         /\ pc'["lz"] = "using" /\ pc["lz"] \in NextLabels
         /\ Made("bt")' = Made("bt") /\ FirstOwned("bt")' = FirstOwned("bt")
         /\ Unread("bt") = FirstOwned("bt") /\ Unread("bt")' = Unread("bt") + 1
         /\ Unread("bt") < Made("bt")
<1>1. PcTypeOK /\ FlagTypeOK /\ CountTypeOK /\ LifeInv /\ filledSemaphore["bt"] \in Nat
      /\ blockIndex["bt"] \in Nat /\ numProcessedBlocks["bt"] \in Nat
  BY DEF Inv, TypeOK, CountTypeOK, IsSemaphore, Syncs
<1>2. /\ SameFlow("hash") /\ SameStart /\ (Filling' <=> Filling)
      /\ Working' /\ ~needStart["bt"] /\ needStart' = needStart
      /\ pc'["lz"] = "using" /\ pc["lz"] = "nextLock"
      /\ Made("bt")' = Made("bt") /\ FirstOwned("bt")' = FirstOwned("bt")
      /\ Unread("bt") = FirstOwned("bt") /\ Unread("bt")' = Unread("bt") + 1
  BY <1>1
  DEF NextLock, LockBuffer, Goto, flagVars, lockVars, countVars, lifeVars, PcTypeOK, FlagTypeOK,
     CountTypeOK, LifeInv, Quiet, Started, Starting, Running, Stopped, SameFlow, SameStart, Working, Filling,
     NextLabels, CallLabels, Unstarted, Made, Published, FirstOwned, Unread, Syncs, Threads, Consumer
<1>3. Balanced("bt")
  BY <1>2 DEF Inv, CountInv, SameStart, Syncs
<1>4. Unread("bt") < Made("bt")
  BY <1>1, <1>2, <1>3 DEF Balanced, Taken, Published, Made, Unread, NextLabels, Syncs, Consumer
<1> QED BY <1>2, <1>4 DEF NextLabels, SameStart

\* A consumer asks for a block: it starts its producer, or frees the block it had.
LEMMA BtAskFlow ==
  ASSUME Inv, BtGetNextBlock, Working'
  PROVE  /\ SameFlow("bt") /\ SameStart /\ Filling /\ Filling'
         /\ ~needStart'["hash"] /\ pc'["bt"] \in NextLabels /\ pc'["lz"] = pc["lz"]
         /\ needStart'["bt"] = needStart["bt"]
         /\ \/ /\ needStart["hash"] /\ Unstarted
               /\ Made("hash")' = 0 /\ FirstOwned("hash")' = 0 /\ Unread("hash")' = 0
            \/ /\ ~needStart["hash"] /\ Made("hash")' = Made("hash")
               /\ FirstOwned("hash")' = FirstOwned("hash") + 1
               /\ Unread("hash")' = Unread("hash") /\ Unread("hash") = FirstOwned("hash") + 1
<1>1. PcTypeOK /\ FlagTypeOK /\ CountTypeOK /\ LifeInv
  BY DEF Inv, TypeOK
<1> USE DEF Goto, flagVars, lockVars, countVars, lifeVars, PcTypeOK, FlagTypeOK,
     CountTypeOK, LifeInv, Quiet, Started, Starting, Running, Stopped, SameFlow, SameStart, Working, Filling,
     NextLabels, CallLabels, Unstarted, Made, Published, FirstOwned, Unread, Syncs, Threads, Consumer
<1>2. CASE StartProducer("bt", "hash")
  BY <1>1, <1>2 DEF BtGetNextBlock, StartProducer, Signal
<1>3. CASE FreeCurrentBlock("bt", "hash")
  BY <1>1, <1>3 DEF BtGetNextBlock, FreeCurrentBlock, UnlockBuffer
<1> QED BY <1>2, <1>3 DEF BtGetNextBlock, GetNextBlock

LEMMA LzAskFlow ==
  ASSUME Inv, LzGetNextBlock
  PROVE  /\ SameFlow("hash") /\ SameStart /\ (Filling' <=> Filling) /\ Working /\ Working'
         /\ ~needStart'["bt"] /\ pc'["lz"] \in NextLabels
         /\ \/ /\ needStart["bt"] /\ Unstarted /\ ~Filling
               /\ Made("bt")' = 0 /\ FirstOwned("bt")' = 0 /\ Unread("bt")' = 0
            \/ /\ ~needStart["bt"] /\ Made("bt")' = Made("bt")
               /\ FirstOwned("bt")' = FirstOwned("bt") + 1
               /\ Unread("bt")' = Unread("bt") /\ Unread("bt") = FirstOwned("bt") + 1
<1>1. PcTypeOK /\ FlagTypeOK /\ CountTypeOK /\ LifeInv
  BY DEF Inv, TypeOK
<1> USE DEF Goto, flagVars, lockVars, countVars, lifeVars, PcTypeOK, FlagTypeOK,
     CountTypeOK, LifeInv, Quiet, Started, Starting, Running, Stopped, SameFlow, SameStart, Working, Filling,
     NextLabels, CallLabels, Unstarted, Made, Published, FirstOwned, Unread, Syncs, Threads, Consumer
<1>2. CASE StartProducer("lz", "bt")
  BY <1>1, <1>2 DEF LzGetNextBlock, StartProducer, Signal
<1>3. CASE FreeCurrentBlock("lz", "bt")
  BY <1>1, <1>3 DEF LzGetNextBlock, FreeCurrentBlock, UnlockBuffer
<1> QED BY <1>2, <1>3 DEF LzGetNextBlock, GetNextBlock

\* A step of the data alone leaves the threads where they are.
LEMMA StayFlow ==
  ASSUME UNCHANGED syncVars, Working
  PROVE  /\ SameFlow("bt") /\ SameFlow("hash") /\ SameStart /\ (Filling' <=> Filling) /\ Working'
         /\ \A s \in Syncs : FirstOwned(s)' = FirstOwned(s) /\ Unread(s)' = Unread(s)
  BY DEF syncVars, flagVars, lockVars, countVars, lifeVars, SameFlow, SameStart, Working, Filling,
     NextLabels, CallLabels, Unstarted, Made, Published, FirstOwned, Unread, Syncs, Threads, Consumer
-----------------------------------------------------------------------------
(* The window. *)

\* The types of the fields.
LEMMA Fields ==
  ASSUME DataTypeOK
  PROVE  /\ mf.base \in Nat /\ mf.pos \in Nat /\ mf.streamPos \in Nat /\ mf.len \in Nat
         /\ mf.ended \in BOOLEAN /\ mf.failed \in BOOLEAN
         /\ bt.pos \in Nat /\ bt.ptr \in Nat /\ bt.sent \in Nat /\ bt.hashRem \in Nat
         /\ bt.hashNumAvail \in Nat /\ bt.full \in BOOLEAN
         /\ bt.block.from \in Nat /\ bt.block.num \in Nat /\ bt.block.avail \in Nat
         /\ lz.pos \in Nat /\ lz.ptr \in Nat /\ lz.rem \in Nat /\ lz.avail \in Nat
         /\ lz.eof \in BOOLEAN
         /\ BtAt \in Nat
  BY DEF DataTypeOK, BtAt

\* The blocks in the rings.
LEMMA BlockFields ==
  ASSUME DataTypeOK, NEW i \in Nat
  PROVE  /\ hashBuf[Slot("hash", i)] \in [from : Nat, num : Nat, avail : Nat]
         /\ btBuf[Slot("bt", i)] \in [from : Nat, num : Nat, avail : Nat]
         /\ HashFrom(i) \in Nat /\ HashReach(i) \in Nat /\ BtFrom(i) \in Nat /\ BtReach(i) \in Nat
<1>1. /\ hashBuf[Slot("hash", i)] \in [from : Nat, num : Nat, avail : Nat]
      /\ btBuf[Slot("bt", i)] \in [from : Nat, num : Nat, avail : Nat]
  <2>1. Slot("hash", i) \in 0 .. kMtHashNumBlocks - 1 /\ Slot("bt", i) \in 0 .. kMtBtNumBlocks - 1
    BY i \in Int, SlotInRing
  <2> QED BY <2>1 DEF DataTypeOK
<1> QED BY <1>1, Fields DEF HashFrom, HashReach, BtFrom, BtReach

\* The sizes, and what a move of the window does.
LEMMA WindowSizes ==
  /\ keepSizeBefore \in Nat /\ keepSizeAfter \in Nat /\ blockSize \in Nat
  /\ numHashBytes \in Nat /\ numHashBytes >= 1 /\ numHashBytes <= keepSizeAfter
  /\ MaxHeads \in Nat /\ MaxHeads >= 1 /\ MaxBtPositions \in Nat /\ MaxBtPositions >= 1
  /\ blockSize = keepSizeBefore + keepSizeAfter + Reserve
  BY SizesAssumption, NumBlocksAssumption
  DEF keepSizeBefore, keepSizeAfter, blockSize, MaxHeads, MaxBtPositions

LEMMA MoveFits ==
  ASSUME DataTypeOK, WindowInv, NeedMove(mf)
  PROVE  LET w == [mf EXCEPT !.base = @ + MoveOffset(mf)] IN
         /\ MoveOffset(mf) \in Nat
         /\ w.base = mf.base + MoveOffset(mf) /\ w.base + keepSizeBefore <= mf.pos
         /\ ~NeedMove(w) /\ Room(w) >= 0
<1> DEFINE offset == mf.pos - mf.base - keepSizeBefore
           rest   == offset % kBlockMoveAlign
           w      == [mf EXCEPT !.base = @ + MoveOffset(mf)]
<1>1. /\ mf.base \in Nat /\ mf.pos \in Nat /\ mf.streamPos \in Nat
      /\ mf.base + blockSize - mf.pos <= keepSizeAfter
      /\ mf.base + blockSize - mf.streamPos >= 0
      /\ mf.pos <= mf.streamPos
  BY Fields DEF NeedMove, WindowInv, Room
<1>2. offset \in Nat /\ offset >= Reserve /\ Reserve >= kBlockMoveAlign
      /\ kBlockMoveAlign \in Nat \ {0} /\ Reserve \in Nat
  BY <1>1, WindowSizes, SizesAssumption
<1> HIDE DEF offset
<1>3. rest \in Nat /\ rest < kBlockMoveAlign /\ rest <= offset
  BY <1>2
<1> HIDE DEF rest
<1>4. MoveOffset(mf) = offset - rest
  BY DEF MoveOffset, offset, rest
<1>5. MoveOffset(mf) \in Nat
  BY <1>2, <1>3, <1>4
<1>6. w.base = mf.base + MoveOffset(mf) /\ w.pos = mf.pos /\ w.streamPos = mf.streamPos
  BY DEF DataTypeOK
<1> HIDE DEF w
<1>7. w.base + keepSizeBefore + rest = mf.pos
  BY <1>1, <1>2, <1>3, <1>4, <1>6, WindowSizes DEF offset
<1>8. w.base + blockSize - w.pos > keepSizeAfter
  BY <1>1, <1>2, <1>3, <1>5, <1>6, <1>7, WindowSizes
<1>9. w.base + blockSize - w.streamPos >= 0
  BY <1>1, <1>5, <1>6, WindowSizes
<1>10. w.base + keepSizeBefore <= mf.pos
  BY <1>1, <1>3, <1>5, <1>6, <1>7, WindowSizes
<1>11. ~NeedMove(w) /\ Room(w) >= 0
  BY <1>1, <1>5, <1>6, <1>8, <1>9, WindowSizes DEF NeedMove, Room
<1> QED BY <1>5, <1>6, <1>10, <1>11 DEF w

\* What MatchFinder_ReadIfRequired leaves: enough bytes, or the end of the stream.
WindowType == [base : Nat, pos : Nat, streamPos : Nat, len : Nat, ended : BOOLEAN, failed : BOOLEAN]

IsReadOn(w) ==
  /\ w \in WindowType
  /\ w.base = mf.base /\ w.pos = mf.pos /\ w.len = mf.len
  /\ w.streamPos >= mf.streamPos /\ w.streamPos <= w.len /\ Room(w) >= 0
  /\ mf.ended => w.ended
  /\ mf.failed => w.failed
  /\ Over => w.streamPos = mf.streamPos
  /\ w.ended => w.streamPos = w.len
  /\ w.ended \/ w.failed \/ Avail(w) > keepSizeAfter

LEMMA WindowIsRead ==
  ASSUME DataTypeOK, WindowInv, ~NeedMove(mf), NEW w \in ReadIfRequired(mf)
  PROVE  IsReadOn(w)
<1>1. /\ mf \in WindowType
      /\ mf.base \in Nat /\ mf.pos \in Nat /\ mf.streamPos \in Nat /\ mf.len \in Nat
      /\ mf.pos <= mf.streamPos /\ mf.streamPos <= mf.len
      /\ mf.ended => mf.streamPos = mf.len
  BY Fields DEF WindowInv, DataTypeOK, WindowType
<1>2. Room(mf) \in Nat /\ Avail(mf) \in Nat
  BY <1>1, WindowSizes DEF Room, Avail, WindowInv
<1>3. CASE w = mf /\ (Over \/ Avail(mf) > keepSizeAfter)
  BY <1>1, <1>2, <1>3 DEF IsReadOn, Over
<1>4. CASE ~Over /\ keepSizeAfter >= Avail(mf)
  <2>1. Room(mf) > 0
    BY <1>1, <1>2, <1>4, WindowSizes DEF NeedMove, Over, Room, Avail
  <2> DEFINE most == Smaller(Room(mf), mf.len - mf.streamPos)
             least == AtLeast0(keepSizeAfter + 1 - Avail(mf))
             Read(n) == [mf EXCEPT !.streamPos = @ + n]
  <2>2. \/ \E n \in {m \in {least, most} : m <= most /\ m > 0 /\ Enough(mf, m)} : w = Read(n)
        \/ \E n \in {m \in {mf.len - mf.streamPos} : m < Room(mf) /\ ~Enough(mf, m)} :
             w = [Read(n) EXCEPT !.ended = TRUE]
        \/ \E n \in {m \in 0 .. most : ReadMayFail /\ ~Enough(mf, m) /\ m < Room(mf)} :
             w = [Read(n) EXCEPT !.failed = TRUE]
    <3>1. w \in ReadBlock(mf)
      BY <1>4 DEF ReadIfRequired
    <3>2. ~(mf.ended \/ mf.failed \/ Room(mf) = 0)
      BY <1>2, <1>4, <2>1 DEF Over
    <3> QED BY <3>1, <3>2, Zenon DEF ReadBlock
  <2>3. /\ most \in Nat /\ least \in Nat /\ most <= Room(mf) /\ most <= mf.len - mf.streamPos
        /\ mf.len - mf.streamPos \in Nat
    BY <1>1, <1>2, WindowSizes DEF Smaller, AtLeast0
  <2>4. \A n \in Nat :
          /\ Read(n) \in WindowType /\ Read(n).base = mf.base /\ Read(n).pos = mf.pos
          /\ Read(n).len = mf.len /\ Read(n).streamPos = mf.streamPos + n
          /\ Read(n).ended = FALSE /\ Read(n).failed = FALSE
    BY <1>1, <1>4 DEF WindowType, Over
  <2> HIDE DEF most, least, Read
  <2>5. \A n \in Nat : n <= Room(mf) =>
          mf.base + blockSize - (mf.streamPos + n) >= 0
    BY <1>1, <1>2, WindowSizes DEF Room
  <2>6. CASE \E n \in {m \in {least, most} : m <= most /\ m > 0 /\ Enough(mf, m)} : w = Read(n)
    <3>1. PICK n \in Nat : n <= most /\ Enough(mf, n) /\ w = Read(n)
      BY <2>3, <2>6
    <3>2. /\ w \in WindowType /\ w.base = mf.base /\ w.pos = mf.pos /\ w.len = mf.len
          /\ w.streamPos = mf.streamPos + n /\ ~w.ended
      BY <2>4, <3>1
    <3>3. Avail(w) > keepSizeAfter
      BY <1>1, <3>1, <3>2, WindowSizes DEF Enough, Avail
    <3>4. n <= Room(mf) /\ n <= mf.len - mf.streamPos
      BY <1>1, <1>2, <2>3, <3>1
    <3>5. Room(w) >= 0
      BY <2>5, <3>2, <3>4 DEF Room
    <3> QED BY <1>1, <1>4, <3>2, <3>3, <3>4, <3>5 DEF IsReadOn, Over
  <2>7. CASE \E n \in {m \in {mf.len - mf.streamPos} : m < Room(mf) /\ ~Enough(mf, m)} :
               w = [Read(n) EXCEPT !.ended = TRUE]
    <3>1. PICK n \in Nat : n = mf.len - mf.streamPos /\ n < Room(mf) /\ w = [Read(n) EXCEPT !.ended = TRUE]
      BY <2>3, <2>7
    <3>2. /\ w \in WindowType /\ w.base = mf.base /\ w.pos = mf.pos /\ w.len = mf.len
          /\ w.streamPos = mf.streamPos + n /\ w.ended
      BY <2>4, <3>1 DEF WindowType
    <3>3. n <= Room(mf) /\ w.streamPos = mf.len
      BY <1>1, <1>2, <3>1, <3>2
    <3>4. Room(w) >= 0
      BY <2>5, <3>2, <3>3 DEF Room
    <3> QED BY <1>1, <1>4, <3>2, <3>3, <3>4 DEF IsReadOn, Over
  <2>8. CASE \E n \in {m \in 0 .. most : ReadMayFail /\ ~Enough(mf, m) /\ m < Room(mf)} :
               w = [Read(n) EXCEPT !.failed = TRUE]
    <3>0. PICK n \in 0 .. most : w = [Read(n) EXCEPT !.failed = TRUE]
      BY <2>8, Zenon
    <3>1. n \in Nat /\ n <= most /\ w = [Read(n) EXCEPT !.failed = TRUE]
      BY <2>3, <3>0
    <3>2. /\ w \in WindowType /\ w.base = mf.base /\ w.pos = mf.pos /\ w.len = mf.len
          /\ w.streamPos = mf.streamPos + n /\ w.failed /\ ~w.ended
      BY <2>4, <3>1 DEF WindowType
    <3>3. n <= Room(mf) /\ n <= mf.len - mf.streamPos
      BY <1>1, <1>2, <2>3, <3>1
    <3>4. Room(w) >= 0
      BY <2>5, <3>2, <3>3 DEF Room
    <3> QED BY <1>1, <1>4, <3>2, <3>3, <3>4 DEF IsReadOn, Over
  <2> QED BY <2>2, <2>6, <2>7, <2>8
<1>5. (w = mf /\ (Over \/ Avail(mf) > keepSizeAfter)) \/ (~Over /\ keepSizeAfter >= Avail(mf))
  <2>1. CASE keepSizeAfter >= Avail(mf) /\ Over
    <3>1. ReadBlock(mf) = {mf}
      BY <2>1, Zenon DEF ReadBlock, Over
    <3> QED BY <2>1, <3>1 DEF ReadIfRequired
  <2>2. CASE ~(keepSizeAfter >= Avail(mf))
    BY <1>2, <2>2, WindowSizes DEF ReadIfRequired
  <2> QED BY <2>1, <2>2
<1> QED BY <1>3, <1>4, <1>5

\* The block that is made of it.
LEMMA BlockIsMade ==
  ASSUME DataTypeOK, WindowInv, NEW w, IsReadOn(w)
  PROVE  LET h == HashBlock(w)
             v == AfterHashBlock(w)
         IN  /\ h \in [from : Nat, num : Nat, avail : Nat] /\ v \in WindowType
             /\ h.from = mf.pos /\ h.from + h.avail = v.streamPos
             /\ h.num <= h.avail /\ h.num <= MaxHeads
             /\ Short(h) => h.num = 0 /\ (v.ended \/ v.failed)
             /\ h.from + Covered(h) = v.pos
             /\ v.base = w.base /\ v.len = w.len /\ v.streamPos = w.streamPos
             /\ v.ended = w.ended /\ v.failed = w.failed
             /\ mf.pos <= v.pos /\ v.pos <= v.streamPos
             /\ v.ended \/ v.failed \/ v.pos <= mf.pos + MaxHeads
<1> DEFINE h == HashBlock(w)
           v == AfterHashBlock(w)
           a == Avail(w)
           n == IF a >= numHashBytes THEN Smaller(a - numHashBytes + 1, kMtHashBlockSize - 2) ELSE 0
<1>1. /\ w.base \in Nat /\ w.pos \in Nat /\ w.streamPos \in Nat /\ w.len \in Nat
      /\ w.ended \in BOOLEAN /\ w.failed \in BOOLEAN /\ w \in WindowType
      /\ mf.pos \in Nat /\ w.pos = mf.pos /\ w.streamPos >= mf.streamPos /\ mf.streamPos >= mf.pos
      /\ mf.streamPos \in Nat
  BY Fields DEF IsReadOn, WindowType, WindowInv
<1>2. a \in Nat /\ w.pos + a = w.streamPos
  BY <1>1 DEF Avail
<1>3. a < numHashBytes => w.ended \/ w.failed
  BY <1>2, WindowSizes DEF IsReadOn
<1>4. h = [from |-> w.pos, avail |-> a, num |-> n]
  BY DEF HashBlock
<1> HIDE DEF a, h
<1>5. n \in Nat /\ n <= a /\ n <= MaxHeads /\ (a < numHashBytes => n = 0)
  BY <1>2, WindowSizes, SizesAssumption DEF Smaller, MaxHeads
<1> HIDE DEF n
<1>6. h \in [from : Nat, num : Nat, avail : Nat] /\ h.from = w.pos /\ h.avail = a /\ h.num = n
  BY <1>1, <1>2, <1>4, <1>5
<1>7. Covered(h) \in Nat /\ Covered(h) <= a /\ Covered(h) = (IF a >= numHashBytes THEN h.num ELSE a)
  BY <1>2, <1>5, <1>6, WindowSizes DEF Covered, Short
<1>8. v = [w EXCEPT !.pos = @ + Covered(h)]
  BY <1>7 DEF AfterHashBlock, h, a
<1> HIDE DEF v
<1>9. /\ v \in WindowType /\ v.pos = w.pos + Covered(h) /\ v.base = w.base /\ v.len = w.len
      /\ v.streamPos = w.streamPos /\ v.ended = w.ended /\ v.failed = w.failed
  <2>1. w.pos + Covered(h) \in Nat
    BY <1>1, <1>7
  <2> QED BY <1>1, <1>8, <2>1 DEF WindowType
<1>10. mf.pos <= v.pos /\ v.pos <= v.streamPos
  BY <1>1, <1>2, <1>7, <1>9
<1>11. v.ended \/ v.failed \/ v.pos <= mf.pos + MaxHeads
  BY <1>1, <1>2, <1>3, <1>5, <1>6, <1>7, <1>9, WindowSizes
<1>12. Short(h) => h.num = 0 /\ (v.ended \/ v.failed)
  BY <1>3, <1>5, <1>6, <1>9 DEF Short
<1>13. h.from + Covered(h) = v.pos /\ h.from + h.avail = v.streamPos /\ h.num <= h.avail /\ h.num <= MaxHeads
       /\ h.from = mf.pos
  BY <1>1, <1>2, <1>5, <1>6, <1>9
<1> QED BY <1>6, <1>9, <1>10, <1>11, <1>12, <1>13 DEF h, v
-----------------------------------------------------------------------------
(* The flow of hash blocks. *)

\* One more of a product's factor.
LEMMA OneMore ==
  ASSUME NEW a \in Int, NEW b \in Int
  PROVE  (a + 1) * b = a * b + b
  OBVIOUS

\* A step that fills a block.
LEMMA BlockIsFilled ==
  ASSUME DataTypeOK, WindowInv, HashFillsBlock
  PROVE  \E h \in [from : Nat, num : Nat, avail : Nat] :
           /\ hashBuf' = [hashBuf EXCEPT ![Slot("hash", blockIndex["hash"])] = h]
           /\ h.from = mf.pos /\ h.from + h.avail = mf'.streamPos
           /\ h.num <= h.avail /\ h.num <= MaxHeads
           /\ Short(h) => h.num = 0 /\ Over'
           /\ h.from + Covered(h) = mf'.pos
           /\ mf' \in WindowType /\ mf'.base = mf.base /\ mf'.len = mf.len
           /\ mf.streamPos <= mf'.streamPos /\ mf'.streamPos <= mf'.len /\ Room(mf') >= 0
           /\ mf.pos <= mf'.pos /\ mf'.pos <= mf'.streamPos
           /\ mf.failed => mf'.failed
           /\ Over => Over' /\ mf'.streamPos = mf.streamPos
           /\ mf'.ended => mf'.streamPos = mf'.len
           /\ Over' \/ mf'.pos <= mf.pos + MaxHeads
<1>1. ~NeedMove(mf)
  BY DEF HashFillsBlock, Publish, WindowInv
<1>2. PICK w \in ReadIfRequired(mf) :
        /\ hashBuf' = [hashBuf EXCEPT ![Slot("hash", blockIndex["hash"])] = HashBlock(w)]
        /\ mf' = AfterHashBlock(w)
  BY DEF HashFillsBlock
<1>3. IsReadOn(w)
  BY <1>1, WindowIsRead
<1> DEFINE h == HashBlock(w)
<1>4. /\ h \in [from : Nat, num : Nat, avail : Nat] /\ mf' \in WindowType
      /\ h.from = mf.pos /\ h.from + h.avail = mf'.streamPos
      /\ h.num <= h.avail /\ h.num <= MaxHeads
      /\ Short(h) => h.num = 0 /\ (mf'.ended \/ mf'.failed)
      /\ h.from + Covered(h) = mf'.pos
      /\ mf'.base = w.base /\ mf'.len = w.len /\ mf'.streamPos = w.streamPos
      /\ mf'.ended = w.ended /\ mf'.failed = w.failed
      /\ mf.pos <= mf'.pos /\ mf'.pos <= mf'.streamPos
      /\ mf'.ended \/ mf'.failed \/ mf'.pos <= mf.pos + MaxHeads
  BY <1>2, <1>3, BlockIsMade
<1> HIDE DEF h
<1>5. Over' <=> (mf'.ended \/ mf'.failed)
  BY DEF Over
<1>6. Room(mf') = Room(w)
  BY <1>4 DEF Room
<1>7. /\ mf'.base = mf.base /\ mf'.len = mf.len /\ mf.streamPos <= mf'.streamPos
      /\ mf'.streamPos <= mf'.len /\ Room(mf') >= 0 /\ (mf.failed => mf'.failed)
      /\ Over => Over' /\ mf'.streamPos = mf.streamPos
      /\ mf'.ended => mf'.streamPos = mf'.len
  BY <1>3, <1>4, <1>5, <1>6 DEF IsReadOn, Over
<1>8. hashBuf' = [hashBuf EXCEPT ![Slot("hash", blockIndex["hash"])] = h]
  BY <1>2 DEF h
<1> QED BY <1>4, <1>5, <1>7, <1>8

\* A published block continues the flow.
LEMMA HashFlowFill ==
  ASSUME Inv, FlowInv, HashFillsBlock
  PROVE  HashFlow'
<1> SUFFICES ASSUME Working', ~needStart'["hash"] PROVE HashFlow'
  BY DEF HashFlow
<1>1. DataTypeOK /\ WindowInv /\ HashFlow /\ SpareInv /\ HashFillsBlock
  BY DEF FlowInv
<1>2. Publish("hash", "fill", "need") /\ UNCHANGED bt
  BY DEF HashFillsBlock
<1>3. /\ Working /\ ~needStart["hash"] /\ FillsBlock("hash") /\ (Filling' <=> Filling)
      /\ pc'["bt"] = pc["bt"] /\ Made("hash")' = Made("hash") + 1
      /\ FirstOwned("hash")' = FirstOwned("hash") /\ Unread("hash")' = Unread("hash")
  BY <1>2, HashFillFlow
<1>4. PICK fo \in Nat, made \in Nat, unread \in Nat :
        /\ fo = FirstOwned("hash") /\ made = Made("hash") /\ unread = Unread("hash")
        /\ fo <= unread /\ unread <= made /\ made = blockIndex["hash"]
  BY <1>1, <1>3, RingBound DEF Syncs
<1>5. PICK h \in [from : Nat, num : Nat, avail : Nat] :
        /\ hashBuf' = [hashBuf EXCEPT ![Slot("hash", blockIndex["hash"])] = h]
        /\ h.from = mf.pos /\ h.from + h.avail = mf'.streamPos
        /\ h.num <= h.avail /\ h.num <= MaxHeads
        /\ Short(h) => h.num = 0 /\ Over'
        /\ h.from + Covered(h) = mf'.pos
        /\ mf' \in WindowType
        /\ mf.streamPos <= mf'.streamPos
        /\ mf.pos <= mf'.pos
        /\ Over => Over' /\ mf'.streamPos = mf.streamPos
        /\ Over' \/ mf'.pos <= mf.pos + MaxHeads
  BY <1>1, BlockIsFilled
<1>6. Slot("hash", made) \in 0 .. kMtHashNumBlocks - 1
  BY <1>4, SlotInRing
<1>7. hashBuf'[Slot("hash", made)] = h
  BY <1>1, <1>4, <1>5, <1>6 DEF DataTypeOK
<1>8. \A i \in fo .. made - 1 : hashBuf'[Slot("hash", i)] = hashBuf[Slot("hash", i)]
  <2> SUFFICES ASSUME NEW i \in fo .. made - 1 PROVE hashBuf'[Slot("hash", i)] = hashBuf[Slot("hash", i)]
    OBVIOUS
  <2>1. Slot("hash", i) # Slot("hash", blockIndex["hash"])
    BY <1>1, <1>3, <1>4, SlotIsFree DEF Syncs
  <2>2. Slot("hash", i) \in 0 .. kMtHashNumBlocks - 1
    BY <1>4, SlotInRing
  <2> QED BY <1>1, <1>5, <2>1, <2>2 DEF DataTypeOK
<1>9. mf.pos \in Nat /\ mf.streamPos \in Nat /\ mf'.pos \in Nat /\ mf'.streamPos \in Nat
  BY <1>1, <1>5, Fields DEF WindowType
<1>10. \A i \in fo .. made : HashFrom(i)' = HashFrom(i) /\ HashFrom(i) \in Nat
  <2> SUFFICES ASSUME NEW i \in fo .. made PROVE HashFrom(i)' = HashFrom(i) /\ HashFrom(i) \in Nat
    OBVIOUS
  <2>1. HashFrom(i)' = hashBuf'[Slot("hash", i)].from
    BY <1>3, <1>4 DEF HashFrom
  <2>2. HashFrom(i) \in Nat
    BY <1>1, <1>4, BlockFields
  <2>3. CASE i = made
    BY <1>4, <1>5, <1>7, <2>1, <2>2, <2>3 DEF HashFrom
  <2>4. CASE i \in fo .. made - 1
    BY <1>4, <1>8, <2>1, <2>2, <2>4 DEF HashFrom
  <2> QED BY <1>4, <2>3, <2>4
<1>11. \A i \in fo .. made : HashReach(i) <= HashReach(i)' /\ HashReach(i)' \in Nat /\ HashReach(i) \in Nat
  <2> SUFFICES ASSUME NEW i \in fo .. made
               PROVE HashReach(i) <= HashReach(i)' /\ HashReach(i)' \in Nat /\ HashReach(i) \in Nat
    OBVIOUS
  <2>1. HashReach(i)' = hashBuf'[Slot("hash", i)].from + hashBuf'[Slot("hash", i)].avail
    BY <1>3, <1>4 DEF HashReach
  <2>2. HashReach(i) \in Nat
    BY <1>1, <1>4, BlockFields
  <2>3. CASE i = made
    BY <1>4, <1>5, <1>7, <1>9, <2>1, <2>2, <2>3 DEF HashReach
  <2>4. CASE i \in fo .. made - 1
    BY <1>4, <1>8, <2>1, <2>2, <2>4 DEF HashReach
  <2> QED BY <1>4, <2>3, <2>4
<1>12. HashFrom(made + 1)' = mf'.pos /\ HashReach(made + 1)' = mf'.streamPos
  BY <1>3, <1>4 DEF HashFrom, HashReach
<1>13. \A i \in fo .. made - 1 : HashBlockInv(i)
  BY <1>1, <1>3, <1>4 DEF HashFlow
<1>14. ASSUME NEW i \in fo .. made PROVE HashBlockInv(i)'
  <2>1. CASE i = made
    <3> QED BY <1>4, <1>5, <1>7, <1>9, <1>12, <2>1 DEF HashBlockInv
  <2>2. CASE i \in fo .. made - 1
    <3>1. HashBlockInv(i) /\ i + 1 \in fo .. made
      BY <1>4, <1>13, <2>2
    <3>2. PICK g \in [from : Nat, num : Nat, avail : Nat] :
            g = hashBuf[Slot("hash", i)] /\ g = hashBuf'[Slot("hash", i)]
      BY <1>1, <1>4, <1>8, <2>2, BlockFields
    <3>3. HashFrom(i + 1)' = HashFrom(i + 1) /\ HashReach(i + 1) <= HashReach(i + 1)'
          /\ HashReach(i + 1) \in Nat /\ HashReach(i + 1)' \in Nat
      BY <1>10, <1>11, <3>1
    <3>4. /\ g.num <= g.avail /\ g.num <= MaxHeads
          /\ Short(g) => g.num = 0 /\ Over /\ g.from + g.avail = mf.streamPos
          /\ g.from + Covered(g) = HashFrom(i + 1)
          /\ g.from + g.avail <= HashReach(i + 1)
          /\ g.from + g.avail <= mf.streamPos
      BY <3>1, <3>2 DEF HashBlockInv
    <3>5. /\ Short(g) => g.num = 0 /\ Over' /\ g.from + g.avail = mf'.streamPos
          /\ g.from + Covered(g) = HashFrom(i + 1)'
          /\ g.from + g.avail <= HashReach(i + 1)'
          /\ g.from + g.avail <= mf'.streamPos
      BY <1>5, <1>9, <3>3, <3>4
    <3> QED BY <3>2, <3>4, <3>5 DEF HashBlockInv
  <2> QED BY <1>4, <2>1, <2>2
<1>15. BtAt' = BtAt /\ BtAt \in Nat
  BY <1>1, <1>2, <1>3, Fields DEF BtAt
<1>16. /\ BtAt' + bt'.hashRem = HashFrom(unread)'
       /\ BtAt' + bt'.hashNumAvail <= HashReach(unread)'
       /\ IF pc'["bt"] \in NextLabels THEN bt'.hashRem = 0
          ELSE bt'.hashRem <= hashBuf'[Slot("hash", fo)].num
  <2>1. /\ BtAt + bt.hashRem = HashFrom(unread) /\ BtAt + bt.hashNumAvail <= HashReach(unread)
        /\ IF pc["bt"] \in NextLabels THEN bt.hashRem = 0
           ELSE bt.hashRem <= hashBuf[Slot("hash", fo)].num
    BY <1>1, <1>3, <1>4 DEF HashFlow
  <2>4. pc["bt"] \notin NextLabels => fo \in fo .. made - 1
    <3>1. pc["bt"] \notin NextLabels => unread = fo + 1
      BY <1>4 DEF Unread, FirstOwned, Consumer, Inv, TypeOK, CountTypeOK, Syncs
    <3> QED BY <1>4, <3>1
  <2>5. pc["bt"] \notin NextLabels => hashBuf'[Slot("hash", fo)] = hashBuf[Slot("hash", fo)]
    BY <1>8, <2>4
  <2>2. unread \in fo .. made
    BY <1>4
  <2>3. bt.hashNumAvail \in Nat
    BY <1>1, Fields
  <2> QED BY <1>2, <1>3, <1>10, <1>11, <1>15, <2>1, <2>2, <2>3, <2>5
<1>17. ASSUME ~Over', NEW k \in fo .. made + 1
       PROVE mf'.pos - HashFrom(k)' <= (made + 1 - k) * MaxHeads
  <2>1. ~Over /\ mf'.pos <= mf.pos + MaxHeads
    BY <1>5, <1>17
  <2>2. CASE k = made + 1
    BY <1>4, <1>9, <1>12, <2>2, WindowSizes
  <2>3. CASE k \in fo .. made
    <3>1. mf.pos - HashFrom(k) <= (made - k) * MaxHeads
      BY <1>1, <1>3, <1>4, <2>1, <2>3 DEF HashFlow
    <3>2. (made + 1 - k) * MaxHeads = (made - k) * MaxHeads + MaxHeads
      BY <1>4, <2>3, OneMore, made + 1 - k = (made - k) + 1, WindowSizes
    <3>3. (made - k) * MaxHeads \in Int /\ HashFrom(k)' = HashFrom(k) /\ HashFrom(k) \in Nat
      BY <1>4, <1>10, <2>3, WindowSizes
    <3> QED BY <1>9, <2>1, <3>1, <3>2, <3>3, WindowSizes
  <2> QED BY <1>4, <2>2, <2>3
<1>18. FirstOwned("hash")' = fo /\ Made("hash")' = made + 1 /\ Unread("hash")' = unread
  BY <1>3, <1>4
<1>19. made + 1 - 1 = made
  BY <1>4
<1> QED BY <1>14, <1>16, <1>17, <1>18, <1>19 DEF HashFlow

\* The header that bt reads, and what it makes of it.
LEMMA HeaderIsRead ==
  ASSUME Inv, FlowInv, BtReadsHeader, Working'
  PROVE  \E h \in [from : Nat, num : Nat, avail : Nat] :
           /\ HashBlockInv(FirstOwned("hash")) /\ h = hashBuf[Slot("hash", FirstOwned("hash"))]
           /\ h.from = BtAt /\ bt.hashRem = 0
           /\ h.from + Covered(h) = HashFrom(FirstOwned("hash") + 1)
           /\ BtAt + bt.hashNumAvail <= h.from + h.avail
           /\ bt'.hashRem = h.num /\ bt'.hashNumAvail = (IF Short(h) THEN 0 ELSE h.avail)
           /\ BtAt' = BtAt + (IF Short(h) THEN h.avail ELSE 0)
           /\ bt'.pos = bt.pos /\ bt'.sent = bt.sent /\ bt'.full = Short(h)
           /\ bt'.block.from = bt.block.from
           /\ bt'.block.avail = bt.block.num + h.avail
           /\ bt'.block.num = bt.block.num + (IF Short(h) THEN h.avail ELSE 0)
<1>1. DataTypeOK /\ HashFlow /\ SpareInv
  BY DEF FlowInv
<1>2. /\ Filling /\ Filling' /\ Working /\ ~needStart["hash"] /\ pc["bt"] \in NextLabels
      /\ Unread("hash") = FirstOwned("hash") /\ Unread("hash") < Made("hash")
  BY BtReadFlow DEF BtReadsHeader, SameStart
<1>3. PICK fo \in Nat : fo = FirstOwned("hash") /\ fo < Made("hash") /\ Made("hash") \in Nat
  BY <1>1, <1>2, RingBound DEF Syncs
<1>4. PICK h \in [from : Nat, num : Nat, avail : Nat] : h = hashBuf[Slot("hash", fo)]
  BY <1>1, BlockFields
<1>5. HashBlockInv(fo) /\ h.from + Covered(h) = HashFrom(fo + 1)
  BY <1>1, <1>2, <1>3, <1>4 DEF HashFlow, HashBlockInv
<1>6. HashFrom(fo) = h.from /\ HashReach(fo) = h.from + h.avail
  BY <1>3, <1>4 DEF HashFrom, HashReach
<1>7. /\ BtAt + bt.hashRem = HashFrom(fo) /\ BtAt + bt.hashNumAvail <= HashReach(fo)
      /\ bt.hashRem = 0
  BY <1>1, <1>2, <1>3 DEF HashFlow
<1>8. CurrentSlot("hash") = Slot("hash", fo)
  BY <1>3 DEF CurrentSlot, FirstOwned
<1> DEFINE more == IF Short(h) THEN h.avail ELSE 0
           left == IF Short(h) THEN 0 ELSE h.avail
<1>9. Short(h) \in BOOLEAN /\ more \in Nat /\ left \in Nat
  BY DEF Short
<1>10. bt' = [bt EXCEPT !.hashRem = h.num, !.hashNumAvail = left,
                        !.block.avail = bt.block.num + h.avail, !.block.num = @ + more, !.full = Short(h)]
  BY <1>4, <1>8, Zenon DEF BtReadsHeader, Short
<1> HIDE DEF more, left
<1>11. /\ bt'.hashRem = h.num /\ bt'.hashNumAvail = left
       /\ bt'.pos = bt.pos /\ bt'.sent = bt.sent /\ bt'.full = Short(h)
       /\ bt'.block = [bt.block EXCEPT !.avail = bt.block.num + h.avail, !.num = @ + more]
  BY <1>1, <1>10 DEF DataTypeOK
<1>12. PICK b : b = [bt.block EXCEPT !.avail = bt.block.num + h.avail, !.num = @ + more]
  OBVIOUS
<1>13. b.from = bt.block.from /\ b.avail = bt.block.num + h.avail /\ b.num = bt.block.num + more
  BY <1>1, <1>12 DEF DataTypeOK
<1>14. BtAt' = BtAt + more /\ BtAt \in Nat
  BY <1>1, <1>2, <1>9, <1>11, <1>12, <1>13, Fields DEF BtAt
<1>15. h.from = BtAt
  BY <1>6, <1>7, <1>14
<1>16. bt'.block.from = bt.block.from /\ bt'.block.avail = bt.block.num + h.avail
       /\ bt'.block.num = bt.block.num + more
  BY <1>11, <1>12, <1>13
<1>17. BtAt + bt.hashNumAvail <= h.from + h.avail
  BY <1>6, <1>7
<1> QED BY <1>3, <1>4, <1>5, <1>7, <1>11, <1>14, <1>15, <1>16, <1>17 DEF more, left

\* What bt takes of its heads is where it was in the flow.
LEMMA HashFlowRead ==
  ASSUME Inv, FlowInv, BtReadsHeader
  PROVE  HashFlow'
<1> SUFFICES ASSUME Working', ~needStart'["hash"] PROVE HashFlow'
  BY DEF HashFlow
<1>1. DataTypeOK /\ HashFlow /\ SpareInv
  BY DEF FlowInv
<1>2. /\ Filling /\ Filling' /\ Working /\ ~needStart["hash"] /\ pc["bt"] \in NextLabels
      /\ Unread("hash") = FirstOwned("hash") /\ Unread("hash") < Made("hash")
      /\ Made("hash")' = Made("hash") /\ FirstOwned("hash")' = FirstOwned("hash")
      /\ Unread("hash")' = Unread("hash") + 1 /\ pc'["bt"] = "fill"
      /\ hashBuf' = hashBuf /\ mf' = mf
  BY BtReadFlow DEF BtReadsHeader, SameStart
<1>3. PICK fo \in Nat : fo = FirstOwned("hash") /\ fo < Made("hash") /\ Made("hash") \in Nat
  BY <1>1, <1>2, RingBound DEF Syncs
<1>4. PICK h \in [from : Nat, num : Nat, avail : Nat] :
        /\ HashBlockInv(fo) /\ h = hashBuf[Slot("hash", fo)]
        /\ h.from = BtAt /\ h.from + Covered(h) = HashFrom(fo + 1)
        /\ bt'.hashRem = h.num /\ bt'.hashNumAvail = (IF Short(h) THEN 0 ELSE h.avail)
        /\ BtAt' = BtAt + (IF Short(h) THEN h.avail ELSE 0)
  BY <1>3, HeaderIsRead
<1>5. \A i : HashFrom(i)' = HashFrom(i) /\ HashReach(i)' = HashReach(i)
  BY <1>2 DEF HashFrom, HashReach
<1>6. \A i : HashBlockInv(i)' <=> HashBlockInv(i)
  BY <1>2, <1>5 DEF HashBlockInv, Over
<1>7. h.num <= h.avail /\ h.from + h.avail <= HashReach(fo + 1) /\ (Short(h) => h.num = 0)
  BY <1>4 DEF HashBlockInv
<1>8. BtAt' + bt'.hashRem = HashFrom(fo + 1) /\ BtAt' + bt'.hashNumAvail <= HashReach(fo + 1)
  <2>1. HashReach(fo + 1) \in Nat /\ HashFrom(fo + 1) \in Nat
    BY <1>1, <1>3, BlockFields
  <2> QED BY <1>4, <1>7, <2>1 DEF Covered
<1>9. Unread("hash")' = fo + 1
  BY <1>2, <1>3
<1>10. Over' <=> Over
  BY <1>2 DEF Over
<1>11. pc'["bt"] \notin NextLabels /\ bt'.hashRem <= hashBuf'[Slot("hash", FirstOwned("hash"))].num
  BY <1>2, <1>3, <1>4 DEF NextLabels
<1> QED
  BY <1>1, <1>2, <1>5, <1>6, <1>8, <1>9, <1>10, <1>11 DEF HashFlow

LEMMA HashFlowGet ==
  ASSUME Inv, FlowInv, BtGetMatches
  PROVE  /\ HashFlow'
         /\ Working => \E n \in Nat \ {0} :
                         /\ n <= bt.hashRem /\ Filling /\ Filling'
                         /\ BtAt' = BtAt + n /\ bt'.pos = bt.pos + n /\ bt'.sent = bt.sent
                         /\ bt'.hashRem = bt.hashRem - n /\ bt'.hashNumAvail = bt.hashNumAvail - n
                         /\ bt'.block.from = bt.block.from /\ bt'.block.avail = bt.block.avail
                         /\ bt'.block.num = bt.block.num + n /\ bt.block.num + n <= MaxBtPositions
<1>1. DataTypeOK /\ HashFlow /\ BtInv
  BY DEF FlowInv
<1>2. UNCHANGED syncVars /\ UNCHANGED mf /\ UNCHANGED hashBuf /\ pc["bt"] = "fill"
  BY DEF BtGetMatches
<1>3. Filling /\ Filling' /\ (Working' <=> Working) /\ needStart' = needStart /\ pc' = pc
  BY <1>2 DEF Filling, syncVars, flagVars, Working
<1>4. Smaller(bt.hashRem, MaxBtPositions - bt.block.num) \in Int
      /\ Smaller(bt.hashRem, MaxBtPositions - bt.block.num) <= bt.hashRem
      /\ Smaller(bt.hashRem, MaxBtPositions - bt.block.num) <= MaxBtPositions - bt.block.num
  BY <1>1, Fields, WindowSizes DEF Smaller
<1>5. PICK n \in 1 .. Smaller(bt.hashRem, MaxBtPositions - bt.block.num), full \in BOOLEAN :
        bt' = [bt EXCEPT !.pos = @ + n, !.ptr = @ + n, !.hashRem = @ - n,
                         !.hashNumAvail = @ - n, !.block.num = @ + n, !.full = full]
  BY Zenon DEF BtGetMatches
<1>6. n \in Nat \ {0} /\ n <= bt.hashRem /\ bt.block.num + n <= MaxBtPositions
  BY <1>1, <1>4, Fields, WindowSizes
<1>7. /\ bt'.pos = bt.pos + n /\ bt'.sent = bt.sent /\ bt'.hashRem = bt.hashRem - n
      /\ bt'.hashNumAvail = bt.hashNumAvail - n
      /\ bt'.block = [bt.block EXCEPT !.num = @ + n]
  BY <1>1, <1>5 DEF DataTypeOK
<1>8. bt'.block.from = bt.block.from /\ bt'.block.avail = bt.block.avail
      /\ bt'.block.num = bt.block.num + n
  BY <1>1, <1>7 DEF DataTypeOK
<1>9. BtAt' = BtAt + n /\ BtAt \in Nat
  BY <1>1, <1>3, <1>6, <1>7, <1>8, Fields DEF BtAt
<1>10. HashFlow'
  <2> SUFFICES ASSUME Working', ~needStart'["hash"] PROVE HashFlow'
    BY DEF HashFlow
  <2>1. Working /\ ~needStart["hash"] /\ (Over' <=> Over)
    BY <1>2, <1>3 DEF Over
  <2>2. /\ Made("hash")' = Made("hash") /\ FirstOwned("hash")' = FirstOwned("hash")
        /\ Unread("hash")' = Unread("hash")
    BY <1>2 DEF Made, Published, FirstOwned, Unread, syncVars, flagVars, countVars
  <2>3. \A i : HashFrom(i)' = HashFrom(i) /\ HashReach(i)' = HashReach(i)
    BY <1>2, <2>2 DEF HashFrom, HashReach
  <2>4. \A i : HashBlockInv(i)' <=> HashBlockInv(i)
    BY <1>2, <2>1, <2>3 DEF HashBlockInv
  <2>5. BtAt' + bt'.hashRem = BtAt + bt.hashRem /\ BtAt' + bt'.hashNumAvail = BtAt + bt.hashNumAvail
    BY <1>1, <1>6, <1>7, <1>9, Fields
  <2>6. pc["bt"] \notin NextLabels /\ pc'["bt"] \notin NextLabels
    BY <1>2, <1>3 DEF NextLabels
  <2>7. bt'.hashRem <= hashBuf[Slot("hash", FirstOwned("hash"))].num
    <3>1. bt.hashRem <= hashBuf[Slot("hash", FirstOwned("hash"))].num
      BY <1>1, <2>1, <2>6 DEF HashFlow
    <3>2. PICK fo \in Nat : fo = FirstOwned("hash")
      BY <2>1, RingBound DEF FlowInv, Syncs
    <3>3. hashBuf[Slot("hash", fo)].num \in Nat /\ bt.hashRem \in Nat
      BY <1>1, BlockFields, Fields
    <3> QED BY <1>6, <1>7, <3>1, <3>2, <3>3
  <2> QED BY <1>1, <1>2, <2>1, <2>2, <2>3, <2>4, <2>5, <2>6, <2>7 DEF HashFlow
<1> QED BY <1>3, <1>6, <1>7, <1>8, <1>9, <1>10

\* Asking for a hash block starts the flow, or goes on with the next block.
LEMMA HashFlowAsk ==
  ASSUME Inv, FlowInv, BtAsks
  PROVE  HashFlow'
<1> SUFFICES ASSUME Working', ~needStart'["hash"] PROVE HashFlow'
  BY DEF HashFlow
<1>1. DataTypeOK /\ HashFlow /\ FreshInv /\ SpareInv
  BY DEF FlowInv
<1>2. BtGetNextBlock /\ bt.hashRem = 0 /\ ~bt.full /\ UNCHANGED dataVars
  BY DEF BtAsks
<1>3. /\ Working /\ Filling /\ Filling'
      /\ \/ /\ needStart["hash"] /\ Unstarted
            /\ Made("hash")' = 0 /\ FirstOwned("hash")' = 0 /\ Unread("hash")' = 0
         \/ /\ ~needStart["hash"] /\ Made("hash")' = Made("hash")
            /\ FirstOwned("hash")' = FirstOwned("hash") + 1
            /\ Unread("hash")' = Unread("hash") /\ Unread("hash") = FirstOwned("hash") + 1
      /\ pc'["bt"] \in NextLabels
  BY <1>2, BtAskFlow DEF SameStart
<1>4. mf' = mf /\ bt' = bt /\ hashBuf' = hashBuf /\ BtAt' = BtAt /\ (Over' <=> Over)
  BY <1>2, <1>3 DEF dataVars, BtAt, Over
<1>5. CASE needStart["hash"]
  <2>1. mf.pos = 0 /\ bt.sent = 0 /\ bt.block.num = 0 /\ bt.hashNumAvail = 0 /\ mf.streamPos = 0
    BY <1>1, <1>3, <1>5 DEF FreshInv
  <2>2. BtAt = 0
    BY <1>3, <2>1 DEF BtAt
  <2>3. /\ Made("hash")' = 0 /\ FirstOwned("hash")' = 0 /\ Unread("hash")' = 0
        /\ HashFrom(0)' = 0 /\ HashReach(0)' = 0
    BY <1>3, <1>4, <1>5, <2>1 DEF HashFrom, HashReach
  <2>4. BtAt' + bt'.hashRem = 0 /\ BtAt' + bt'.hashNumAvail = 0 /\ bt'.hashRem = 0 /\ mf'.pos = 0
        /\ pc'["bt"] \in NextLabels
    BY <1>2, <1>3, <1>4, <2>1, <2>2
  <2>5. \A k \in 0 .. 0 : mf'.pos - HashFrom(k)' <= (0 - k) * MaxHeads
    <3>1. \A k \in 0 .. 0 : k = 0
      OBVIOUS
    <3>2. mf'.pos - HashFrom(0)' <= (0 - 0) * MaxHeads
      BY <2>3, <2>4, WindowSizes
    <3> QED BY <3>1, <3>2
  <2>6. \A i \in 0 .. 0 - 1 : FALSE
    OBVIOUS
  <2> QED BY <2>3, <2>4, <2>5, <2>6 DEF HashFlow
<1>6. CASE ~needStart["hash"]
  <2>1. \A i : HashFrom(i)' = HashFrom(i) /\ HashReach(i)' = HashReach(i)
    BY <1>3, <1>4, <1>6 DEF HashFrom, HashReach
  <2>2. \A i : HashBlockInv(i)' <=> HashBlockInv(i)
    BY <1>4, <2>1 DEF HashBlockInv
  <2>3. FirstOwned("hash") \in Nat /\ Made("hash") \in Nat
    BY <1>1, <1>3, <1>6, RingBound DEF Syncs
  <2>4. /\ \A i \in FirstOwned("hash") + 1 .. Made("hash") - 1 : i \in FirstOwned("hash") .. Made("hash") - 1
        /\ \A i \in FirstOwned("hash") + 1 .. Made("hash") : i \in FirstOwned("hash") .. Made("hash")
    BY <2>3
  <2> QED BY <1>1, <1>2, <1>3, <1>4, <1>6, <2>1, <2>2, <2>4 DEF HashFlow
<1> QED BY <1>5, <1>6
-----------------------------------------------------------------------------
(* The flow of bt blocks. *)

\* It goes on when the window or what bt announces grows.
LEMMA BtFlowGrows ==
  ASSUME DataTypeOK, BtFlow, SpareInv, Inv, SameFlow("bt"), btBuf' = btBuf, lz' = lz, bt'.sent = bt.sent,
         BtAt' + bt'.hashNumAvail \in Nat, BtAt + bt.hashNumAvail <= BtAt' + bt'.hashNumAvail,
         mf'.streamPos \in Nat, mf.streamPos <= mf'.streamPos,
         Over => Over' /\ mf'.streamPos = mf.streamPos
  PROVE  BtFlow'
<1> SUFFICES ASSUME Working', ~needStart'["bt"] PROVE BtFlow'
  BY DEF BtFlow
<1>1. /\ Working /\ ~needStart["bt"] /\ Made("bt")' = Made("bt")
      /\ FirstOwned("bt")' = FirstOwned("bt") /\ Unread("bt")' = Unread("bt")
      /\ pc'["lz"] \in NextLabels => pc["lz"] \in NextLabels
  BY DEF SameFlow, Syncs, Consumer
<1>2. PICK fo \in Nat, made \in Nat, unread \in Nat :
        /\ fo = FirstOwned("bt") /\ made = Made("bt") /\ unread = Unread("bt")
        /\ fo <= unread /\ unread <= made
  BY <1>1, RingBound DEF Syncs
<1>3. BtAt + bt.hashNumAvail \in Nat /\ mf.streamPos \in Nat /\ lz.pos \in Nat /\ lz.avail \in Nat
  BY Fields
<1>4. \A i : BtFrom(i)' = BtFrom(i)
  BY <1>1 DEF BtFrom
<1>5. \A i \in Nat : BtReach(i) <= BtReach(i)' /\ BtReach(i) \in Nat /\ BtReach(i)' \in Nat
  <2> SUFFICES ASSUME NEW i \in Nat PROVE BtReach(i) <= BtReach(i)' /\ BtReach(i) \in Nat /\ BtReach(i)' \in Nat
    OBVIOUS
  <2>1. BtReach(i) \in Nat
    BY BlockFields
  <2>2. CASE i < made
    BY <1>1, <1>2, <2>1, <2>2 DEF BtReach
  <2>3. CASE ~(i < made)
    BY <1>1, <1>2, <1>3, <2>1, <2>3 DEF BtReach
  <2> QED BY <2>2, <2>3
<1>6. ASSUME NEW i \in fo .. made - 1 PROVE BtBlockInv(i)'
  <2>1. BtBlockInv(i) /\ i \in Nat /\ i + 1 \in Nat
    BY <1>1, <1>2 DEF BtFlow
  <2>2. PICK b \in [from : Nat, num : Nat, avail : Nat] :
          b = btBuf[Slot("bt", i)] /\ b = btBuf'[Slot("bt", i)]
    BY <1>2, BlockFields
  <2>3. BtReach(i + 1) <= BtReach(i + 1)' /\ BtReach(i + 1) \in Nat /\ BtReach(i + 1)' \in Nat
    BY <1>5, <2>1
  <2>4. /\ b.num <= b.avail /\ (b.num <= MaxBtPositions \/ Over)
        /\ b.avail = 0 => Over /\ b.from = mf.streamPos
        /\ b.from + b.num = BtFrom(i + 1)
        /\ b.from + b.avail <= BtReach(i + 1) /\ b.from + b.avail <= mf.streamPos
    BY <2>1, <2>2 DEF BtBlockInv
  <2>5. /\ b.num <= MaxBtPositions \/ Over'
        /\ b.avail = 0 => Over' /\ b.from = mf'.streamPos
        /\ b.from + b.num = BtFrom(i + 1)'
        /\ b.from + b.avail <= BtReach(i + 1)' /\ b.from + b.avail <= mf'.streamPos
    BY <1>3, <1>4, <2>3, <2>4
  <2> QED BY <2>2, <2>4, <2>5 DEF BtBlockInv
<1>7. /\ lz'.pos + lz'.rem = BtFrom(unread)'
      /\ lz'.pos + lz'.avail <= BtReach(unread)'
      /\ pc'["lz"] \in NextLabels => lz'.rem = 0 /\ ~lz'.eof
  BY <1>1, <1>2, <1>3, <1>4, <1>5 DEF BtFlow
<1>8. ~Over' => \A k \in fo .. made : bt'.sent - BtFrom(k)' <= (made - k) * MaxBtPositions
  BY <1>1, <1>2, <1>4 DEF BtFlow
<1>9. FirstOwned("bt")' = fo /\ Made("bt")' = made /\ Unread("bt")' = unread
  BY <1>1, <1>2
<1> QED BY <1>6, <1>7, <1>8, <1>9 DEF BtFlow

\* A published block continues the flow.
LEMMA BtFlowEnd ==
  ASSUME Inv, FlowInv, BtEndsBlock
  PROVE  /\ BtFlow'
         /\ Working' => BtAt' = BtAt /\ bt'.sent = BtAt
<1>1. DataTypeOK /\ BtFlow /\ BtInv /\ SpareInv
  BY DEF FlowInv
<1>2. BtUnlock /\ bt.full /\ mf' = mf /\ lz' = lz /\ (Over' <=> Over)
      /\ btBuf' = [btBuf EXCEPT ![Slot("bt", blockIndex["bt"])] = bt.block]
      /\ bt' = [bt EXCEPT !.sent = @ + bt.block.num]
  BY DEF BtEndsBlock, Over
<1>3. /\ bt'.sent = bt.sent + bt.block.num /\ bt'.hashNumAvail = bt.hashNumAvail /\ bt'.hashRem = bt.hashRem
  BY <1>1, <1>2 DEF DataTypeOK
<1>4. /\ bt.block \in [from : Nat, num : Nat, avail : Nat] /\ bt.sent \in Nat /\ bt.hashNumAvail \in Nat
      /\ bt.block.from \in Nat /\ bt.block.num \in Nat /\ bt.block.avail \in Nat
      /\ mf.streamPos \in Nat /\ BtAt \in Nat
  BY <1>1, Fields DEF DataTypeOK
<1> SUFFICES ASSUME Working' PROVE BtFlow' /\ BtAt' = BtAt /\ bt'.sent = BtAt
  BY DEF BtFlow
<1>5. /\ Working /\ Filling /\ ~Filling' /\ FillsBlock("bt") /\ ~needStart["bt"]
      /\ pc'["lz"] = pc["lz"] /\ needStart' = needStart
      /\ Made("bt")' = Made("bt") + 1
      /\ FirstOwned("bt")' = FirstOwned("bt") /\ Unread("bt")' = Unread("bt")
  BY <1>2, BtEndFlow DEF SameStart
<1>6. BtAt = bt.sent + bt.block.num /\ BtAt' = bt'.sent /\ bt'.sent = BtAt
  <2>1. BtAt = bt.sent + bt.block.num
    BY <1>5 DEF BtAt
  <2>2. BtAt' = bt'.sent + 0
    BY <1>5 DEF BtAt
  <2>3. bt'.sent \in Nat
    BY <1>3, <1>4
  <2> QED BY <1>3, <2>1, <2>2, <2>3
<1>7. PICK fo \in Nat, made \in Nat, unread \in Nat :
        /\ fo = FirstOwned("bt") /\ made = Made("bt") /\ unread = Unread("bt")
        /\ fo <= unread /\ unread <= made /\ made = blockIndex["bt"]
  BY <1>1, <1>5, RingBound DEF Syncs
<1>8. Slot("bt", made) \in 0 .. kMtBtNumBlocks - 1
  BY <1>7, SlotInRing
<1>9. btBuf'[Slot("bt", made)] = bt.block
  BY <1>1, <1>2, <1>7, <1>8 DEF DataTypeOK
<1>10. \A i \in fo .. made - 1 : btBuf'[Slot("bt", i)] = btBuf[Slot("bt", i)]
  <2> SUFFICES ASSUME NEW i \in fo .. made - 1 PROVE btBuf'[Slot("bt", i)] = btBuf[Slot("bt", i)]
    OBVIOUS
  <2>1. Slot("bt", i) # Slot("bt", blockIndex["bt"])
    BY <1>1, <1>5, <1>7, SlotIsFree DEF Syncs
  <2>2. Slot("bt", i) \in 0 .. kMtBtNumBlocks - 1
    BY <1>7, SlotInRing
  <2> QED BY <1>1, <1>2, <2>1, <2>2 DEF DataTypeOK
<1>11. /\ bt.block.from = bt.sent /\ bt.block.from + bt.block.avail = BtAt + bt.hashNumAvail
       /\ bt.block.num <= MaxBtPositions \/ Over
       /\ bt.block.num > 0 \/ (Over /\ BtAt = mf.streamPos)
       /\ BtAt + bt.hashNumAvail <= mf.streamPos
  BY <1>1, <1>2, <1>5 DEF BtInv
<1>12. \A i \in fo .. made : BtFrom(i)' = BtFrom(i) /\ BtFrom(i) \in Nat
                             /\ BtReach(i)' = BtReach(i) /\ BtReach(i) \in Nat
  <2> SUFFICES ASSUME NEW i \in fo .. made
               PROVE /\ BtFrom(i)' = BtFrom(i) /\ BtFrom(i) \in Nat
                     /\ BtReach(i)' = BtReach(i) /\ BtReach(i) \in Nat
    OBVIOUS
  <2>1. /\ BtFrom(i)' = btBuf'[Slot("bt", i)].from
        /\ BtReach(i)' = btBuf'[Slot("bt", i)].from + btBuf'[Slot("bt", i)].avail
    BY <1>5, <1>7 DEF BtFrom, BtReach
  <2>2. BtFrom(i) \in Nat /\ BtReach(i) \in Nat
    BY <1>1, <1>7, BlockFields
  <2>3. CASE i = made
    BY <1>7, <1>9, <1>11, <2>1, <2>2, <2>3 DEF BtFrom, BtReach
  <2>4. CASE i \in fo .. made - 1
    BY <1>7, <1>10, <2>1, <2>2, <2>4 DEF BtFrom, BtReach
  <2> QED BY <1>7, <2>3, <2>4
<1>13. BtFrom(made + 1)' = BtAt /\ BtReach(made + 1)' = BtAt + bt.hashNumAvail
  BY <1>3, <1>5, <1>6, <1>7 DEF BtFrom, BtReach
<1>14. ASSUME NEW i \in fo .. made PROVE BtBlockInv(i)'
  <2>1. CASE i = made
    <3>1. /\ bt.block.num <= bt.block.avail
          /\ bt.block.avail = 0 => Over /\ bt.block.from = mf.streamPos
          /\ bt.block.from + bt.block.num = BtFrom(made + 1)'
          /\ bt.block.from + bt.block.avail <= BtReach(made + 1)'
          /\ bt.block.from + bt.block.avail <= mf.streamPos
      BY <1>4, <1>6, <1>11, <1>13
    <3> QED BY <1>2, <1>9, <1>11, <2>1, <3>1 DEF BtBlockInv
  <2>2. CASE i \in fo .. made - 1
    <3>1. BtBlockInv(i) /\ i + 1 \in fo .. made
      BY <1>1, <1>5, <1>7, <2>2 DEF BtFlow
    <3> QED BY <1>2, <1>10, <1>12, <2>2, <3>1 DEF BtBlockInv
  <2> QED BY <1>7, <2>1, <2>2
<1>15. /\ lz'.pos + lz'.rem = BtFrom(unread)'
       /\ lz'.pos + lz'.avail <= BtReach(unread)'
       /\ pc'["lz"] \in NextLabels => lz'.rem = 0 /\ ~lz'.eof
  <2>1. unread \in fo .. made
    BY <1>7
  <2> QED BY <1>1, <1>2, <1>5, <1>7, <1>12, <2>1 DEF BtFlow
<1>16. ASSUME ~Over', NEW k \in fo .. made + 1
       PROVE bt'.sent - BtFrom(k)' <= (made + 1 - k) * MaxBtPositions
  <2>1. ~Over /\ bt.block.num <= MaxBtPositions
    BY <1>2, <1>11, <1>16
  <2>2. CASE k = made + 1
    BY <1>4, <1>6, <1>7, <1>13, <2>2, WindowSizes
  <2>3. CASE k \in fo .. made
    <3>1. bt.sent - BtFrom(k) <= (made - k) * MaxBtPositions
      BY <1>1, <1>5, <1>7, <2>1, <2>3 DEF BtFlow
    <3>2. (made + 1 - k) * MaxBtPositions = (made - k) * MaxBtPositions + MaxBtPositions
      BY <1>7, <2>3, OneMore, made + 1 - k = (made - k) + 1, WindowSizes
    <3>3. (made - k) * MaxBtPositions \in Int /\ BtFrom(k)' = BtFrom(k) /\ BtFrom(k) \in Nat
      BY <1>7, <1>12, <2>3, WindowSizes
    <3> QED BY <1>3, <1>4, <2>1, <3>1, <3>2, <3>3, WindowSizes
  <2> QED BY <1>7, <2>2, <2>3
<1>17. FirstOwned("bt")' = fo /\ Made("bt")' = made + 1 /\ Unread("bt")' = unread
  BY <1>5, <1>7
<1>18. made + 1 - 1 = made
  BY <1>7
<1>19. BtFlow'
  BY <1>14, <1>15, <1>16, <1>17, <1>18 DEF BtFlow
<1> QED BY <1>6, <1>19

\* lz reads the header of the next block.
LEMMA LzIsTold ==
  ASSUME Inv, FlowInv, LzReadsHeader
  PROVE  \E b \in [from : Nat, num : Nat, avail : Nat] :
           /\ b.from = lz.pos /\ lz.rem = 0 /\ ~lz.eof
           /\ b.num <= b.avail /\ (b.num <= MaxBtPositions \/ Over)
           /\ b.avail = 0 => Over /\ b.from = mf.streamPos
           /\ lz.avail <= b.avail /\ b.from + b.avail <= mf.streamPos
           /\ lz'.pos = lz.pos /\ lz'.rem = b.num /\ lz'.avail = b.avail /\ lz'.eof = (b.avail = 0)
           /\ b.from + b.num = BtFrom(FirstOwned("bt") + 1)
           /\ b.from + b.avail <= BtReach(FirstOwned("bt") + 1)
<1>1. DataTypeOK /\ BtFlow /\ SpareInv
  BY DEF FlowInv
<1>2. /\ Working /\ ~needStart["bt"] /\ pc["lz"] \in NextLabels
      /\ Unread("bt") = FirstOwned("bt") /\ Unread("bt") < Made("bt")
  BY LzReadFlow DEF LzReadsHeader
<1>3. PICK fo \in Nat : fo = FirstOwned("bt") /\ fo < Made("bt") /\ Made("bt") \in Nat
  BY <1>1, <1>2, RingBound DEF Syncs
<1>4. PICK b \in [from : Nat, num : Nat, avail : Nat] : b = btBuf[Slot("bt", fo)]
  BY <1>1, BlockFields
<1>5. BtBlockInv(fo)
  BY <1>1, <1>2, <1>3 DEF BtFlow
<1>6. BtFrom(fo) = b.from /\ BtReach(fo) = b.from + b.avail
  BY <1>3, <1>4 DEF BtFrom, BtReach
<1>7. lz.pos + lz.rem = BtFrom(fo) /\ lz.pos + lz.avail <= BtReach(fo) /\ lz.rem = 0 /\ ~lz.eof
  BY <1>1, <1>2, <1>3 DEF BtFlow
<1>8. CurrentSlot("bt") = Slot("bt", fo)
  BY <1>3 DEF CurrentSlot, FirstOwned
<1>9. lz' = [lz EXCEPT !.rem = b.num, !.avail = b.avail, !.eof = b.avail = 0]
  BY <1>4, <1>8 DEF LzReadsHeader
<1>10. lz'.pos = lz.pos /\ lz'.rem = b.num /\ lz'.avail = b.avail /\ lz'.eof = (b.avail = 0)
  BY <1>1, <1>9 DEF DataTypeOK
<1>11. b.from = lz.pos /\ lz.avail <= b.avail
  BY <1>1, <1>6, <1>7, Fields
<1> QED BY <1>3, <1>4, <1>5, <1>7, <1>10, <1>11 DEF BtBlockInv

LEMMA BtFlowTold ==
  ASSUME Inv, FlowInv, LzReadsHeader
  PROVE  BtFlow' /\ LzInv'
<1>1. DataTypeOK /\ BtFlow /\ LzInv /\ SpareInv
  BY DEF FlowInv
<1>2. /\ Working /\ ~needStart["bt"] /\ pc'["lz"] = "using" /\ (Filling' <=> Filling)
      /\ Unread("bt") = FirstOwned("bt") /\ Unread("bt")' = Unread("bt") + 1
      /\ Made("bt")' = Made("bt") /\ FirstOwned("bt")' = FirstOwned("bt")
      /\ btBuf' = btBuf /\ bt' = bt /\ mf' = mf
  BY LzReadFlow DEF LzReadsHeader
<1>3. PICK b \in [from : Nat, num : Nat, avail : Nat] :
        /\ b.from = lz.pos /\ b.num <= b.avail /\ (b.num <= MaxBtPositions \/ Over)
        /\ b.avail = 0 => Over /\ b.from = mf.streamPos
        /\ b.from + b.avail <= mf.streamPos
        /\ lz'.pos = lz.pos /\ lz'.rem = b.num /\ lz'.avail = b.avail /\ lz'.eof = (b.avail = 0)
        /\ b.from + b.num = BtFrom(FirstOwned("bt") + 1)
        /\ b.from + b.avail <= BtReach(FirstOwned("bt") + 1)
  BY LzIsTold
<1>4. BtAt' = BtAt /\ (Over' <=> Over)
  BY <1>2 DEF BtAt, Over
<1>5. \A i : BtFrom(i)' = BtFrom(i) /\ BtReach(i)' = BtReach(i)
  BY <1>2, <1>4 DEF BtFrom, BtReach
<1>6. \A i : BtBlockInv(i)' <=> BtBlockInv(i)
  BY <1>2, <1>4, <1>5 DEF BtBlockInv
<1>7. pc'["lz"] \notin NextLabels
  BY <1>2 DEF NextLabels
<1>8. PICK fo \in Nat : fo = FirstOwned("bt")
  BY <1>1, <1>2, RingBound DEF Syncs
<1>9. lz'.pos + lz'.rem = BtFrom(fo + 1)' /\ lz'.pos + lz'.avail <= BtReach(fo + 1)'
  <2>1. BtFrom(fo + 1)' = BtFrom(fo + 1) /\ BtReach(fo + 1)' = BtReach(fo + 1)
    BY <1>5
  <2>2. b.from + b.num = BtFrom(fo + 1) /\ b.from + b.avail <= BtReach(fo + 1)
    BY <1>3, <1>8
  <2> QED BY <1>3, <2>1, <2>2
<1>10. Unread("bt")' = fo + 1
  BY <1>2, <1>8
<1>11. BtFlow'
  BY <1>1, <1>2, <1>4, <1>5, <1>6, <1>7, <1>9, <1>10 DEF BtFlow
<1>12. /\ lz'.rem <= lz'.avail /\ lz'.pos + lz'.avail <= mf'.streamPos
       /\ lz'.rem <= MaxBtPositions \/ Over'
       /\ lz'.eof => Over' /\ lz'.pos = mf'.streamPos
  BY <1>2, <1>3, <1>4
<1>13. LzInv'
  BY <1>12 DEF LzInv
<1> QED BY <1>11, <1>13

\* lz takes a position of its block.
LEMMA BtFlowTake ==
  ASSUME Inv, FlowInv, LzTakesPosition
  PROVE  /\ BtFlow' /\ LzInv' /\ ~lz.eof /\ ~needStart["bt"] /\ lz.avail > 0
         /\ lz'.pos = lz.pos + 1 /\ lz'.avail = lz.avail - 1 /\ lz'.rem = lz.rem - 1 /\ lz'.eof = lz.eof
<1>1. DataTypeOK /\ BtFlow /\ LzInv /\ FreshInv
  BY DEF FlowInv
<1>2. pc["lz"] = "using" /\ lz.rem > 0 /\ UNCHANGED syncVars /\ mf' = mf /\ btBuf' = btBuf /\ bt' = bt
  BY DEF LzTakesPosition
<1>3. Working /\ Working'
  BY <1>2 DEF Working, syncVars
<1>4. ~needStart["bt"] /\ needStart' = needStart /\ pc' = pc
  BY <1>1, <1>2, <1>3 DEF FreshInv, NewLz, syncVars, flagVars
<1>5. /\ lz'.pos = lz.pos + 1 /\ lz'.avail = lz.avail - 1 /\ lz'.rem = lz.rem - 1 /\ lz'.eof = lz.eof
  BY <1>1 DEF LzTakesPosition, DataTypeOK
<1>6. /\ lz.pos \in Nat /\ lz.avail \in Nat /\ lz.rem \in Nat /\ mf.streamPos \in Nat /\ lz.eof \in BOOLEAN
      /\ lz.rem <= lz.avail /\ lz.pos + lz.avail <= mf.streamPos
      /\ lz.eof => Over /\ lz.pos = mf.streamPos
      /\ lz.rem <= MaxBtPositions \/ Over
  BY <1>1, <1>3, Fields DEF LzInv
<1>7. ~lz.eof /\ lz.avail > 0
  BY <1>2, <1>6
<1>8. Over' <=> Over
  BY <1>2 DEF Over
<1>9. LzInv'
  BY <1>2, <1>5, <1>6, <1>7, <1>8, WindowSizes DEF LzInv
<1>10. /\ Made("bt")' = Made("bt") /\ FirstOwned("bt")' = FirstOwned("bt")
       /\ Unread("bt")' = Unread("bt") /\ BtAt' = BtAt
  BY <1>2 DEF Made, Published, FirstOwned, Unread, BtAt, Filling, syncVars, flagVars, countVars
<1>11. \A i : BtFrom(i)' = BtFrom(i) /\ BtReach(i)' = BtReach(i)
  BY <1>2, <1>10 DEF BtFrom, BtReach
<1>12. \A i : BtBlockInv(i)' <=> BtBlockInv(i)
  BY <1>2, <1>8, <1>11 DEF BtBlockInv
<1>13. lz'.pos + lz'.rem = lz.pos + lz.rem /\ lz'.pos + lz'.avail = lz.pos + lz.avail
  BY <1>5, <1>6
<1>14. pc'["lz"] \notin NextLabels
  BY <1>2, <1>4 DEF NextLabels
<1>15. BtFlow'
  BY <1>1, <1>2, <1>3, <1>4, <1>8, <1>10, <1>11, <1>12, <1>13, <1>14 DEF BtFlow
<1> QED BY <1>4, <1>5, <1>7, <1>9, <1>15

\* lz asks for a block: the flow starts, or goes on with the next block.
LEMMA BtFlowAsk ==
  ASSUME Inv, FlowInv, LzAsks
  PROVE  BtFlow'
<1> SUFFICES ASSUME ~needStart'["bt"] PROVE BtFlow'
  BY DEF BtFlow
<1>1. DataTypeOK /\ BtFlow /\ FreshInv /\ SpareInv
  BY DEF FlowInv
<1>2. LzGetNextBlock /\ lz.rem = 0 /\ ~lz.eof /\ UNCHANGED dataVars
  BY DEF LzAsks
<1>3. /\ Working /\ Working' /\ (Filling' <=> Filling) /\ pc'["lz"] \in NextLabels
      /\ \/ /\ needStart["bt"] /\ Unstarted /\ ~Filling
            /\ Made("bt")' = 0 /\ FirstOwned("bt")' = 0 /\ Unread("bt")' = 0
         \/ /\ ~needStart["bt"] /\ Made("bt")' = Made("bt")
            /\ FirstOwned("bt")' = FirstOwned("bt") + 1
            /\ Unread("bt")' = Unread("bt") /\ Unread("bt") = FirstOwned("bt") + 1
  BY <1>2, LzAskFlow
<1>4. mf' = mf /\ bt' = bt /\ btBuf' = btBuf /\ lz' = lz /\ BtAt' = BtAt /\ (Over' <=> Over)
  BY <1>2, <1>3 DEF dataVars, BtAt, Over
<1>5. CASE needStart["bt"]
  <2>1. bt.sent = 0 /\ bt.hashNumAvail = 0 /\ lz = NewLz
    BY <1>1, <1>3, <1>5 DEF FreshInv
  <2>2. BtAt = 0 /\ lz.pos = 0 /\ lz.avail = 0
    BY <1>3, <1>5, <2>1 DEF BtAt, NewLz
  <2>3. /\ Made("bt")' = 0 /\ FirstOwned("bt")' = 0 /\ Unread("bt")' = 0
        /\ BtFrom(0)' = 0 /\ BtReach(0)' = 0
    BY <1>3, <1>4, <1>5, <2>1, <2>2 DEF BtFrom, BtReach
  <2>4. lz'.pos + lz'.rem = 0 /\ lz'.pos + lz'.avail = 0 /\ lz'.rem = 0 /\ ~lz'.eof /\ bt'.sent = 0
    BY <1>2, <1>4, <2>1, <2>2
  <2>5. \A k \in 0 .. 0 : bt'.sent - BtFrom(k)' <= (0 - k) * MaxBtPositions
    <3>1. \A k \in 0 .. 0 : k = 0
      OBVIOUS
    <3>2. bt'.sent - BtFrom(0)' <= (0 - 0) * MaxBtPositions
      BY <2>3, <2>4, WindowSizes
    <3> QED BY <3>1, <3>2
  <2>6. \A i \in 0 .. 0 - 1 : FALSE
    OBVIOUS
  <2> QED BY <2>3, <2>4, <2>5, <2>6 DEF BtFlow
<1>6. CASE ~needStart["bt"]
  <2>1. \A i : BtFrom(i)' = BtFrom(i) /\ BtReach(i)' = BtReach(i)
    BY <1>3, <1>4, <1>6 DEF BtFrom, BtReach
  <2>2. \A i : BtBlockInv(i)' <=> BtBlockInv(i)
    BY <1>4, <2>1 DEF BtBlockInv
  <2>3. FirstOwned("bt") \in Nat /\ Made("bt") \in Nat
    BY <1>1, <1>3, <1>6, RingBound DEF Syncs
  <2>4. /\ \A i \in FirstOwned("bt") + 1 .. Made("bt") - 1 : i \in FirstOwned("bt") .. Made("bt") - 1
        /\ \A i \in FirstOwned("bt") + 1 .. Made("bt") : i \in FirstOwned("bt") .. Made("bt")
    BY <2>3
  <2> QED BY <1>1, <1>2, <1>3, <1>4, <1>6, <2>1, <2>2, <2>4 DEF BtFlow
<1> QED BY <1>5, <1>6
-----------------------------------------------------------------------------
(* Every step keeps the flow and what is known of the threads. *)

ThreadsInv == HashFlow /\ BtFlow /\ BtInv /\ LzInv /\ FreshInv

\* Nothing is said of threads that do not work.
LEMMA ThreadsRest ==
  ASSUME ~Working'
  PROVE  ThreadsInv'
  BY DEF ThreadsInv, HashFlow, BtFlow, BtInv, LzInv, FreshInv

LEMMA ThreadsQuiet ==
  ASSUME Inv, FlowInv, Quietly
  PROVE  ThreadsInv'
<1>1. CASE Working'
  <2>1. SameFlow("bt") /\ SameFlow("hash") /\ SameStart /\ (Filling' <=> Filling)
    BY <1>1, QuietFlow
  <2>2. UNCHANGED dataVars /\ SameWindow /\ BtAt' = BtAt
    BY <2>1 DEF Quietly, dataVars, SameWindow, Over, BtAt
  <2>3. mf' = mf /\ hashBuf' = hashBuf /\ btBuf' = btBuf /\ bt' = bt /\ lz' = lz
    BY <2>2 DEF dataVars
  <2>4. HashFlow /\ BtFlow /\ BtInv /\ LzInv /\ FreshInv
    BY DEF FlowInv
  <2>5. HashFlow' /\ BtFlow'
    BY <2>1, <2>2, <2>3, <2>4, HashFlowKept, BtFlowKept
  <2>6. BtInv' /\ LzInv' /\ FreshInv'
    BY <2>1, <2>2, <2>3, <2>4, ThreadsKept
  <2> QED BY <2>5, <2>6 DEF ThreadsInv
<1> QED BY <1>1, ThreadsRest

LEMMA ThreadsInit ==
  ASSUME Inv, InitStream
  PROVE  ThreadsInv'
<1>1. /\ needStart'["hash"] /\ needStart'["bt"] /\ pc'["bt"] = "start"
  BY DEF InitStream, InitMt, flagVars, Inv, TypeOK, PcTypeOK, LifeInv, Quiet, Goto, Threads, Syncs
<1>2. bt' = NewBt /\ lz' = NewLz /\ \E len : mf' = NewWindow(len)
  BY DEF InitStream
<1>3. ~Filling'
  BY <1>1 DEF Filling, NextLabels
<1>4. /\ bt'.sent = 0 /\ bt'.pos = 0 /\ bt'.hashRem = 0 /\ bt'.hashNumAvail = 0
      /\ lz'.pos = 0 /\ lz'.rem = 0 /\ lz'.avail = 0 /\ ~lz'.eof
      /\ mf'.pos = 0 /\ mf'.streamPos = 0 /\ ~mf'.ended /\ ~mf'.failed
  BY <1>2 DEF NewBt, NewLz, NewWindow
<1>5. BtAt' = 0 /\ ~Over'
  BY <1>3, <1>4 DEF BtAt, Over
<1>6. BtInv' /\ LzInv'
  BY <1>3, <1>4, <1>5, WindowSizes DEF BtInv, LzInv
<1>7. FreshInv'
  BY <1>2, <1>3, <1>4, <1>5 DEF FreshInv
<1> QED BY <1>1, <1>6, <1>7 DEF ThreadsInv, HashFlow, BtFlow

LEMMA ThreadsLzAsks ==
  ASSUME Inv, FlowInv, LzAsks
  PROVE  ThreadsInv'
<1>1. SameFlow("hash") /\ SameStart /\ (Filling' <=> Filling) /\ Working /\ Working'
  BY LzAskFlow DEF LzAsks
<1>2. UNCHANGED dataVars /\ SameWindow /\ BtAt' = BtAt
  BY <1>1 DEF LzAsks, dataVars, SameWindow, Over, BtAt
<1>3. mf' = mf /\ hashBuf' = hashBuf /\ btBuf' = btBuf /\ bt' = bt /\ lz' = lz
  BY <1>2 DEF dataVars
<1>4. HashFlow /\ BtFlow /\ BtInv /\ LzInv /\ FreshInv
  BY DEF FlowInv
<1>5. HashFlow'
  BY <1>1, <1>2, <1>3, <1>4, HashFlowKept
<1>6. BtInv' /\ LzInv' /\ FreshInv'
  BY <1>1, <1>2, <1>3, <1>4, ThreadsKept
<1> QED BY <1>5, <1>6, BtFlowAsk DEF ThreadsInv

\* What is known of bt does not depend on lz.
LEMMA BtInvKept ==
  ASSUME BtInv, FreshInv, SameStart, Filling' <=> Filling, mf' = mf, bt' = bt, ~needStart'["bt"]
  PROVE  BtInv' /\ FreshInv'
<1>1. Working /\ (Unstarted' => Unstarted) /\ BtAt' = BtAt /\ (Over' <=> Over)
  BY DEF SameStart, BtAt, Over
<1> QED BY <1>1 DEF BtInv, FreshInv

LEMMA ThreadsLzReads ==
  ASSUME Inv, FlowInv, LzReadsHeader
  PROVE  ThreadsInv'
<1>1. SameFlow("hash") /\ SameStart /\ (Filling' <=> Filling) /\ ~needStart'["bt"]
  BY LzReadFlow DEF LzReadsHeader
<1>2. mf' = mf /\ hashBuf' = hashBuf /\ bt' = bt
  BY DEF LzReadsHeader
<1>3. SameWindow /\ BtAt' = BtAt
  BY <1>1, <1>2 DEF SameWindow, Over, BtAt
<1>4. HashFlow /\ BtInv /\ FreshInv
  BY DEF FlowInv
<1>5. HashFlow'
  BY <1>1, <1>2, <1>3, <1>4, HashFlowKept
<1>6. BtInv' /\ FreshInv'
  BY <1>1, <1>2, <1>4, BtInvKept
<1> QED BY <1>5, <1>6, BtFlowTold DEF ThreadsInv

LEMMA ThreadsLzTakes ==
  ASSUME Inv, FlowInv, LzTakesPosition
  PROVE  ThreadsInv'
<1>0. Working /\ UNCHANGED syncVars /\ ~needStart["bt"]
  BY BtFlowTake DEF LzTakesPosition, Working
<1>1. SameFlow("hash") /\ SameStart /\ (Filling' <=> Filling) /\ ~needStart'["bt"]
  BY <1>0, StayFlow DEF SameStart
<1>2. mf' = mf /\ hashBuf' = hashBuf /\ bt' = bt
  BY DEF LzTakesPosition
<1>3. SameWindow /\ BtAt' = BtAt
  BY <1>1, <1>2 DEF SameWindow, Over, BtAt
<1>4. HashFlow /\ BtInv /\ FreshInv
  BY DEF FlowInv
<1>5. HashFlow'
  BY <1>1, <1>2, <1>3, <1>4, HashFlowKept
<1>6. BtInv' /\ FreshInv'
  BY <1>1, <1>2, <1>4, BtInvKept
<1> QED BY <1>5, <1>6, BtFlowTake DEF ThreadsInv

LEMMA ThreadsHashMoves ==
  ASSUME Inv, FlowInv, HashMovesWindow
  PROVE  ThreadsInv'
<1>0. CASE ~Working'
  BY <1>0, ThreadsRest
<1>1. CASE Working'
  <2>1. /\ SameFlow("bt") /\ SameFlow("hash") /\ SameStart /\ (Filling' <=> Filling)
        /\ ~needStart'["bt"] /\ ~needStart["hash"] /\ Working
    BY <1>1, HashMoveFlow DEF HashMovesWindow, SameStart
  <2>2. DataTypeOK /\ HashFlow /\ BtFlow /\ BtInv /\ LzInv /\ FreshInv
    BY DEF FlowInv
  <2>3. /\ mf'.pos = mf.pos /\ mf'.streamPos = mf.streamPos /\ mf'.ended = mf.ended /\ mf'.failed = mf.failed
        /\ hashBuf' = hashBuf /\ btBuf' = btBuf
        /\ bt'.pos = bt.pos /\ bt'.sent = bt.sent /\ bt'.hashRem = bt.hashRem
        /\ bt'.hashNumAvail = bt.hashNumAvail /\ bt'.block = bt.block /\ bt'.full = bt.full
        /\ lz'.pos = lz.pos /\ lz'.rem = lz.rem /\ lz'.avail = lz.avail /\ lz'.eof = lz.eof
    BY <2>2 DEF HashMovesWindow, DataTypeOK
  <2>4. SameWindow /\ BtAt' = BtAt
    BY <2>1, <2>3 DEF SameWindow, Over, BtAt
  <2>5. HashFlow' /\ BtFlow'
    BY <2>1, <2>2, <2>3, <2>4, HashFlowKept, BtFlowKept
  <2>6. BtInv' /\ LzInv'
    BY <2>1, <2>2, <2>3, <2>4, ThreadsKept
  <2>7. FreshInv'
    BY <2>1 DEF FreshInv, SameStart, Unstarted
  <2> QED BY <2>5, <2>6, <2>7 DEF ThreadsInv
<1> QED BY <1>0, <1>1

LEMMA ThreadsHashFills ==
  ASSUME Inv, FlowInv, HashFillsBlock
  PROVE  ThreadsInv'
<1>0. CASE ~Working'
  BY <1>0, ThreadsRest
<1>1. CASE Working'
  <2>1. /\ SameFlow("bt") /\ SameStart /\ (Filling' <=> Filling) /\ ~needStart["hash"] /\ Working
        /\ needStart' = needStart
    BY <1>1, HashFillFlow DEF HashFillsBlock
  <2>2. DataTypeOK /\ BtFlow /\ BtInv /\ LzInv /\ FreshInv /\ WindowInv /\ SpareInv
    BY DEF FlowInv
  <2>3. /\ mf.streamPos <= mf'.streamPos /\ (Over => Over' /\ mf'.streamPos = mf.streamPos)
        /\ mf' \in WindowType
    BY <2>2, BlockIsFilled
  <2>4. btBuf' = btBuf /\ bt' = bt /\ lz' = lz /\ mf.streamPos \in Nat /\ mf'.streamPos \in Nat
    BY <2>2, <2>3, Fields DEF HashFillsBlock, WindowType
  <2>5. BtAt' = BtAt
    BY <2>1, <2>4 DEF BtAt
  <2>6. BtAt + bt.hashNumAvail \in Nat /\ lz.pos + lz.avail \in Nat
    BY <2>2, Fields
  <2>7. BtFlow'
    BY <2>1, <2>2, <2>3, <2>4, <2>5, <2>6, BtFlowGrows
  <2>8. BtInv'
    BY <2>1, <2>2, <2>3, <2>4, <2>5, <2>6 DEF BtInv
  <2>9. LzInv'
    BY <2>1, <2>2, <2>3, <2>4, <2>6 DEF LzInv
  <2>10. FreshInv'
    BY <2>1, <2>2, <2>4 DEF FreshInv, Unstarted
  <2> QED BY <2>7, <2>8, <2>9, <2>10, HashFlowFill DEF ThreadsInv
<1> QED BY <1>0, <1>1

\* The bt thread takes up a block: it has one of no positions, from where it is.
LEMMA ThreadsBtBegins ==
  ASSUME Inv, FlowInv, BtBeginsBlock
  PROVE  ThreadsInv'
<1>0. CASE ~Working'
  BY <1>0, ThreadsRest
<1>1. CASE Working'
  <2>1. SameFlow("bt") /\ SameFlow("hash") /\ SameStart /\ ~Filling /\ Working
    BY <1>1, BtBeginFlow DEF BtBeginsBlock, SameStart
  <2>2. DataTypeOK /\ HashFlow /\ BtFlow /\ BtInv /\ LzInv /\ FreshInv
    BY DEF FlowInv
  <2>3. bt' = [bt EXCEPT !.block = [from |-> bt.sent, num |-> 0, avail |-> bt.hashNumAvail], !.full = FALSE]
    BY DEF BtBeginsBlock
  <2>4. /\ mf' = mf /\ hashBuf' = hashBuf /\ btBuf' = btBuf /\ lz' = lz
        /\ bt'.pos = bt.pos /\ bt'.sent = bt.sent /\ bt'.hashRem = bt.hashRem
        /\ bt'.hashNumAvail = bt.hashNumAvail /\ bt'.full = FALSE
        /\ bt'.block = [from |-> bt.sent, num |-> 0, avail |-> bt.hashNumAvail]
    BY <2>2, <2>3 DEF BtBeginsBlock, DataTypeOK
  <2>5. bt'.block.from = bt.sent /\ bt'.block.num = 0 /\ bt'.block.avail = bt.hashNumAvail
    BY <2>4
  <2>6. bt.sent \in Nat /\ bt.hashNumAvail \in Nat
    BY <2>2, Fields
  <2>7. BtAt' = BtAt /\ BtAt = bt.sent
    BY <2>1, <2>4, <2>5, <2>6 DEF BtAt
  <2>8. SameWindow
    BY <2>4 DEF SameWindow, Over
  <2>9. HashFlow' /\ BtFlow'
    BY <2>1, <2>2, <2>4, <2>7, <2>8, HashFlowKept, BtFlowKept
  <2>10. BtInv'
    BY <2>1, <2>2, <2>4, <2>5, <2>6, <2>7, <2>8, WindowSizes DEF BtInv, SameWindow
  <2>11. LzInv'
    BY <2>1, <2>2, <2>4, <2>8 DEF LzInv, SameWindow
  <2>12. FreshInv'
    BY <2>1, <2>2, <2>4, <2>5, <2>8 DEF FreshInv, SameWindow, SameStart
  <2> QED BY <2>9, <2>10, <2>11, <2>12 DEF ThreadsInv
<1> QED BY <1>0, <1>1

\* It asks for heads.
LEMMA ThreadsBtAsks ==
  ASSUME Inv, FlowInv, BtAsks
  PROVE  ThreadsInv'
<1>0. CASE ~Working'
  BY <1>0, ThreadsRest
<1>1. CASE Working'
  <2>1. SameFlow("bt") /\ SameStart /\ (Filling' <=> Filling)
    BY <1>1, BtAskFlow DEF BtAsks
  <2>2. UNCHANGED dataVars /\ SameWindow /\ BtAt' = BtAt
    BY <2>1 DEF BtAsks, dataVars, SameWindow, Over, BtAt
  <2>3. mf' = mf /\ hashBuf' = hashBuf /\ btBuf' = btBuf /\ bt' = bt /\ lz' = lz
    BY <2>2 DEF dataVars
  <2>4. BtFlow /\ BtInv /\ LzInv /\ FreshInv
    BY DEF FlowInv
  <2>5. BtFlow'
    BY <2>1, <2>2, <2>3, <2>4, BtFlowKept
  <2>6. BtInv' /\ LzInv' /\ FreshInv'
    BY <2>1, <2>2, <2>3, <2>4, ThreadsKept
  <2> QED BY <2>5, <2>6, HashFlowAsk DEF ThreadsInv
<1> QED BY <1>0, <1>1

\* It reads a header.
LEMMA ThreadsBtReads ==
  ASSUME Inv, FlowInv, BtReadsHeader
  PROVE  ThreadsInv'
<1>0. CASE ~Working'
  BY <1>0, ThreadsRest
<1>1. CASE Working'
  <2>1. SameFlow("bt") /\ SameStart /\ Filling /\ Filling' /\ ~needStart["hash"] /\ Working
    BY <1>1, BtReadFlow DEF BtReadsHeader, SameStart
  <2>2. DataTypeOK /\ BtFlow /\ BtInv /\ LzInv /\ FreshInv /\ SpareInv
    BY DEF FlowInv
  <2>3. mf' = mf /\ btBuf' = btBuf /\ lz' = lz
    BY DEF BtReadsHeader
  <2>4. PICK h \in [from : Nat, num : Nat, avail : Nat] :
           /\ HashBlockInv(FirstOwned("hash")) /\ h = hashBuf[Slot("hash", FirstOwned("hash"))]
           /\ h.from = BtAt /\ bt.hashRem = 0
           /\ BtAt + bt.hashNumAvail <= h.from + h.avail
           /\ bt'.hashRem = h.num /\ bt'.hashNumAvail = (IF Short(h) THEN 0 ELSE h.avail)
           /\ BtAt' = BtAt + (IF Short(h) THEN h.avail ELSE 0)
           /\ bt'.pos = bt.pos /\ bt'.sent = bt.sent /\ bt'.full = Short(h)
           /\ bt'.block.from = bt.block.from
           /\ bt'.block.avail = bt.block.num + h.avail
           /\ bt'.block.num = bt.block.num + (IF Short(h) THEN h.avail ELSE 0)
    BY <1>1, HeaderIsRead
  <2>5. /\ h.num <= h.avail /\ h.num <= MaxHeads /\ h.from + h.avail <= mf.streamPos
        /\ Short(h) => h.num = 0 /\ Over /\ h.from + h.avail = mf.streamPos
    BY <2>4 DEF HashBlockInv
  <2>6. /\ mf.streamPos \in Nat /\ BtAt \in Nat /\ bt.hashNumAvail \in Nat /\ bt.sent \in Nat
        /\ bt.block.num \in Nat /\ bt.block.from \in Nat /\ bt.pos \in Nat
    BY <2>2, Fields
  <2>7. BtAt = bt.sent + bt.block.num
    BY <2>1 DEF BtAt
  <2>8. bt.block.from = bt.sent /\ (bt.block.num <= MaxBtPositions \/ Over)
        /\ (bt.pos = BtAt \/ (Over /\ BtAt = mf.streamPos /\ bt.pos <= BtAt))
    BY <2>1, <2>2 DEF BtInv
  <2>9. BtAt' + bt'.hashNumAvail = h.from + h.avail
    BY <2>4, <2>6
  <2>10. BtFlow'
    <3>1. /\ BtAt' + bt'.hashNumAvail \in Nat /\ BtAt + bt.hashNumAvail <= BtAt' + bt'.hashNumAvail
          /\ mf'.streamPos \in Nat /\ mf.streamPos <= mf'.streamPos
          /\ (Over => Over' /\ mf'.streamPos = mf.streamPos)
          /\ bt'.sent = bt.sent
      BY <2>3, <2>4, <2>6, <2>9 DEF Over
    <3> QED BY <2>1, <2>2, <2>3, <3>1, BtFlowGrows
  <2>11. BtInv'
    <3>1. Over' <=> Over
      BY <2>3 DEF Over
    <3>2. CASE Short(h)
      BY <2>1, <2>3, <2>4, <2>5, <2>6, <2>7, <2>8, <2>9, <3>1, <3>2 DEF BtInv
    <3>3. CASE ~Short(h)
      <4>1. /\ bt'.hashRem = h.num /\ bt'.hashNumAvail = h.avail /\ BtAt' = BtAt /\ bt'.full = FALSE
            /\ bt'.block.num = bt.block.num
        BY <2>4, <2>6, <3>3
      <4>2. BtAt + h.avail <= mf.streamPos /\ BtAt = mf.streamPos => h.num = 0
        BY <2>4, <2>5, <2>6
      <4> QED BY <2>1, <2>3, <2>4, <2>5, <2>6, <2>7, <2>8, <3>1, <4>1, <4>2 DEF BtInv
    <3> QED BY <3>2, <3>3
  <2>12. LzInv' /\ FreshInv'
    BY <2>1, <2>2, <2>3 DEF LzInv, FreshInv, SameStart, Unstarted, Over
  <2> QED BY <2>10, <2>11, <2>12, HashFlowRead DEF ThreadsInv
<1> QED BY <1>0, <1>1

\* It goes over positions.
LEMMA ThreadsBtGets ==
  ASSUME Inv, FlowInv, BtGetMatches
  PROVE  ThreadsInv'
<1>0. CASE ~Working'
  BY <1>0, ThreadsRest
<1>1. CASE Working'
  <2>0. UNCHANGED syncVars /\ mf' = mf /\ btBuf' = btBuf /\ lz' = lz /\ ~needStart["hash"] /\ ~bt.full
    BY DEF BtGetMatches
  <2>1. SameFlow("bt") /\ SameStart /\ Working
    BY <1>1, <2>0, StayFlow DEF SameStart, Working, syncVars
  <2>2. DataTypeOK /\ BtFlow /\ BtInv /\ LzInv /\ FreshInv /\ SpareInv
    BY DEF FlowInv
  <2>3. PICK n \in Nat \ {0} :
          /\ n <= bt.hashRem /\ Filling /\ Filling'
          /\ BtAt' = BtAt + n /\ bt'.pos = bt.pos + n /\ bt'.sent = bt.sent
          /\ bt'.hashRem = bt.hashRem - n /\ bt'.hashNumAvail = bt.hashNumAvail - n
          /\ bt'.block.from = bt.block.from /\ bt'.block.avail = bt.block.avail
          /\ bt'.block.num = bt.block.num + n /\ bt.block.num + n <= MaxBtPositions
    BY <2>1, HashFlowGet
  <2>4. /\ mf.streamPos \in Nat /\ BtAt \in Nat /\ bt.hashNumAvail \in Nat /\ bt.sent \in Nat
        /\ bt.hashRem \in Nat /\ bt.block.num \in Nat /\ bt.block.from \in Nat /\ bt.pos \in Nat
        /\ bt.block.avail \in Nat
    BY <2>2, Fields
  <2>5. BtAt' + bt'.hashNumAvail = BtAt + bt.hashNumAvail
    BY <2>3, <2>4
  <2>6. Over' <=> Over
    BY <2>0 DEF Over
  <2>7. BtFlow'
    BY <2>0, <2>1, <2>2, <2>3, <2>4, <2>5, <2>6, BtFlowGrows
  <2>8. /\ bt.hashRem <= MaxHeads /\ bt.hashRem <= bt.hashNumAvail
        /\ BtAt + bt.hashNumAvail <= mf.streamPos /\ bt.pos = BtAt
        /\ bt.block.from = bt.sent
        /\ bt.block.from + bt.block.avail = BtAt + bt.hashNumAvail
    BY <2>1, <2>2, <2>3 DEF BtInv
  <2>9. /\ bt'.hashRem <= MaxHeads /\ bt'.hashRem <= bt'.hashNumAvail
        /\ BtAt' + bt'.hashNumAvail <= mf'.streamPos /\ bt'.pos = BtAt'
        /\ bt'.block.from = bt'.sent
        /\ bt'.block.from + bt'.block.avail = BtAt' + bt'.hashNumAvail
        /\ bt'.block.num <= MaxBtPositions /\ bt'.block.num > 0
    BY <2>0, <2>3, <2>4, <2>5, <2>8, WindowSizes
  <2>10. BtInv'
    BY <2>9 DEF BtInv
  <2>11. LzInv' /\ FreshInv'
    BY <2>0, <2>1, <2>2, <2>6 DEF LzInv, FreshInv, SameStart, Unstarted
  <2> QED BY <2>7, <2>10, <2>11, HashFlowGet DEF ThreadsInv
<1> QED BY <1>0, <1>1

\* It publishes its block.
LEMMA ThreadsBtEnds ==
  ASSUME Inv, FlowInv, BtEndsBlock
  PROVE  ThreadsInv'
<1>0. CASE ~Working'
  BY <1>0, ThreadsRest
<1>1. CASE Working'
  <2>1. /\ SameFlow("hash") /\ SameStart /\ ~Filling' /\ ~needStart["hash"] /\ ~needStart["bt"]
        /\ needStart' = needStart /\ Working
    BY <1>1, BtEndFlow DEF BtEndsBlock, SameStart
  <2>2. DataTypeOK /\ HashFlow /\ BtInv /\ LzInv /\ FreshInv
    BY DEF FlowInv
  <2>3. /\ mf' = mf /\ hashBuf' = hashBuf /\ lz' = lz
        /\ bt'.pos = bt.pos /\ bt'.hashRem = bt.hashRem /\ bt'.hashNumAvail = bt.hashNumAvail
    BY <2>2 DEF BtEndsBlock, DataTypeOK
  <2>4. BtAt' = BtAt
    BY <1>1, BtFlowEnd
  <2>5. SameWindow
    BY <2>3 DEF SameWindow, Over
  <2>6. HashFlow'
    BY <2>1, <2>2, <2>3, <2>4, <2>5, HashFlowKept
  <2>7. BtInv'
    BY <2>1, <2>2, <2>3, <2>4, <2>5 DEF BtInv, SameWindow
  <2>8. LzInv' /\ FreshInv'
    BY <2>1, <2>2, <2>3, <2>5 DEF LzInv, FreshInv, Unstarted, SameWindow
  <2> QED BY <2>6, <2>7, <2>8, BtFlowEnd DEF ThreadsInv
<1> QED BY <1>0, <1>1

\* All of them do.
LEMMA ThreadsNext ==
  ASSUME Inv, FlowInv, [Next]_vars
  PROVE  ThreadsInv'
  BY StepCases, ThreadsQuiet, ThreadsInit, ThreadsLzAsks, ThreadsLzReads, ThreadsLzTakes,
     ThreadsHashMoves, ThreadsHashFills, ThreadsBtBegins, ThreadsBtAsks, ThreadsBtReads,
     ThreadsBtGets, ThreadsBtEnds
-----------------------------------------------------------------------------
(* The window and what it keeps. *)

\* A producer that has begun works for an lz that works.
LEMMA Busy ==
  ASSUME Inv, NEW s \in Syncs, pc[s] \notin {"none", "start", "exited"}
  PROVE  Working
  BY DEF Inv, TypeOK, PcTypeOK, LifeInv, Working, LzLabels, Absent, Gone, Quiet, Leaving, Syncs

\* Where the hash thread goes.
LEMMA HashGoes ==
  ASSUME Inv, [Next]_vars
  PROVE  \/ pc'["hash"] \notin {"enterHash", "move", "check", "fill"}
         \/ pc'["hash"] = pc["hash"] /\ ~HashMovesWindow /\ ~InitStream
         \/ NeedMove(mf) /\ pc'["hash"] = "enterHash" /\ mf' = mf
         \/ pc["hash"] = "enterHash" /\ pc'["hash"] = "move" /\ mf' = mf
         \/ ~NeedMove(mf) /\ pc'["hash"] = "check" /\ mf' = mf
         \/ pc["hash"] = "check" /\ pc'["hash"] = "fill" /\ mf' = mf
<1>1. PcTypeOK /\ LifeInv
  BY DEF Inv, TypeOK
<1> USE DEF PcTypeOK, Goto, Threads
<1>2. CASE LzCalls
  <2>1. CASE Create \/ ReleaseStream \/ DestructBegin \/ LzAsks \/ LzTakesPosition
    BY <1>1, <2>1
    DEF Create, CreateOk, CreateFails, ReleaseStream, StopWriting, StopNothing, StopBegin, DestructBegin,
        LzAsks, LzGetNextBlock, GetNextBlock, StartProducer, FreeCurrentBlock, LzTakesPosition, syncVars,
        HashMovesWindow, HashMove, InitStream, InitMt
  <2>2. CASE InitStream
    BY <1>1, <2>2 DEF InitStream, InitMt, LifeInv, Quiet
  <2> QED BY <1>2, <2>1, <2>2 DEF LzCalls
<1>3. CASE LzStep
  BY <1>1, <1>3
  DEF LzStep, NextRelease, NextWait, StopRelease, StopWait, DestructStep, SendExit, Join, NothingToJoin,
      LzReadsHeader, NextLock, HashMovesWindow, HashMove, InitStream, InitMt
<1>4. CASE HashThread
  BY <1>1, <1>4
  DEF HashThread, HashEnterBt, WaitFree, WaitStart, HashEnterHash, HashCheck, ReportStopped,
      HashMovesWindow, HashMove, HashFillsBlock, Publish, dataVars
<1>5. CASE BtThread
  BY <1>1, <1>5
  DEF BtThread, WaitStart, WaitFree, BtLock, NextRelease, NextWait, BtPublish, Publish, BtStop,
      StopWriting, StopNothing, StopBegin, StopRelease, StopWait, ReportStopped, BtBeginsBlock, BtCheck,
      BtAsks, BtGetNextBlock, GetNextBlock, StartProducer, FreeCurrentBlock, BtReadsHeader, NextLock,
      BtGetMatches, syncVars, BtEndsBlock, BtUnlock, HashMovesWindow, HashMove, InitStream, InitMt
<1>6. CASE (Finished /\ UNCHANGED dataVars) \/ UNCHANGED vars
  BY <1>1, <1>6 DEF Finished, vars, syncVars, HashMovesWindow, HashMove, InitStream, InitMt
<1> QED BY <1>2, <1>3, <1>4, <1>5, <1>6 DEF Next

\* The steps that leave the window alone.
LEMMA WindowSteps ==
  ASSUME [Next]_vars
  PROVE  InitStream \/ HashMovesWindow \/ HashFillsBlock \/ mf' = mf
  BY StepCases
  DEF Quietly, dataVars, LzAsks, LzReadsHeader, LzTakesPosition, BtBeginsBlock, BtAsks,
      BtReadsHeader, BtGetMatches, BtEndsBlock

LEMMA WindowNext ==
  ASSUME Inv, FlowInv, [Next]_vars
  PROVE  WindowInv'
<1>1. DataTypeOK /\ WindowInv
  BY DEF FlowInv
<1>2. CASE InitStream
  <2>1. PICK len \in Nat : mf' = NewWindow(len)
    BY <1>2, SizesAssumption DEF InitStream
  <2>2. /\ mf'.base = 0 /\ mf'.pos = 0 /\ mf'.streamPos = 0 /\ mf'.len = len
        /\ ~mf'.ended
    BY <2>1 DEF NewWindow
  <2>3. pc'["hash"] = "start"
    BY <1>2 DEF InitStream, InitMt, Inv, TypeOK, PcTypeOK, LifeInv, Quiet, Goto, Threads, Syncs
  <2>4. Room(mf') >= 0
    BY <2>2, WindowSizes DEF Room
  <2> QED BY <2>2, <2>3, <2>4 DEF WindowInv
<1>3. CASE HashMovesWindow
  <2>1. NeedMove(mf) /\ pc'["hash"] = "need"
    BY <1>1, <1>3 DEF HashMovesWindow, HashMove, WindowInv, Goto, Inv, TypeOK, PcTypeOK, Threads
  <2>2. PICK w : w = [mf EXCEPT !.base = @ + MoveOffset(mf)]
    OBVIOUS
  <2>3. w.base + keepSizeBefore <= mf.pos /\ Room(w) >= 0 /\ mf' = w
    BY <1>1, <1>3, <2>1, <2>2, MoveFits DEF HashMovesWindow
  <2>4. /\ w.pos = mf.pos /\ w.streamPos = mf.streamPos /\ w.len = mf.len /\ w.ended = mf.ended
        /\ w.base \in Int
    <3>1. MoveOffset(mf) \in Int
      BY <1>1, <2>1, MoveFits
    <3> QED BY <1>1, <2>2, <3>1 DEF DataTypeOK
  <2>5. mf'.base <= mf'.pos
    BY <1>1, <2>3, <2>4, Fields, WindowSizes
  <2> QED BY <1>1, <2>1, <2>3, <2>4, <2>5 DEF WindowInv
<1>4. CASE HashFillsBlock
  <2>1. /\ mf' \in WindowType /\ mf'.base = mf.base /\ mf'.len = mf.len
        /\ mf'.streamPos <= mf'.len /\ Room(mf') >= 0
        /\ mf.pos <= mf'.pos /\ mf'.pos <= mf'.streamPos
        /\ mf'.ended => mf'.streamPos = mf'.len
    BY <1>1, <1>4, BlockIsFilled
  <2>2. pc'["hash"] = "need"
    BY <1>4 DEF HashFillsBlock, Publish, Goto, Inv, TypeOK, PcTypeOK, Threads
  <2>3. mf'.base <= mf'.pos
    BY <1>1, <2>1, Fields DEF WindowInv, WindowType
  <2> QED BY <2>1, <2>2, <2>3 DEF WindowInv
<1>5. CASE mf' = mf /\ ~InitStream /\ ~HashMovesWindow /\ ~HashFillsBlock
  <2>1. /\ pc'["hash"] \in {"enterHash", "move"} => NeedMove(mf)
        /\ pc'["hash"] \in {"check", "fill"} => ~NeedMove(mf)
    BY <1>1, HashGoes DEF WindowInv
  <2> QED BY <1>1, <1>5, <2>1 DEF WindowInv
<1> QED BY <1>2, <1>3, <1>4, <1>5, WindowSteps

\* A product grows with its factors.
LEMMA Times ==
  ASSUME NEW a \in Nat, NEW b \in Nat, NEW c \in Nat, a <= b
  PROVE  a * c <= b * c /\ c * a <= c * b /\ a * c \in Nat
<1>1. PICK d \in Nat : b = a + d
  <2>1. b - a \in Nat /\ b = a + (b - a)
    OBVIOUS
  <2> QED BY <2>1
<1>2. b * c = a * c + d * c /\ d * c >= 0
  BY <1>1
<1>3. c * a = a * c /\ c * b = b * c /\ a * c \in Nat /\ d * c \in Nat
  BY <1>1
<1> QED BY <1>2, <1>3

\* How far bt can be behind the hash thread, and lz behind bt.
LEMMA BtIsNear ==
  ASSUME Inv, FlowInv, Working, ~Over, ~needStart["hash"]
  PROVE  bt.pos = BtAt /\ mf.pos - BtAt <= kMtHashBlockSize * kMtHashNumBlocks
<1>1. DataTypeOK /\ HashFlow /\ BtInv /\ SpareInv
  BY DEF FlowInv
<1>2. PICK fo \in Nat, made \in Nat, unread \in Nat :
        /\ fo = FirstOwned("hash") /\ made = Made("hash") /\ unread = Unread("hash")
        /\ fo <= unread /\ unread <= made /\ made - fo <= kMtHashNumBlocks
  <2>1. /\ FirstOwned("hash") \in Nat /\ Made("hash") \in Nat /\ Unread("hash") \in Nat
        /\ FirstOwned("hash") <= Unread("hash") /\ Unread("hash") <= Made("hash")
        /\ Made("hash") + (IF FillsBlock("hash") THEN 1 ELSE 0) - FirstOwned("hash") <= NumBlocks("hash")
    BY <1>1, RingBound DEF Syncs
  <2>2. NumBlocks("hash") = kMtHashNumBlocks /\ kMtHashNumBlocks \in Nat
    BY NumBlocksAssumption DEF NumBlocks
  <2> QED BY <2>1, <2>2
<1>3. /\ BtAt + bt.hashRem = HashFrom(unread)
      /\ pc["bt"] \in NextLabels => bt.hashRem = 0
      /\ mf.pos - HashFrom(unread) <= (made - unread) * MaxHeads
      /\ bt.hashRem <= MaxHeads /\ bt.pos = BtAt
  BY <1>1, <1>2 DEF HashFlow, BtInv
<1>4. pc["bt"] \notin NextLabels => unread = fo + 1
  BY <1>2 DEF Unread, FirstOwned, Consumer, Inv, TypeOK, CountTypeOK, Syncs
<1>5. /\ mf.pos \in Nat /\ BtAt \in Nat /\ bt.hashRem \in Nat /\ HashFrom(unread) \in Nat
      /\ MaxHeads \in Nat
  BY <1>1, <1>2, Fields, BlockFields, WindowSizes
<1>6. PICK k \in Nat : k = made - fo
  BY <1>2
<1>7. mf.pos - BtAt <= k * MaxHeads
  <2>1. CASE pc["bt"] \in NextLabels
    <3>1. (made - unread) * MaxHeads <= k * MaxHeads /\ (made - unread) * MaxHeads \in Int
      BY <1>2, <1>5, <1>6, Times, made - unread \in Nat, made - unread <= k
    <3>2. k * MaxHeads \in Int
      BY <1>5
    <3> QED BY <1>3, <1>5, <2>1, <3>1, <3>2
  <2>2. CASE pc["bt"] \notin NextLabels
    <3>1. k * MaxHeads = (made - unread) * MaxHeads + MaxHeads
      BY <1>2, <1>4, <1>5, <1>6, <2>2, OneMore, made - unread \in Int, k = (made - unread) + 1
    <3>2. (made - unread) * MaxHeads \in Int /\ k * MaxHeads \in Int
      BY <1>2, <1>5
    <3> QED BY <1>3, <1>5, <3>1, <3>2
  <2> QED BY <2>1, <2>2
<1>8. k * MaxHeads <= kMtHashBlockSize * kMtHashNumBlocks
  <2>1. /\ kMtHashNumBlocks \in Nat /\ kMtHashBlockSize \in Nat /\ MaxHeads <= kMtHashBlockSize
        /\ k <= kMtHashNumBlocks
    BY <1>2, <1>6, NumBlocksAssumption, SizesAssumption DEF MaxHeads
  <2>2. k * MaxHeads <= kMtHashNumBlocks * MaxHeads
    BY <1>5, <2>1, Times
  <2>3. kMtHashNumBlocks * MaxHeads <= kMtHashNumBlocks * kMtHashBlockSize
    BY <1>5, <2>1, Times
  <2>4. /\ kMtHashNumBlocks * kMtHashBlockSize = kMtHashBlockSize * kMtHashNumBlocks
        /\ kMtHashNumBlocks * kMtHashBlockSize \in Int /\ kMtHashNumBlocks * MaxHeads \in Int
        /\ k * MaxHeads \in Int
    BY <1>5, <2>1
  <2> QED BY <2>2, <2>3, <2>4
<1>9. k * MaxHeads \in Int /\ kMtHashBlockSize * kMtHashNumBlocks \in Int
  BY <1>5, NumBlocksAssumption, SizesAssumption
<1> QED BY <1>3, <1>5, <1>7, <1>8, <1>9

LEMMA LzIsNear ==
  ASSUME Inv, FlowInv, Working, ~Over, ~needStart["bt"]
  PROVE  BtAt - lz.pos <= kMtBtBlockSize * kMtBtNumBlocks
<1>1. DataTypeOK /\ BtFlow /\ BtInv /\ LzInv /\ SpareInv
  BY DEF FlowInv
<1>2. PICK fo \in Nat, made \in Nat, unread \in Nat, f \in {0, 1} :
        /\ fo = FirstOwned("bt") /\ made = Made("bt") /\ unread = Unread("bt")
        /\ fo <= unread /\ unread <= made /\ made + f - fo <= kMtBtNumBlocks
        /\ f = (IF Filling THEN 1 ELSE 0)
  BY <1>1, RingBound DEF Syncs, NumBlocks, FillsBlock, Filling, NextLabels
<1>3. /\ lz.pos + lz.rem = BtFrom(unread)
      /\ pc["lz"] \in NextLabels => lz.rem = 0
      /\ bt.sent - BtFrom(unread) <= (made - unread) * MaxBtPositions
      /\ lz.rem <= MaxBtPositions
      /\ Filling => bt.block.num <= MaxBtPositions
  BY <1>1, <1>2 DEF BtFlow, LzInv, BtInv
<1>4. pc["lz"] \notin NextLabels => unread = fo + 1
  BY <1>2 DEF Unread, FirstOwned, Consumer, Inv, TypeOK, CountTypeOK, Syncs
<1>5. /\ lz.pos \in Nat /\ BtAt \in Nat /\ lz.rem \in Nat /\ BtFrom(unread) \in Nat
      /\ MaxBtPositions \in Nat /\ bt.sent \in Nat /\ bt.block.num \in Nat
  BY <1>1, <1>2, Fields, BlockFields, WindowSizes
<1>6. PICK j \in Nat, k \in Nat : j = made - fo /\ k = j + f
  BY <1>2
<1>7. bt.sent - lz.pos <= j * MaxBtPositions
  <2>1. CASE pc["lz"] \in NextLabels
    <3>1. (made - unread) * MaxBtPositions <= j * MaxBtPositions /\ (made - unread) * MaxBtPositions \in Int
      BY <1>2, <1>5, <1>6, Times, made - unread \in Nat, made - unread <= j
    <3>2. j * MaxBtPositions \in Int
      BY <1>5
    <3> QED BY <1>3, <1>5, <2>1, <3>1, <3>2
  <2>2. CASE pc["lz"] \notin NextLabels
    <3>1. j * MaxBtPositions = (made - unread) * MaxBtPositions + MaxBtPositions
      BY <1>2, <1>4, <1>5, <1>6, <2>2, OneMore, made - unread \in Int, j = (made - unread) + 1
    <3>2. (made - unread) * MaxBtPositions \in Int /\ j * MaxBtPositions \in Int
      BY <1>2, <1>5
    <3> QED BY <1>3, <1>5, <3>1, <3>2
  <2> QED BY <2>1, <2>2
<1>8. BtAt - lz.pos <= k * MaxBtPositions
  <2>1. j * MaxBtPositions \in Int /\ k * MaxBtPositions \in Int
    BY <1>5, <1>6
  <2>2. CASE Filling
    <3>1. f = 1 /\ BtAt = bt.sent + bt.block.num /\ bt.block.num <= MaxBtPositions
      BY <1>2, <1>3, <2>2 DEF BtAt
    <3>2. k * MaxBtPositions = j * MaxBtPositions + MaxBtPositions
      BY <1>5, <1>6, <3>1, OneMore, k = j + 1, j \in Int
    <3> QED BY <1>5, <1>7, <2>1, <3>1, <3>2
  <2>3. CASE ~Filling
    <3>1. k = j /\ BtAt = bt.sent
      BY <1>2, <1>5, <1>6, <2>3 DEF BtAt
    <3> QED BY <1>7, <3>1
  <2> QED BY <2>2, <2>3
<1>9. k * MaxBtPositions <= kMtBtBlockSize * kMtBtNumBlocks
  <2>1. /\ kMtBtNumBlocks \in Nat /\ kMtBtBlockSize \in Nat /\ MaxBtPositions <= kMtBtBlockSize
        /\ k <= kMtBtNumBlocks
    BY <1>2, <1>6, NumBlocksAssumption, SizesAssumption DEF MaxBtPositions
  <2>2. k * MaxBtPositions <= kMtBtNumBlocks * MaxBtPositions
    BY <1>5, <2>1, Times
  <2>3. kMtBtNumBlocks * MaxBtPositions <= kMtBtNumBlocks * kMtBtBlockSize
    BY <1>5, <2>1, Times
  <2>4. /\ kMtBtNumBlocks * kMtBtBlockSize = kMtBtBlockSize * kMtBtNumBlocks
        /\ kMtBtNumBlocks * kMtBtBlockSize \in Int /\ kMtBtNumBlocks * MaxBtPositions \in Int
        /\ k * MaxBtPositions \in Int
    BY <1>5, <2>1
  <2> QED BY <2>2, <2>3, <2>4
<1>10. k * MaxBtPositions \in Int /\ kMtBtBlockSize * kMtBtNumBlocks \in Int
  BY <1>5, NumBlocksAssumption, SizesAssumption
<1> QED BY <1>5, <1>8, <1>9, <1>10

\* Only InitStream begins to work.
LEMMA WorkGoesOn ==
  ASSUME Inv, [Next]_vars, Working', ~InitStream
  PROVE  Working
<1>1. CASE Quietly
  BY <1>1, QuietFlow DEF SameStart
<1>2. CASE LzAsks \/ LzReadsHeader \/ LzTakesPosition
  BY <1>2 DEF LzAsks, LzGetNextBlock, LzReadsHeader, NextLock, LzTakesPosition, Working, CallLabels
<1>3. CASE HashMovesWindow \/ HashFillsBlock
  BY <1>3, Busy DEF HashMovesWindow, HashMove, HashFillsBlock, Publish, Syncs
<1>4. CASE BtBeginsBlock \/ BtAsks \/ BtReadsHeader \/ BtGetMatches \/ BtEndsBlock
  BY <1>4, Busy
  DEF BtBeginsBlock, BtCheck, BtAsks, BtGetNextBlock, BtReadsHeader, NextLock, BtGetMatches,
      BtEndsBlock, BtUnlock, Syncs
<1> QED BY <1>1, <1>2, <1>3, <1>4, StepCases

\* No step takes a thread back.
LEMMA ThreadsAdvance ==
  ASSUME Inv, FlowInv, [Next]_vars, Working', ~InitStream
  PROVE  /\ lz'.pos \in Nat /\ bt'.pos \in Nat
         /\ lz.pos <= lz'.pos /\ bt.pos <= bt'.pos
<1>1. DataTypeOK /\ Working
  BY WorkGoesOn DEF FlowInv
<1>2. lz.pos \in Nat /\ bt.pos \in Nat
  BY <1>1, Fields
<1>3. CASE Quietly \/ LzAsks \/ BtAsks
  BY <1>2, <1>3 DEF Quietly, LzAsks, BtAsks, dataVars
<1>4. CASE LzReadsHeader
  BY <1>2, <1>4, LzIsTold DEF LzReadsHeader
<1>5. CASE LzTakesPosition
  BY <1>2, <1>5, BtFlowTake DEF LzTakesPosition
<1>6. CASE HashMovesWindow \/ HashFillsBlock \/ BtBeginsBlock \/ BtReadsHeader \/ BtEndsBlock
  <2>1. lz'.pos = lz.pos /\ bt'.pos = bt.pos
    BY <1>1, <1>6
    DEF HashMovesWindow, HashFillsBlock, BtBeginsBlock, BtReadsHeader, BtEndsBlock, DataTypeOK
  <2> QED BY <1>2, <2>1
<1>7. CASE BtGetMatches
  <2>1. \E n \in Nat : bt'.pos = bt.pos + n
    BY <1>1, <1>7, HashFlowGet
  <2> QED BY <1>2, <1>7, <2>1 DEF BtGetMatches
<1> QED BY <1>3, <1>4, <1>5, <1>6, <1>7, StepCases

LEMMA HistoryNext ==
  ASSUME Inv, FlowInv, [Next]_vars
  PROVE  HistoryInv'
<1> SUFFICES ASSUME Working' PROVE HistoryInv'
  BY DEF HistoryInv
<1>1. DataTypeOK /\ WindowInv /\ HistoryInv
  BY DEF FlowInv
<1>2. historySize \in Nat /\ keepAddBufferBefore \in Nat
  BY SizesAssumption
<1>3. CASE InitStream
  <2>1. mf'.base = 0 /\ lz'.pos = 0 /\ bt'.pos = 0
    BY <1>3 DEF InitStream, NewWindow, NewBt, NewLz
  <2> QED BY <1>2, <2>1 DEF HistoryInv, AtLeast0
<1>4. CASE HashMovesWindow
  <2>1. Working /\ ~needStart["hash"] /\ ~needStart["bt"]
    BY <1>4, HashMoveFlow, WorkGoesOn DEF HashMovesWindow, InitStream, SameStart
  <2>2. NeedMove(mf) /\ ~Over
    BY <1>1, <1>4 DEF HashMovesWindow, HashMove, WindowInv, NeedMove, Over
  <2>3. PICK w : w = [mf EXCEPT !.base = @ + MoveOffset(mf)]
    OBVIOUS
  <2>4. mf' = w /\ w.base + keepSizeBefore <= mf.pos /\ MoveOffset(mf) \in Nat
        /\ w.base = mf.base + MoveOffset(mf)
    BY <1>1, <1>4, <2>2, <2>3, MoveFits DEF HashMovesWindow
  <2>5. /\ bt.pos = BtAt /\ mf.pos - BtAt <= kMtHashBlockSize * kMtHashNumBlocks
        /\ BtAt - lz.pos <= kMtBtBlockSize * kMtBtNumBlocks
    BY <2>1, <2>2, BtIsNear, LzIsNear
  <2>6. lz'.pos = lz.pos /\ bt'.pos = bt.pos
    BY <1>1, <1>4 DEF HashMovesWindow, DataTypeOK
  <2>7. PICK x \in Nat, y \in Nat :
          x = kMtHashBlockSize * kMtHashNumBlocks /\ y = kMtBtBlockSize * kMtBtNumBlocks
    BY SizesAssumption, NumBlocksAssumption
  <2>8. keepSizeBefore = historySize + (keepAddBufferBefore + x + y) + 1
    BY <2>7 DEF keepSizeBefore
  <2>9. w.base \in Nat /\ mf.pos \in Nat /\ lz.pos \in Nat /\ bt.pos \in Nat /\ BtAt \in Nat
    BY <1>1, <2>4, Fields
  <2>10. /\ w.base <= lz.pos - historySize - keepAddBufferBefore
         /\ w.base <= bt.pos - historySize
    BY <1>2, <2>4, <2>5, <2>7, <2>8, <2>9
  <2> QED BY <1>2, <2>4, <2>6, <2>9, <2>10 DEF HistoryInv, AtLeast0
<1>5. CASE mf'.base = mf.base /\ ~InitStream
  <2>1. Working /\ lz'.pos \in Nat /\ bt'.pos \in Nat /\ lz.pos <= lz'.pos /\ bt.pos <= bt'.pos
    BY <1>5, WorkGoesOn, ThreadsAdvance
  <2>2. /\ mf.base <= AtLeast0(lz.pos - historySize - keepAddBufferBefore)
        /\ mf.base <= AtLeast0(bt.pos - historySize)
        /\ lz.pos \in Nat /\ bt.pos \in Nat /\ mf.base \in Nat
    BY <1>1, <2>1, Fields DEF HistoryInv
  <2> QED BY <1>2, <1>5, <2>1, <2>2 DEF HistoryInv, AtLeast0
<1>6. CASE HashFillsBlock
  BY <1>1, <1>5, <1>6, BlockIsFilled DEF HashFillsBlock, Publish, InitStream, InitMt, Inv, TypeOK, PcTypeOK, LifeInv, Quiet, Syncs
<1> QED BY <1>3, <1>4, <1>5, <1>6, WindowSteps

\* A consumer that stops its producer leaves it a post to spare.
LEMMA SpareNext ==
  ASSUME Inv, SpareInv, [SyncNext]_syncVars
  PROVE  SpareInv'
<1>0. PcTypeOK /\ FlagTypeOK /\ CountTypeOK /\ IsSemaphore(freeSemaphore)
      /\ IsSemaphore(filledSemaphore) /\ LifeInv /\ CountInv
  BY DEF Inv, TypeOK
<1> USE <1>0, NumBlocksAssumption DEF IsSemaphore, PcTypeOK, FlagTypeOK, CountTypeOK, LifeInv,
        SpareInv, NumBlocks, Release, Posted, Wait, Working, Absent, Gone, Quiet, Leaving, Started,
        Starting, Running, Stopped, CallLabels, NextLabels, StopLabels, Goto, flagVars, lockVars,
        countVars, lifeVars, Syncs, Threads, Consumer
<1>1. CASE Create \/ InitMt \/ DestructBegin \/ DestructStep
  BY <1>1
  DEF Create, CreateOk, CreateFails, InitMt, DestructBegin, DestructStep, SendExit, Join, NothingToJoin,
      Signal
<1>2. CASE LzGetNextBlock \/ BtGetNextBlock
  BY <1>2
  DEF LzGetNextBlock, BtGetNextBlock, GetNextBlock, StartProducer, FreeCurrentBlock, UnlockBuffer, Signal
<1>3. CASE ReleaseStream \/ BtStop
  BY <1>3 DEF ReleaseStream, BtStop, StopWriting, StopNothing, StopBegin
<1>4. CASE NextRelease("lz", "bt") \/ NextWait("lz", "bt") \/ NextLock("lz", "bt", "using")
  BY <1>4 DEF NextRelease, NextWait, NextLock
<1>5. CASE NextRelease("bt", "hash") \/ NextWait("bt", "hash") \/ NextLock("bt", "hash", "fill")
  BY <1>5 DEF NextRelease, NextWait, NextLock
<1>6. CASE StopRelease("lz", "bt") \/ StopRelease("bt", "hash")
  BY <1>6 DEF StopRelease
<1>7. CASE StopWait("lz", "bt", "idle") \/ StopWait("bt", "hash", "stopped")
  BY <1>7 DEF StopWait, Consume
<1>8. CASE WaitStart("hash", "need") \/ WaitStart("bt", "free")
  <2>1. PICK w \in Syncs : w \in {"hash", "bt"} /\ pc[w] = "start" /\ canStart[w]
                           /\ freeSemaphore' = freeSemaphore /\ needStart' = needStart
                           /\ \A t \in Threads : t # w => pc'[t] = pc[t]
    BY <1>8 DEF WaitStart, Consume
  <2>2. Working /\ ~needStart[w] => pc[Consumer(w)] # "stopWait"
    <3>1. Working /\ ~needStart[w] => Balanced(w)
      BY DEF CountInv
    <3>2. Published(w) = 0
      BY <2>1 DEF Published
    <3>3. PICK n \in Nat, f \in Nat : n = numProcessedBlocks[w] /\ f = filledSemaphore[w]
      OBVIOUS
    <3>4. pc[Consumer(w)] = "stopWait" => Taken(w) = n - 0
      BY <3>3 DEF Taken
    <3>5. Working /\ ~needStart[w] => n >= 1 /\ f + Taken(w) = 0
      BY <3>1, <3>2, <3>3 DEF Balanced
    <3> HIDE DEF Working, Consumer
    <3> QED BY <3>3, <3>4, <3>5
  <2> QED BY <2>1, <2>2
<1>9. CASE HashEnterBt \/ HashEnterHash \/ HashMove \/ BtLock \/ BtUnlock
  BY <1>9 DEF HashEnterBt, HashEnterHash, HashMove, BtLock, LockBuffer, BtUnlock, UnlockBuffer
<1>10. CASE WaitFree("hash", "need") \/ WaitFree("bt", "free")
  BY <1>10 DEF WaitFree
<1>11. CASE HashCheck \/ BtCheck
  BY <1>11 DEF HashCheck, BtCheck
<1>12. CASE Publish("hash", "fill", "need") \/ BtPublish
  BY <1>12 DEF Publish, BtPublish
<1>13. CASE ReportStopped("hash") \/ ReportStopped("bt")
  BY <1>13 DEF ReportStopped, Signal
<1>14. CASE UNCHANGED syncVars
  BY <1>14 DEF syncVars
<1> QED
  BY <1>1, <1>2, <1>3, <1>4, <1>5, <1>6, <1>7, <1>8, <1>9, <1>10, <1>11, <1>12, <1>13, <1>14
  DEF SyncNext, LzChoice, Finished, LzCallStep, HashStep, BtStep
-----------------------------------------------------------------------------
(* The invariant. *)

\* A pointer is not before the window.
LEMMA PointersAreNat ==
  Working /\ HistoryInv /\ PointerInv /\ mf.base \in Nat /\ lz.pos \in Nat /\ bt.pos \in Nat
    => lz.ptr \in Nat /\ bt.ptr \in Nat
<1> SUFFICES ASSUME Working, HistoryInv, PointerInv, mf.base \in Nat, lz.pos \in Nat, bt.pos \in Nat
             PROVE  lz.ptr \in Nat /\ bt.ptr \in Nat
  OBVIOUS
<1>1. /\ mf.base <= AtLeast0(lz.pos - historySize - keepAddBufferBefore)
      /\ mf.base <= AtLeast0(bt.pos - historySize)
      /\ historySize \in Nat /\ keepAddBufferBefore \in Nat
  BY SizesAssumption DEF HistoryInv
<1>2. mf.base <= lz.pos /\ mf.base <= bt.pos
  BY <1>1 DEF AtLeast0
<1> QED BY <1>2 DEF PointerInv, LzState, BtState

\* What has the fields of a state, all natural.
LEMMA NaturalFields ==
  ASSUME NEW x \in LzState, {x.pos, x.ptr, x.rem, x.avail} \subseteq Nat,
         NEW y \in BtState, {y.pos, y.ptr, y.sent, y.hashRem, y.hashNumAvail} \subseteq Nat,
         {y.block.from, y.block.num, y.block.avail} \subseteq Nat
  PROVE  /\ x \in [pos : Nat, ptr : Nat, rem : Nat, avail : Nat, eof : BOOLEAN]
         /\ y \in [pos : Nat, ptr : Nat, sent : Nat, hashRem : Nat, hashNumAvail : Nat,
                   block : [from : Nat, num : Nat, avail : Nat], full : BOOLEAN]
<1>1. x \in [pos : Nat, ptr : Nat, rem : Nat, avail : Nat, eof : BOOLEAN]
  BY DEF LzState
<1>2. y.block \in [from : Nat, num : Nat, avail : Nat]
  BY DEF BtState, Block
<1>3. y \in [pos : Nat, ptr : Nat, sent : Nat, hashRem : Nat, hashNumAvail : Nat,
             block : [from : Nat, num : Nat, avail : Nat], full : BOOLEAN]
  BY <1>2 DEF BtState
<1> QED BY <1>1, <1>3

LEMMA WindowTypeNext ==
  ASSUME Inv, FlowInv, [Next]_vars
  PROVE  /\ mf' \in WindowType
         /\ hashBuf' \in [0 .. kMtHashNumBlocks - 1 -> [from : Nat, num : Nat, avail : Nat]]
         /\ btBuf' \in [0 .. kMtBtNumBlocks - 1 -> [from : Nat, num : Nat, avail : Nat]]
<1>1. DataTypeOK /\ WindowInv /\ mf \in WindowType
  BY DEF FlowInv, DataTypeOK, WindowType
<1>2. mf' \in WindowType
  <2>1. CASE InitStream
    <3>1. PICK len \in Nat : mf' = NewWindow(len)
      BY <2>1, SizesAssumption DEF InitStream
    <3> QED BY <3>1 DEF NewWindow, WindowType
  <2>2. CASE HashMovesWindow
    <3>1. MoveOffset(mf) \in Nat
      BY <1>1, <2>2, MoveFits DEF HashMovesWindow, HashMove, WindowInv
    <3> QED BY <1>1, <2>2, <3>1 DEF HashMovesWindow, WindowType
  <2>3. CASE HashFillsBlock
    BY <1>1, <2>3, BlockIsFilled
  <2> QED BY <1>1, <2>1, <2>2, <2>3, WindowSteps
<1>3. hashBuf' \in [0 .. kMtHashNumBlocks - 1 -> [from : Nat, num : Nat, avail : Nat]]
  <2>1. CASE HashFillsBlock
    <3>1. PICK h \in [from : Nat, num : Nat, avail : Nat] :
            hashBuf' = [hashBuf EXCEPT ![Slot("hash", blockIndex["hash"])] = h]
      BY <1>1, <2>1, BlockIsFilled
    <3> QED BY <1>1, <3>1 DEF DataTypeOK
  <2>2. CASE hashBuf' = hashBuf
    BY <1>1, <2>2 DEF DataTypeOK
  <2> QED
    BY <2>1, <2>2, StepCases
    DEF Quietly, dataVars, InitStream, LzAsks, LzReadsHeader, LzTakesPosition, HashMovesWindow,
        BtBeginsBlock, BtAsks, BtReadsHeader, BtGetMatches, BtEndsBlock
<1>4. btBuf' \in [0 .. kMtBtNumBlocks - 1 -> [from : Nat, num : Nat, avail : Nat]]
  <2>1. CASE BtEndsBlock
    <3>1. bt.block \in [from : Nat, num : Nat, avail : Nat]
      BY <1>1 DEF DataTypeOK
    <3> QED BY <1>1, <2>1, <3>1 DEF DataTypeOK, BtEndsBlock
  <2>2. CASE btBuf' = btBuf
    BY <1>1, <2>2 DEF DataTypeOK
  <2> QED
    BY <2>1, <2>2, StepCases
    DEF Quietly, dataVars, InitStream, LzAsks, LzReadsHeader, LzTakesPosition, HashMovesWindow,
        HashFillsBlock, BtBeginsBlock, BtAsks, BtReadsHeader, BtGetMatches
<1> QED BY <1>2, <1>3, <1>4

\* The fields of lz and bt but for the pointers.
LEMMA LzFieldsNext ==
  ASSUME Inv, FlowInv, [Next]_vars
  PROVE  {lz'.pos, lz'.rem, lz'.avail} \subseteq Nat
<1>1. DataTypeOK /\ LzInv /\ lz.pos \in Nat /\ lz.rem \in Nat /\ lz.avail \in Nat
  BY Fields DEF FlowInv
<1>2. CASE InitStream
  BY <1>2 DEF InitStream, NewLz
<1>3. CASE LzReadsHeader
  <2>1. \E b \in [from : Nat, num : Nat, avail : Nat] :
          lz'.pos = lz.pos /\ lz'.rem = b.num /\ lz'.avail = b.avail
    BY <1>3, LzIsTold
  <2> QED BY <1>1, <2>1
<1>4. CASE LzTakesPosition
  <2>1. /\ lz.avail > 0 /\ lz.rem > 0
        /\ lz'.pos = lz.pos + 1 /\ lz'.avail = lz.avail - 1 /\ lz'.rem = lz.rem - 1
    BY <1>4, BtFlowTake DEF LzTakesPosition
  <2> QED BY <1>1, <2>1
<1>5. CASE HashMovesWindow
  <2>1. lz'.pos = lz.pos /\ lz'.rem = lz.rem /\ lz'.avail = lz.avail
    BY <1>1, <1>5 DEF HashMovesWindow, DataTypeOK
  <2> QED BY <1>1, <2>1
<1>6. CASE lz' = lz
  BY <1>1, <1>6
<1> QED
  BY <1>2, <1>3, <1>4, <1>5, <1>6, StepCases
  DEF Quietly, dataVars, LzAsks, HashFillsBlock, BtBeginsBlock, BtAsks, BtReadsHeader, BtGetMatches,
      BtEndsBlock

LEMMA BtFieldsNext ==
  ASSUME Inv, FlowInv, [Next]_vars
  PROVE  /\ {bt'.pos, bt'.sent, bt'.hashRem, bt'.hashNumAvail} \subseteq Nat
         /\ {bt'.block.from, bt'.block.num, bt'.block.avail} \subseteq Nat
<1>1. /\ DataTypeOK /\ bt.pos \in Nat /\ bt.sent \in Nat /\ bt.hashRem \in Nat /\ bt.hashNumAvail \in Nat
      /\ bt.block.from \in Nat /\ bt.block.num \in Nat /\ bt.block.avail \in Nat
  BY Fields DEF FlowInv
<1>2. CASE InitStream
  BY <1>2 DEF InitStream, NewBt, EmptyBlock
<1>3. CASE HashMovesWindow \/ BtEndsBlock
  <2>1. /\ bt'.pos = bt.pos /\ bt'.hashRem = bt.hashRem /\ bt'.hashNumAvail = bt.hashNumAvail
        /\ bt'.block = bt.block /\ bt'.sent \in {bt.sent, bt.sent + bt.block.num}
    BY <1>1, <1>3 DEF HashMovesWindow, BtEndsBlock, DataTypeOK
  <2> QED BY <1>1, <2>1
<1>4. CASE BtBeginsBlock
  <2>1. /\ bt'.pos = bt.pos /\ bt'.sent = bt.sent /\ bt'.hashRem = bt.hashRem
        /\ bt'.hashNumAvail = bt.hashNumAvail
        /\ bt'.block = [from |-> bt.sent, num |-> 0, avail |-> bt.hashNumAvail]
    BY <1>1, <1>4 DEF BtBeginsBlock, DataTypeOK
  <2> QED BY <1>1, <2>1
<1>5. CASE BtReadsHeader
  <2>1. Working'
    BY <1>5, Busy DEF BtReadsHeader, NextLock, Working, Goto, Inv, TypeOK, PcTypeOK, Threads, Syncs
  <2>2. PICK h \in [from : Nat, num : Nat, avail : Nat] :
          /\ bt'.hashRem = h.num /\ bt'.hashNumAvail = (IF Short(h) THEN 0 ELSE h.avail)
          /\ bt'.pos = bt.pos /\ bt'.sent = bt.sent
          /\ bt'.block.from = bt.block.from /\ bt'.block.avail = bt.block.num + h.avail
          /\ bt'.block.num = bt.block.num + (IF Short(h) THEN h.avail ELSE 0)
    BY <1>5, <2>1, HeaderIsRead
  <2> QED BY <1>1, <2>2
<1>6. CASE BtGetMatches
  <2>1. Working
    BY <1>6, Busy DEF BtGetMatches, Syncs
  <2>2. BtInv
    BY DEF FlowInv
  <2>3. PICK n \in Nat \ {0} :
          /\ n <= bt.hashRem /\ bt'.pos = bt.pos + n /\ bt'.sent = bt.sent
          /\ bt'.hashRem = bt.hashRem - n /\ bt'.hashNumAvail = bt.hashNumAvail - n
          /\ bt'.block.from = bt.block.from /\ bt'.block.avail = bt.block.avail
          /\ bt'.block.num = bt.block.num + n
    BY <1>6, <2>1, HashFlowGet
  <2>4. bt.hashRem <= bt.hashNumAvail
    BY <2>1, <2>2 DEF BtInv
  <2> QED BY <1>1, <2>3, <2>4
<1>7. CASE bt' = bt
  BY <1>1, <1>7
<1> QED
  BY <1>2, <1>3, <1>4, <1>5, <1>6, <1>7, StepCases
  DEF Quietly, dataVars, LzAsks, LzReadsHeader, LzTakesPosition, HashFillsBlock, BtAsks

LEMMA DataTypeNext ==
  ASSUME Inv, FlowInv, [Next]_vars, PointerInv', HistoryInv'
  PROVE  DataTypeOK'
<1>1. mf' \in WindowType
      /\ hashBuf' \in [0 .. kMtHashNumBlocks - 1 -> [from : Nat, num : Nat, avail : Nat]]
      /\ btBuf' \in [0 .. kMtBtNumBlocks - 1 -> [from : Nat, num : Nat, avail : Nat]]
  BY WindowTypeNext
<1>2. /\ {lz'.pos, lz'.rem, lz'.avail} \subseteq Nat
      /\ {bt'.pos, bt'.sent, bt'.hashRem, bt'.hashNumAvail} \subseteq Nat
      /\ {bt'.block.from, bt'.block.num, bt'.block.avail} \subseteq Nat
  BY LzFieldsNext, BtFieldsNext
<1>3. lz'.ptr \in Nat /\ bt'.ptr \in Nat
  <2>1. CASE Working'
    <3>1. mf'.base \in Nat /\ lz'.pos \in Nat /\ bt'.pos \in Nat
      BY <1>1, <1>2 DEF WindowType
    <3>2. (Working /\ HistoryInv /\ PointerInv /\ mf.base \in Nat /\ lz.pos \in Nat /\ bt.pos \in Nat
           => lz.ptr \in Nat /\ bt.ptr \in Nat)'
      BY PointersAreNat, PTL
    <3> QED BY <2>1, <3>1, <3>2
  <2>2. CASE ~Working'
    <3>1. lz' = lz /\ bt' = bt
      <4>1. CASE HashMovesWindow \/ BtBeginsBlock \/ BtReadsHeader \/ BtGetMatches \/ BtEndsBlock
        BY <2>2, <4>1, Busy
        DEF HashMovesWindow, HashMove, BtBeginsBlock, BtCheck, BtReadsHeader, NextLock, BtGetMatches,
            syncVars, BtEndsBlock, BtUnlock, Goto, Working, Inv, TypeOK, PcTypeOK, Threads, Syncs
      <4>2. CASE LzReadsHeader \/ LzTakesPosition \/ InitStream
        BY <2>2, <4>2
        DEF LzReadsHeader, NextLock, LzTakesPosition, InitStream, InitMt, syncVars, Goto, Working,
            Inv, TypeOK, PcTypeOK, Threads
      <4> QED
        BY <4>1, <4>2, StepCases DEF Quietly, dataVars, LzAsks, HashFillsBlock, BtAsks
    <3> QED BY <3>1, Fields DEF FlowInv
  <2> QED BY <2>1, <2>2
<1>4. lz' \in LzState /\ bt' \in BtState
  BY DEF PointerInv
<1>5. /\ lz' \in [pos : Nat, ptr : Nat, rem : Nat, avail : Nat, eof : BOOLEAN]
      /\ bt' \in [pos : Nat, ptr : Nat, sent : Nat, hashRem : Nat, hashNumAvail : Nat,
                  block : [from : Nat, num : Nat, avail : Nat], full : BOOLEAN]
  BY <1>2, <1>3, <1>4, NaturalFields
<1> QED BY <1>1, <1>5 DEF DataTypeOK, WindowType

\* Before the first call there is no finder, and nothing in its window.
LEMMA FlowInit == Init => FlowInv
<1> SUFFICES ASSUME Init PROVE FlowInv
  OBVIOUS
<1>1. pc["lz"] = "new" /\ pc["hash"] = "none" /\ ~Working
  BY DEF Init, SyncInit, Working, CallLabels, Threads
<1>2. /\ mf = NewWindow(0) /\ bt = NewBt /\ lz = NewLz
      /\ hashBuf = [i \in 0 .. kMtHashNumBlocks - 1 |-> EmptyBlock]
      /\ btBuf = [i \in 0 .. kMtBtNumBlocks - 1 |-> EmptyBlock]
  BY DEF Init
<1>3. DataTypeOK
  BY <1>2 DEF DataTypeOK, NewWindow, NewBt, NewLz, EmptyBlock
<1>4. WindowInv
  <2>1. Room(mf) >= 0
    BY <1>2, WindowSizes DEF Room, NewWindow
  <2> QED BY <1>1, <1>2, <2>1 DEF WindowInv, NewWindow
<1>5. HashFlow /\ BtFlow /\ BtInv /\ LzInv /\ FreshInv /\ HistoryInv /\ SpareInv
  BY <1>1 DEF HashFlow, BtFlow, BtInv, LzInv, FreshInv, HistoryInv, SpareInv
<1> QED BY <1>3, <1>4, <1>5 DEF FlowInv

\* Every step keeps it.
LEMMA FlowNext ==
  ASSUME Inv, DataInv, FlowInv, [Next]_vars
  PROVE  DataInv' /\ FlowInv'
<1>1. DataInv'
  BY RingsNext, PointerNext DEF Inv, TypeOK, DataInv
<1>2. HistoryInv' /\ WindowInv' /\ ThreadsInv'
  BY HistoryNext, WindowNext, ThreadsNext
<1>3. SpareInv'
  BY SpareNext, StepIsSyncStep DEF FlowInv
<1>4. DataTypeOK'
  BY <1>1, <1>2, DataTypeNext DEF DataInv
<1> QED BY <1>1, <1>2, <1>3, <1>4 DEF FlowInv, ThreadsInv

\* So it holds in every state.
LEMMA FlowHolds == Spec => [](Inv /\ DataInv /\ FlowInv)
<1>1. Inv /\ DataInv /\ FlowInv /\ [Next]_vars => DataInv' /\ FlowInv'
  BY FlowNext
<1> QED BY <1>1, DataInit, FlowInit, ImplementsSync, InvHolds, PTL DEF Spec
-----------------------------------------------------------------------------
(* The properties. *)

\* The block a consumer works on is one of those that were made.
LEMMA BlockInUse ==
  ASSUME Inv, FlowInv, NEW s \in Syncs, UsesBlock(s)
  PROVE  /\ Working /\ ~needStart[s] /\ pc[Consumer(s)] \notin NextLabels
         /\ FirstOwned(s) \in Nat /\ FirstOwned(s) \in FirstOwned(s) .. Made(s) - 1
         /\ Unread(s) = FirstOwned(s) + 1
<1>1. /\ ~needStart[s] /\ pc[Consumer(s)] \notin NextLabels
      /\ s = "bt" => pc["lz"] = "using"
      /\ s = "hash" => pc["bt"] = "fill"
  BY DEF UsesBlock, NextLabels, Consumer, Syncs
<1>2. Working
  BY <1>1, Busy DEF Working, Syncs
<1>3. Unread(s) = FirstOwned(s) + 1
  BY <1>1 DEF Unread, FirstOwned, Inv, TypeOK, CountTypeOK
<1>4. FirstOwned(s) \in Nat /\ Made(s) \in Nat /\ Unread(s) <= Made(s)
  BY <1>1, <1>2, RingBound DEF FlowInv
<1> QED BY <1>1, <1>2, <1>3, <1>4

\* The block that lz takes positions of.
LEMMA LzInOrder ==
  ASSUME Inv, FlowInv, UsesBlock("bt")
  PROVE  LET b == btBuf[CurrentSlot("bt")] IN lz.pos = b.from + b.num - lz.rem
<1>1. DataTypeOK /\ BtFlow
  BY DEF FlowInv
<1>2. PICK fo \in Nat : /\ fo = FirstOwned("bt") /\ fo \in fo .. Made("bt") - 1
                        /\ Unread("bt") = fo + 1 /\ Working /\ ~needStart["bt"]
  BY BlockInUse DEF Syncs
<1>3. PICK b \in [from : Nat, num : Nat, avail : Nat] : b = btBuf[Slot("bt", fo)]
  BY <1>1, BlockFields
<1>4. BtBlockInv(fo)
  BY <1>1, <1>2 DEF BtFlow
<1>5. b.from + b.num = BtFrom(fo + 1)
  BY <1>3, <1>4 DEF BtBlockInv
<1>6. lz.pos + lz.rem = BtFrom(fo + 1)
  BY <1>1, <1>2 DEF BtFlow
<1>7. lz.pos = b.from + b.num - lz.rem
  BY <1>1, <1>5, <1>6, Fields
<1>8. CurrentSlot("bt") = Slot("bt", fo)
  BY <1>2 DEF CurrentSlot, FirstOwned
<1> QED BY <1>3, <1>7, <1>8

\* The heads that bt is working on.
LEMMA BtInOrder ==
  ASSUME Inv, FlowInv, UsesBlock("hash"), bt.hashRem > 0
  PROVE  LET h == hashBuf[CurrentSlot("hash")] IN bt.pos = h.from + h.num - bt.hashRem
<1>1. DataTypeOK /\ HashFlow /\ BtInv
  BY DEF FlowInv
<1>2. PICK fo \in Nat : /\ fo = FirstOwned("hash") /\ fo \in fo .. Made("hash") - 1
                        /\ Unread("hash") = fo + 1 /\ Working /\ ~needStart["hash"]
                        /\ pc["bt"] \notin NextLabels
  BY BlockInUse DEF Syncs, Consumer
<1>3. PICK h \in [from : Nat, num : Nat, avail : Nat] : h = hashBuf[Slot("hash", fo)]
  BY <1>1, BlockFields
<1>4. HashBlockInv(fo) /\ bt.hashRem <= h.num
  BY <1>1, <1>2, <1>3 DEF HashFlow
<1>5. h.from + Covered(h) = HashFrom(fo + 1) /\ (Short(h) => h.num = 0)
  BY <1>3, <1>4 DEF HashBlockInv
<1>6. BtAt + bt.hashRem = HashFrom(fo + 1) /\ bt.pos = BtAt
  BY <1>1, <1>2, Fields DEF HashFlow, BtInv
<1>7. Covered(h) = h.num
  BY <1>1, <1>4, <1>5, Fields DEF Covered
<1>8. bt.pos = h.from + h.num - bt.hashRem
  BY <1>1, <1>5, <1>6, <1>7, Fields
<1>9. CurrentSlot("hash") = Slot("hash", fo)
  BY <1>2 DEF CurrentSlot, FirstOwned
<1> QED BY <1>3, <1>8, <1>9

(* Every position reaches lz exactly once and in order, no count falls below   *)
(* 0, and the bytes lz is told of are there: for any sizes of the rings, of    *)
(* their blocks and of the window, and any input.                              *)
THEOREM DataIsInOrder == Spec => []DataInOrder
<1>1. Inv /\ FlowInv => DataInOrder
  <2> SUFFICES ASSUME Inv, FlowInv PROVE DataInOrder
    OBVIOUS
  <2>1. PositionsInOrder
    BY LzInOrder, BtInOrder DEF PositionsInOrder
  <2>2. AvailIsTruthful
    <3> SUFFICES ASSUME UsesBlock("bt") PROVE AvailIsTruthful
      BY DEF AvailIsTruthful
    <3>1. Working /\ LzInv /\ WindowInv
      BY BlockInUse DEF FlowInv, Syncs
    <3> QED BY <3>1 DEF LzInv, WindowInv, Over, AvailIsTruthful
  <2> QED BY <2>1, <2>2 DEF DataInOrder, FlowInv
<1> QED BY <1>1, FlowHolds, PTL

(* A move of the window leaves what the threads behind the hash thread look    *)
(* back at and makes room for the next read: keepSizeBefore with the sizes of  *)
(* the two rings is enough, whatever they are.                                 *)
THEOREM WindowIsEnough == Spec => []WindowServes
<1>1. Inv /\ FlowInv => WindowServes
  <2> SUFFICES ASSUME Inv, FlowInv PROVE WindowServes
    OBVIOUS
  <2>0. DataTypeOK /\ WindowInv /\ HistoryInv
    BY DEF FlowInv
  <2>1. HistoryIsKept
    BY <2>0 DEF HistoryInv, HistoryIsKept, Active, Working, CallLabels
  <2>2. ASSUME pc["hash"] = "move"
        PROVE  LET w == [mf EXCEPT !.base = @ + MoveOffset(mf)] IN
               MoveOffset(mf) >= 0 /\ ~NeedMove(w) /\ w.base + blockSize >= w.streamPos
    <3>1. PICK w : w = [mf EXCEPT !.base = @ + MoveOffset(mf)]
      OBVIOUS
    <3>2. /\ MoveOffset(mf) \in Nat /\ w.base = mf.base + MoveOffset(mf)
          /\ ~NeedMove(w) /\ Room(w) >= 0
      BY <2>0, <2>2, <3>1, MoveFits DEF WindowInv
    <3>3. w.base \in Nat /\ w.streamPos \in Nat
      <4>1. mf.base \in Nat /\ mf.streamPos \in Nat
        BY <2>0, Fields
      <4>2. w.streamPos = mf.streamPos
        BY <2>0, <3>1 DEF DataTypeOK
      <4>3. w.base \in Nat
        BY <3>2, <4>1
      <4> QED BY <4>1, <4>2, <4>3
    <3>4. w.base + blockSize >= w.streamPos
      BY <3>2, <3>3, WindowSizes DEF Room
    <3> QED BY <3>1, <3>2, <3>4
  <2>3. ASSUME pc["hash"] \in {"check", "fill"}, keepSizeAfter >= Avail(mf), ~mf.ended, ~mf.failed
        PROVE  Room(mf) > 0
    <3>1. ~NeedMove(mf)
      BY <2>0, <2>3 DEF WindowInv
    <3> QED BY <2>0, <2>3, <3>1, Fields, WindowSizes DEF NeedMove, Room, Avail
  <2>4. MoveMakesRoom
    BY <2>2, <2>3 DEF MoveMakesRoom
  <2> QED BY <2>1, <2>4 DEF WindowServes
<1> QED BY <1>1, FlowHolds, PTL
-----------------------------------------------------------------------------
(* The contract of the match finder. *)

\* No call begins quietly: only the return of GetNextBlock leads back to its caller.
LEMMA QuietCalls ==
  ASSUME Inv, Quietly
  PROVE  Active' => Active
<1>1. PcTypeOK /\ FlagTypeOK
  BY DEF Inv, TypeOK
<1> USE DEF Active, PcTypeOK, FlagTypeOK, Goto, flagVars, lockVars, countVars, lifeVars,
        Syncs, Threads, Consumer
<1>2. CASE LzQuiet
  <2>1. CASE Create \/ DestructBegin \/ DestructStep \/ StopWait("lz", "bt", "idle")
    BY <1>1, <2>1
    DEF Create, CreateOk, CreateFails, DestructBegin, DestructStep, SendExit, Join, NothingToJoin,
        StopWait
  <2>2. CASE ReleaseStream
    BY <1>1, <2>2 DEF ReleaseStream, StopWriting, StopBegin, StopNothing
  <2>3. CASE NextRelease("lz", "bt") \/ NextWait("lz", "bt") \/ StopRelease("lz", "bt")
    BY <1>1, <2>3 DEF NextRelease, NextWait, StopRelease
  <2> QED BY <1>2, <2>1, <2>2, <2>3 DEF LzQuiet
<1>3. CASE HashQuiet
  BY <1>1, <1>3
  DEF HashQuiet, HashEnterBt, WaitFree, HashEnterHash, HashCheck, WaitStart, Consume, ReportStopped
<1>4. CASE BtQuiet
  <2>1. CASE WaitFree("bt", "free") \/ BtLock \/ WaitStart("bt", "free") \/ ReportStopped("bt")
    BY <1>1, <2>1 DEF WaitFree, BtLock, LockBuffer, WaitStart, Consume, ReportStopped
  <2>2. CASE NextRelease("bt", "hash") \/ NextWait("bt", "hash") \/ StopRelease("bt", "hash")
             \/ StopWait("bt", "hash", "stopped")
    BY <1>1, <2>2 DEF NextRelease, NextWait, StopRelease, StopWait
  <2>3. CASE BtPublish \/ BtStop
    BY <1>1, <2>3 DEF BtPublish, Publish, BtStop, StopWriting, StopBegin, StopNothing
  <2> QED BY <1>4, <2>1, <2>2, <2>3 DEF BtQuiet
<1>5. CASE UNCHANGED syncVars
  BY <1>5 DEF syncVars
<1> QED BY <1>2, <1>3, <1>4, <1>5 DEF Quietly

\* The steps of a call in progress, and those of the producers, leave the calls alone.
LEMMA CallsGoOn ==
  ASSUME Inv, \/ LzAsks \/ LzTakesPosition \/ HashMovesWindow \/ HashFillsBlock
              \/ BtBeginsBlock \/ BtAsks \/ BtReadsHeader \/ BtGetMatches \/ BtEndsBlock
  PROVE  Active' <=> Active
<1>1. PcTypeOK
  BY DEF Inv, TypeOK
<1> USE DEF Active, PcTypeOK, Goto, Syncs, Threads, Consumer
<1>2. CASE LzAsks
  BY <1>1, <1>2 DEF LzAsks, LzGetNextBlock, GetNextBlock, StartProducer, FreeCurrentBlock
<1>3. CASE LzTakesPosition \/ BtGetMatches
  BY <1>3 DEF LzTakesPosition, BtGetMatches, syncVars
<1>4. CASE HashMovesWindow \/ HashFillsBlock
  BY <1>1, <1>4 DEF HashMovesWindow, HashMove, HashFillsBlock, Publish
<1>5. CASE BtBeginsBlock \/ BtAsks
  BY <1>1, <1>5 DEF BtBeginsBlock, BtCheck, BtAsks, BtGetNextBlock, GetNextBlock, StartProducer, FreeCurrentBlock
<1>6. CASE BtReadsHeader \/ BtEndsBlock
  BY <1>1, <1>6 DEF BtReadsHeader, NextLock, LockBuffer, BtEndsBlock, BtUnlock
<1> QED BY <1>2, <1>3, <1>4, <1>5, <1>6

(* Whatever the three threads do, what LzmaEnc sees is a match finder that     *)
(* answers with more or fewer of the bytes there are, gives the positions one  *)
(* by one, and answers 0 only when all were taken or the reading has failed.   *)
THEOREM FinderIsMatchFinder == Spec => ImplementsMatchFinder
<1>1. Init => Contract!FinderInit
  <2> SUFFICES ASSUME Init PROVE Contract!FinderInit
    OBVIOUS
  <2>1. mf.len = 0 /\ mf.failed = FALSE /\ lz.pos = 0 /\ lz.avail = 0 /\ lz.eof = FALSE
    BY DEF Init, NewWindow, NewLz
  <2>2. Active = FALSE
    BY DEF Init, SyncInit, Active, Threads
  <2> QED BY <2>1, <2>2 DEF Contract!FinderInit
<1>2. Inv /\ DataInv /\ FlowInv /\ [Next]_vars => [Contract!FinderNext]_(Contract!finderVars)
  <2> SUFFICES ASSUME Inv, FlowInv, [Next]_vars
               PROVE  [Contract!FinderNext]_(Contract!finderVars)
    OBVIOUS
  <2>0. DataTypeOK /\ WindowInv /\ LzInv
    BY DEF FlowInv
  <2> USE DEF Contract!FinderNext, Contract!finderVars
  <2>1. CASE Quietly
    <3>1. (Active' => Active) /\ mf' = mf /\ lz' = lz
      BY <2>1, QuietCalls DEF Quietly, dataVars
    <3>2. CASE Active' = Active
      BY <3>1, <3>2
    <3>3. CASE Active' = FALSE
      BY <3>1, <3>3 DEF Contract!Close
    <3>4. Active' = Active \/ Active' = FALSE
      BY <3>1 DEF Active
    <3> QED BY <3>2, <3>3, <3>4
  <2>2. CASE InitStream
    <3>1. ~Active /\ Active'
      BY <2>2 DEF InitStream, InitMt, Active, Inv, TypeOK, PcTypeOK, Goto, Threads, Syncs
    <3>2. PICK len \in StreamLens : mf' = NewWindow(len)
      BY <2>2 DEF InitStream
    <3>3. mf'.len = len /\ mf'.failed = FALSE /\ lz' = NewLz
      BY <2>2, <3>2 DEF InitStream, NewWindow
    <3>4. Contract!Open
      BY <3>1, <3>3 DEF NewLz, Contract!Open
    <3> QED BY <3>4
  <2>3. CASE LzReadsHeader
    <3>1. PICK b \in [from : Nat, num : Nat, avail : Nat] :
            /\ b.from = lz.pos /\ ~lz.eof
            /\ b.avail = 0 => Over /\ b.from = mf.streamPos
            /\ lz.avail <= b.avail /\ b.from + b.avail <= mf.streamPos
            /\ lz'.pos = lz.pos /\ lz'.avail = b.avail /\ lz'.eof = (b.avail = 0)
      BY <2>3, LzIsTold
    <3>2. Active /\ Active' /\ mf' = mf
      <4>1. pc["lz"] \in NextLabels /\ pc'["lz"] = "using"
        BY <2>3, LzReadFlow DEF LzReadsHeader
      <4> QED BY <2>3, <4>1 DEF Active, NextLabels, LzReadsHeader
    <3>3. /\ mf.streamPos \in Nat /\ mf.len \in Nat /\ lz.pos \in Nat /\ lz.avail \in Nat
          /\ mf.streamPos <= mf.len /\ (mf.ended => mf.streamPos = mf.len)
          /\ b.from \in Nat /\ b.avail \in Nat
      BY <2>0, Fields DEF WindowInv
    <3>4. b.avail \in lz.avail .. mf.len - lz.pos
      BY <3>1, <3>3
    <3>5. b.avail = 0 => mf.failed \/ lz.pos = mf.len
      BY <3>1, <3>3 DEF Over
    <3>6. Contract!Announce
      BY <3>1, <3>2, <3>4, <3>5 DEF Contract!Announce
    <3> QED BY <3>6
  <2>4. CASE LzTakesPosition
    <3>1. /\ lz.avail > 0 /\ lz'.pos = lz.pos + 1 /\ lz'.avail = lz.avail - 1
          /\ lz'.eof = lz.eof
      BY <2>4, BtFlowTake
    <3>2. Active /\ Active' /\ mf' = mf
      BY <2>4, CallsGoOn DEF Active, LzTakesPosition
    <3>3. Contract!Take
      BY <3>1, <3>2 DEF Contract!Take
    <3> QED BY <3>3
  <2>5. CASE HashMovesWindow
    <3>1. (Active' <=> Active) /\ mf'.len = mf.len /\ mf'.failed = mf.failed
      BY <2>0, <2>5, CallsGoOn DEF HashMovesWindow, DataTypeOK
    <3>2. lz'.pos = lz.pos /\ lz'.avail = lz.avail /\ lz'.eof = lz.eof
      BY <2>0, <2>5 DEF HashMovesWindow, DataTypeOK
    <3> QED BY <3>1, <3>2
  <2>6. CASE HashFillsBlock
    <3>1. mf' \in WindowType /\ mf'.len = mf.len /\ (mf.failed => mf'.failed)
      BY <2>0, <2>6, BlockIsFilled
    <3>2. (Active' <=> Active) /\ lz' = lz
      BY <2>6, CallsGoOn DEF HashFillsBlock
    <3>3. mf.failed \in BOOLEAN /\ mf'.failed \in BOOLEAN
      BY <2>0, <3>1 DEF WindowType, DataTypeOK
    <3>4. CASE mf'.failed = mf.failed
      BY <3>1, <3>2, <3>4
    <3>5. CASE mf'.failed = TRUE
      BY <3>1, <3>2, <3>5 DEF Contract!Fail
    <3> QED BY <3>1, <3>3, <3>4, <3>5
  <2>7. CASE LzAsks \/ BtBeginsBlock \/ BtAsks \/ BtReadsHeader \/ BtGetMatches \/ BtEndsBlock
    <3>1. (Active' <=> Active) /\ mf' = mf /\ lz' = lz
      BY <2>7, CallsGoOn
      DEF LzAsks, BtBeginsBlock, BtAsks, BtReadsHeader, BtGetMatches, BtEndsBlock, dataVars
    <3> QED BY <3>1
  <2> QED BY <2>1, <2>2, <2>3, <2>4, <2>5, <2>6, <2>7, StepCases
<1> QED BY <1>1, <1>2, FlowHolds, PTL DEF Spec, ImplementsMatchFinder, Contract!FinderSpec
=============================================================================
