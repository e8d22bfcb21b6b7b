--------------------------- MODULE ThreadsProofs ---------------------------
(***************************************************************************)
(* Events and semaphores of Threads.c, for any threads, limits and kinds:  *)
(* the mutex protects the value, no sleeper is missed, and every step is   *)
(* one of the atomic object of SyncObject or changes nothing of it.        *)
(***************************************************************************)
EXTENDS Threads, TLAPS

\* What a thread at a label is doing: it has an operation unless it is idle,
\* only a Wait sleeps, and only an operation that raised the value broadcasts.
CallFits ==
  \A t \in Threads :
    /\ pc[t] = "idle" => call[t] = NoOp
    /\ pc[t] # "idle" => call[t] \in Ops
    /\ pc[t] \in {"asleep", "relock"} => call[t].name = "wait"

ThreadsInv == ThreadsTypeOK /\ MutexIsHeld /\ CallFits /\ NoSleeperMissed

\* What is known of the event or semaphore.
LEMMA ObjectFacts ==
  ASSUME object \in Objects
  PROVE  /\ MaxCount \in Nat \ {0} /\ object.init \in 0 .. MaxCount
         /\ Kind \in {"auto", "manual", "semaphore"} /\ (Kind # "semaphore" => MaxCount = 1)
BY ThreadsAssumption DEF MaxCount, Kind

LEMMA OpsFacts ==
  /\ NoOp.name = "none"
  /\ \A o \in Ops : /\ o.name \in {"wait", "set", "reset", "release"}
                    /\ o.name \in {"set", "reset"} => Kind # "semaphore"
                    /\ o.name = "release" => o.n \in Amounts
                    /\ o # NoOp
  BY DEF NoOp, Ops

\* No step changes what kind of object it is.
LEMMA ObjectKept ==
  ASSUME [ThreadsNext]_threadsVars
  PROVE  object' = object /\ Kind' = Kind /\ MaxCount' = MaxCount /\ Ops' = Ops
<1>1. object' = object
  BY DEF ThreadsNext, threadsVars
<1>2. Kind' = Kind /\ MaxCount' = MaxCount
  BY <1>1 DEF Kind, MaxCount
<1> QED
  BY <1>1, <1>2 DEF Ops

\* A label is one of Labels, and the other threads keep theirs.
LEMMA GotoType ==
  ASSUME NEW t \in Threads, NEW label \in Labels, pc \in [Threads -> Labels], Goto(t, label)
  PROVE  /\ pc' \in [Threads -> Labels] /\ pc'[t] = label
         /\ \A u \in Threads : u # t => pc'[u] = pc[u]
  BY DEF Goto

LEMMA InitInv == ThreadsInit => ThreadsInv
<1> SUFFICES ASSUME ThreadsInit PROVE ThreadsInv
  OBVIOUS
<1>1. \A t \in Threads : pc[t] = "idle" /\ call[t] = NoOp
  BY DEF ThreadsInit
<1>2. ThreadsTypeOK
  BY <1>1, ObjectFacts, ThreadsAssumption DEF ThreadsInit, ThreadsTypeOK, Labels
<1>3. MutexIsHeld /\ CallFits /\ NoSleeperMissed
  BY <1>1, ThreadsAssumption DEF ThreadsInit, MutexIsHeld, CallFits, NoSleeperMissed
<1> QED
  BY <1>2, <1>3 DEF ThreadsInv

\* Every step keeps the types.
LEMMA TypeStep == ThreadsInv /\ [ThreadsNext]_threadsVars => ThreadsTypeOK'
<1> SUFFICES ASSUME ThreadsInv, [ThreadsNext]_threadsVars PROVE ThreadsTypeOK'
  OBVIOUS
<1>0. ThreadsTypeOK /\ MutexIsHeld /\ CallFits
  BY DEF ThreadsInv
<1>m. MaxCount \in Nat \ {0}
  BY <1>0, ObjectFacts DEF ThreadsTypeOK
<1>u. object' = object /\ MaxCount' = MaxCount /\ Ops' = Ops
  BY ObjectKept
<1> USE ThreadsAssumption, <1>m, <1>u DEF ThreadsTypeOK, Labels
<1>1. CASE UNCHANGED threadsVars
  BY <1>0, <1>1 DEF threadsVars
<1>2. ASSUME NEW t \in Threads, Enter(t) PROVE ThreadsTypeOK'
  <2>1. call' \in [Threads -> Ops \cup {NoOp}]
    BY <1>0, <1>2 DEF Enter
  <2>2. pc' \in [Threads -> Labels]
    BY <1>0, <1>2, GotoType DEF Enter
  <2> QED BY <1>0, <1>2, <2>1, <2>2 DEF Enter
<1>3. ASSUME NEW t \in Threads, Lock(t) PROVE ThreadsTypeOK'
  BY <1>0, <1>3, GotoType DEF Lock
<1>4. ASSUME NEW t \in Threads, SetBody(t) PROVE ThreadsTypeOK'
  BY <1>0, <1>4, GotoType DEF SetBody
<1>5. ASSUME NEW t \in Threads, ResetBody(t) PROVE ThreadsTypeOK'
  BY <1>0, <1>5, GotoType DEF ResetBody
<1>6. ASSUME NEW t \in Threads, ReleaseBody(t) PROVE ThreadsTypeOK'
  <2>1. call[t].n \in Nat
    BY <1>0, <1>6, OpsFacts DEF ReleaseBody, CallFits
  <2>2. value' \in 0 .. MaxCount
    BY <1>0, <1>6, <2>1 DEF ReleaseBody
  <2>3. pc' \in [Threads -> Labels]
    BY <1>0, <1>6, GotoType DEF ReleaseBody
  <2>4. refused' \in [Threads -> BOOLEAN]
    BY <1>0, <1>6 DEF ReleaseBody
  <2> QED BY <1>0, <1>6, <2>2, <2>3, <2>4 DEF ReleaseBody
<1>7. ASSUME NEW t \in Threads, Take(t) PROVE ThreadsTypeOK'
  <2>1. value' \in 0 .. MaxCount
    BY <1>0, <1>7 DEF Take
  <2> QED BY <1>0, <1>7, <2>1, GotoType DEF Take
<1>8. ASSUME NEW t \in Threads, Sleep(t) PROVE ThreadsTypeOK'
  BY <1>0, <1>8, GotoType DEF Sleep
<1>9. ASSUME NEW t \in Threads, SpuriousWakeup(t) PROVE ThreadsTypeOK'
  BY <1>0, <1>9, GotoType DEF SpuriousWakeup
<1>10. ASSUME NEW t \in Threads, Broadcast(t) PROVE ThreadsTypeOK'
  BY <1>0, <1>10 DEF Broadcast
<1>11. ASSUME NEW t \in Threads, Unlock(t) PROVE ThreadsTypeOK'
  <2>1. call' \in [Threads -> Ops \cup {NoOp}]
    BY <1>0, <1>11 DEF Unlock
  <2> QED BY <1>0, <1>11, <2>1, GotoType DEF Unlock
<1> QED
  BY <1>1, <1>2, <1>3, <1>4, <1>5, <1>6, <1>7, <1>8, <1>9, <1>10, <1>11
  DEF ThreadsNext, Running

\* Only the holder of the mutex is between Lock and Unlock.
LEMMA HolderStep == ThreadsInv /\ [ThreadsNext]_threadsVars => MutexIsHeld'
<1> SUFFICES ASSUME ThreadsInv, [ThreadsNext]_threadsVars PROVE MutexIsHeld'
  OBVIOUS
<1>0. ThreadsTypeOK /\ MutexIsHeld /\ CallFits
  BY DEF ThreadsInv
<1> USE ThreadsAssumption DEF MutexIsHeld, Labels
<1>a. pc \in [Threads -> Labels]
  BY <1>0 DEF ThreadsTypeOK
<1>1. CASE UNCHANGED threadsVars
  BY <1>0, <1>1 DEF threadsVars
<1>2. ASSUME NEW t \in Threads, Enter(t) PROVE MutexIsHeld'
  BY <1>0, <1>a, <1>2, GotoType DEF Enter
<1>3. ASSUME NEW t \in Threads, Lock(t) PROVE MutexIsHeld'
  BY <1>0, <1>a, <1>3, GotoType DEF Lock
<1>4. ASSUME NEW t \in Threads, SetBody(t) PROVE MutexIsHeld'
  BY <1>0, <1>a, <1>4, GotoType DEF SetBody
<1>5. ASSUME NEW t \in Threads, ResetBody(t) PROVE MutexIsHeld'
  BY <1>0, <1>a, <1>5, GotoType DEF ResetBody
<1>6. ASSUME NEW t \in Threads, ReleaseBody(t) PROVE MutexIsHeld'
  <2>1. Goto(t, "unlock") \/ Goto(t, "broadcast")
    BY <1>6 DEF ReleaseBody
  <2>2. mutex' = mutex /\ pc[t] = "body"
    BY <1>6 DEF ReleaseBody
  <2> QED BY <1>0, <1>a, <2>1, <2>2, GotoType
<1>7. ASSUME NEW t \in Threads, Take(t) PROVE MutexIsHeld'
  BY <1>0, <1>a, <1>7, GotoType DEF Take
<1>8. ASSUME NEW t \in Threads, Sleep(t) PROVE MutexIsHeld'
  BY <1>0, <1>a, <1>8, GotoType DEF Sleep
<1>9. ASSUME NEW t \in Threads, SpuriousWakeup(t) PROVE MutexIsHeld'
  BY <1>0, <1>a, <1>9, GotoType DEF SpuriousWakeup
<1>10. ASSUME NEW t \in Threads, Broadcast(t) PROVE MutexIsHeld'
  BY <1>0, <1>a, <1>10 DEF Broadcast
<1>11. ASSUME NEW t \in Threads, Unlock(t) PROVE MutexIsHeld'
  BY <1>0, <1>a, <1>11, GotoType DEF Unlock
<1> QED
  BY <1>1, <1>2, <1>3, <1>4, <1>5, <1>6, <1>7, <1>8, <1>9, <1>10, <1>11
  DEF ThreadsNext, Running

LEMMA CallStep == ThreadsInv /\ [ThreadsNext]_threadsVars => CallFits'
<1> SUFFICES ASSUME ThreadsInv, [ThreadsNext]_threadsVars PROVE CallFits'
  OBVIOUS
<1>0. ThreadsTypeOK /\ CallFits
  BY DEF ThreadsInv
<1>a. pc \in [Threads -> Labels] /\ call \in [Threads -> Ops \cup {NoOp}]
  BY <1>0 DEF ThreadsTypeOK
<1>u. Ops' = Ops
  BY ObjectKept
<1> USE <1>u DEF CallFits, Labels
<1>1. CASE UNCHANGED threadsVars
  BY <1>0, <1>1 DEF threadsVars
<1>2. ASSUME NEW t \in Threads, Enter(t) PROVE CallFits'
  <2>1. call'[t] \in Ops /\ \A u \in Threads : u # t => call'[u] = call[u]
    BY <1>a, <1>2 DEF Enter
  <2>2. pc'[t] = "lock" /\ \A u \in Threads : u # t => pc'[u] = pc[u]
    BY <1>a, <1>2, GotoType DEF Enter
  <2> QED BY <1>0, <2>1, <2>2
<1>3. ASSUME NEW t \in Threads, Lock(t) PROVE CallFits'
  BY <1>0, <1>a, <1>3, GotoType DEF Lock
<1>4. ASSUME NEW t \in Threads, SetBody(t) PROVE CallFits'
  BY <1>0, <1>a, <1>4, GotoType DEF SetBody
<1>5. ASSUME NEW t \in Threads, ResetBody(t) PROVE CallFits'
  BY <1>0, <1>a, <1>5, GotoType DEF ResetBody
<1>6. ASSUME NEW t \in Threads, ReleaseBody(t) PROVE CallFits'
  <2>1. Goto(t, "unlock") \/ Goto(t, "broadcast")
    BY <1>6 DEF ReleaseBody
  <2>2. call' = call /\ pc[t] = "body"
    BY <1>6 DEF ReleaseBody
  <2> QED BY <1>0, <1>a, <2>1, <2>2, GotoType
<1>7. ASSUME NEW t \in Threads, Take(t) PROVE CallFits'
  BY <1>0, <1>a, <1>7, GotoType DEF Take
<1>8. ASSUME NEW t \in Threads, Sleep(t) PROVE CallFits'
  BY <1>0, <1>a, <1>8, GotoType DEF Sleep
<1>9. ASSUME NEW t \in Threads, SpuriousWakeup(t) PROVE CallFits'
  BY <1>0, <1>a, <1>9, GotoType DEF SpuriousWakeup
<1>10. ASSUME NEW t \in Threads, Broadcast(t) PROVE CallFits'
  BY <1>0, <1>a, <1>10 DEF Broadcast
<1>11. ASSUME NEW t \in Threads, Unlock(t) PROVE CallFits'
  <2>1. call'[t] = NoOp /\ \A u \in Threads : u # t => call'[u] = call[u]
    BY <1>a, <1>11 DEF Unlock
  <2>2. pc'[t] = "idle" /\ \A u \in Threads : u # t => pc'[u] = pc[u]
    BY <1>a, <1>11, GotoType DEF Unlock
  <2> QED BY <1>0, <2>1, <2>2
<1> QED
  BY <1>1, <1>2, <1>3, <1>4, <1>5, <1>6, <1>7, <1>8, <1>9, <1>10, <1>11
  DEF ThreadsNext, Running

\* Whoever raises the value holds the mutex until it has woken the sleepers,
\* and a thread goes to sleep with the mutex and with nothing to take.
LEMMA SleeperStep == ThreadsInv /\ [ThreadsNext]_threadsVars => NoSleeperMissed'
<1> SUFFICES ASSUME ThreadsInv, [ThreadsNext]_threadsVars PROVE NoSleeperMissed'
  OBVIOUS
<1>0. ThreadsTypeOK /\ MutexIsHeld /\ CallFits /\ NoSleeperMissed
  BY DEF ThreadsInv
<1>m. MaxCount \in Nat
  BY <1>0, ObjectFacts DEF ThreadsTypeOK
<1>a. pc \in [Threads -> Labels] /\ value \in Nat
  BY <1>0, <1>m DEF ThreadsTypeOK
<1>b. ASSUME NEW t \in Threads, pc[t] \in {"body", "unlock"}, NEW u \in Threads, pc[u] = "asleep"
      PROVE  value = 0
  <2>1. \A w \in Threads : pc[w] # "broadcast"
    BY <1>0, <1>b DEF MutexIsHeld
  <2> QED BY <1>0, <1>a, <1>b, <2>1 DEF NoSleeperMissed
<1> USE DEF Labels
<1>1. CASE UNCHANGED threadsVars
  BY <1>0, <1>1 DEF threadsVars, NoSleeperMissed
<1>2. ASSUME NEW t \in Threads, Enter(t) PROVE NoSleeperMissed'
  BY <1>0, <1>a, <1>2, GotoType DEF Enter, NoSleeperMissed
<1>3. ASSUME NEW t \in Threads, Lock(t) PROVE NoSleeperMissed'
  BY <1>0, <1>a, <1>3, GotoType DEF Lock, NoSleeperMissed
<1>4. ASSUME NEW t \in Threads, SetBody(t) PROVE NoSleeperMissed'
  BY <1>a, <1>4, GotoType DEF SetBody, NoSleeperMissed
<1>5. ASSUME NEW t \in Threads, ResetBody(t) PROVE NoSleeperMissed'
  BY <1>5 DEF ResetBody, NoSleeperMissed
<1>6. ASSUME NEW t \in Threads, ReleaseBody(t) PROVE NoSleeperMissed'
  <2>1. CASE Goto(t, "broadcast")
    BY <1>a, <2>1, GotoType DEF NoSleeperMissed
  <2>2. CASE Goto(t, "unlock") /\ UNCHANGED value
    <3>1. pc[t] = "body" /\ \A u \in Threads : pc'[u] = "asleep" => pc[u] = "asleep"
      BY <1>a, <1>6, <2>2, GotoType DEF ReleaseBody
    <3> QED BY <1>b, <2>2, <3>1 DEF NoSleeperMissed
  <2> QED BY <1>6, <2>1, <2>2 DEF ReleaseBody
<1>7. ASSUME NEW t \in Threads, Take(t) PROVE NoSleeperMissed'
  <2>1. pc[t] = "body" /\ \A u \in Threads : pc'[u] = "asleep" => pc[u] = "asleep"
    BY <1>a, <1>7, GotoType DEF Take
  <2>2. value > 0
    BY <1>7 DEF Take
  <2> QED BY <1>b, <2>1, <2>2 DEF NoSleeperMissed
<1>8. ASSUME NEW t \in Threads, Sleep(t) PROVE NoSleeperMissed'
  BY <1>8 DEF Sleep, NoSleeperMissed
<1>9. ASSUME NEW t \in Threads, SpuriousWakeup(t) PROVE NoSleeperMissed'
  BY <1>0, <1>a, <1>9, GotoType DEF SpuriousWakeup, NoSleeperMissed
<1>10. ASSUME NEW t \in Threads, Broadcast(t) PROVE NoSleeperMissed'
  BY <1>a, <1>10 DEF Broadcast, NoSleeperMissed
<1>11. ASSUME NEW t \in Threads, Unlock(t) PROVE NoSleeperMissed'
  <2>1. pc[t] = "unlock" /\ \A u \in Threads : pc'[u] = "asleep" => pc[u] = "asleep"
    BY <1>a, <1>11, GotoType DEF Unlock
  <2> QED BY <1>b, <1>11, <2>1 DEF Unlock, NoSleeperMissed
<1> QED
  BY <1>1, <1>2, <1>3, <1>4, <1>5, <1>6, <1>7, <1>8, <1>9, <1>10, <1>11
  DEF ThreadsNext, Running

LEMMA InvHolds == ThreadsSpec => []ThreadsInv
<1>1. ThreadsInv /\ [ThreadsNext]_threadsVars => ThreadsInv'
  BY TypeStep, HolderStep, CallStep, SleeperStep DEF ThreadsInv
<1> QED
  BY InitInv, <1>1, PTL DEF ThreadsSpec

\* The value never exceeds the limit, whatever is released and whoever wakes up.
THEOREM TypeCorrect == ThreadsSpec => []ThreadsTypeOK
BY InvHolds, PTL DEF ThreadsInv

\* The value is touched by the holder of the mutex only; nobody sleeps with it.
THEOREM MutexProtects == ThreadsSpec => []MutexIsHeld
BY InvHolds, PTL DEF ThreadsInv

\* No wake-up is lost: while there is something to take, a thread sleeps only
\* if the one that put it there is about to broadcast.
THEOREM NoLostWakeup == ThreadsSpec => []NoSleeperMissed
BY InvHolds, PTL DEF ThreadsInv
\* A thread whose operation has no effect yet has it pending in the object.
LEMMA PendingAt ==
  \A t \in Threads :
    /\ pc[t] \in {"broadcast", "unlock"} => Pending[t] = NoOp
    /\ pc[t] \notin {"broadcast", "unlock"} => Pending[t] = call[t]
BY DEF Pending

\* Where the effect of an operation takes place, its thread has nothing
\* pending any more and the others keep what they had.
LEMMA PendingEnds ==
  ASSUME NEW t \in Threads, NEW label \in {"broadcast", "unlock"},
         pc \in [Threads -> Labels], pc[t] = "body", Goto(t, label), call' = call
  PROVE  Pending' = [Pending EXCEPT ![t] = NoOp]
<1>1. pc'[t] = label /\ \A u \in Threads : u # t => pc'[u] = pc[u]
  BY GotoType DEF Labels
<1> QED
  BY <1>1 DEF Pending

\* A step between labels of the same kind leaves what is pending alone.
LEMMA PendingKept ==
  ASSUME call' = call,
         \A u \in Threads : pc'[u] \in {"broadcast", "unlock"} <=> pc[u] \in {"broadcast", "unlock"}
  PROVE  Pending' = Pending
BY DEF Pending

LEMMA ObjectInitMaps == ThreadsInit => Object!ObjectInit
<1> SUFFICES ASSUME ThreadsInit PROVE Object!ObjectInit
  OBVIOUS
<1>1. Pending = [t \in Threads |-> NoOp]
  BY DEF Pending, ThreadsInit
<1> QED
  BY <1>1 DEF ThreadsInit, Object!ObjectInit, NoOp, Object!NoOp

\* Every step is one operation of the object, or none of its business.
LEMMA ObjectStep == ThreadsInv /\ [ThreadsNext]_threadsVars => [Object!ObjectNext]_(Object!objectVars)
<1> SUFFICES ASSUME ThreadsInv, [ThreadsNext]_threadsVars
             PROVE  [Object!ObjectNext]_(Object!objectVars)
  OBVIOUS
<1>0. ThreadsTypeOK /\ CallFits
  BY DEF ThreadsInv
<1>a. pc \in [Threads -> Labels] /\ call \in [Threads -> Ops \cup {NoOp}]
  BY <1>0 DEF ThreadsTypeOK
<1>k. Object!Kind = Kind /\ Object!MaxCount = MaxCount
  BY DEF Kind, Object!Kind, MaxCount, Object!MaxCount
<1>n. Object!NoOp = NoOp /\ Object!Ops = Ops
  BY <1>k DEF NoOp, Object!NoOp, Ops, Object!Ops
<1>u. UNCHANGED object
  BY ObjectKept
<1>s. ASSUME Pending' = Pending, UNCHANGED <<value, refused>> PROVE UNCHANGED Object!objectVars
  BY <1>s, <1>u DEF Object!objectVars
<1>1. CASE UNCHANGED threadsVars
  BY <1>1, <1>s DEF threadsVars, Pending
<1>2. ASSUME NEW t \in Threads, Enter(t) PROVE Object!Call(t)
  <2>1. pc[t] = "idle" /\ pc'[t] = "lock" /\ \A u \in Threads : u # t => pc'[u] = pc[u]
    BY <1>a, <1>2, GotoType DEF Enter, Labels
  <2>2. PICK o \in Ops : call' = [call EXCEPT ![t] = o]
    BY <1>2 DEF Enter
  <2>3. Pending[t] = NoOp
    BY <1>0, <2>1 DEF Pending, CallFits
  <2>4. Pending' = [Pending EXCEPT ![t] = o]
    BY <1>a, <2>1, <2>2 DEF Pending
  <2> QED BY <1>2, <1>n, <2>2, <2>3, <2>4 DEF Enter, Object!Call
<1>3. ASSUME NEW t \in Threads, Lock(t) PROVE UNCHANGED Object!objectVars
  BY <1>a, <1>3, <1>s, GotoType, PendingKept DEF Lock, Labels
<1>4. ASSUME NEW t \in Threads, SetBody(t) PROVE Object!Set(t)
  <2>1. Pending' = [Pending EXCEPT ![t] = NoOp]
    BY <1>a, <1>4, PendingEnds DEF SetBody
  <2> QED BY <1>4, <1>n, <2>1, PendingAt DEF SetBody, Object!Set, Object!Finished
<1>5. ASSUME NEW t \in Threads, ResetBody(t) PROVE Object!Reset(t)
  <2>1. Pending' = [Pending EXCEPT ![t] = NoOp]
    BY <1>a, <1>5, PendingEnds DEF ResetBody
  <2> QED BY <1>5, <1>n, <2>1, PendingAt DEF ResetBody, Object!Reset, Object!Finished
<1>6. ASSUME NEW t \in Threads, ReleaseBody(t) PROVE Object!Release(t)
  <2>1. Pending' = [Pending EXCEPT ![t] = NoOp]
    BY <1>a, <1>6, PendingEnds DEF ReleaseBody
  <2>2. Pending[t] = call[t]
    BY <1>6, PendingAt DEF ReleaseBody
  <2>3. value' = IF value + call[t].n > MaxCount THEN value ELSE value + call[t].n
    BY <1>6 DEF ReleaseBody
  <2> QED BY <1>6, <1>k, <1>n, <2>1, <2>2, <2>3 DEF ReleaseBody, Object!Release, Object!Finished
<1>7. ASSUME NEW t \in Threads, Take(t) PROVE Object!Wait(t)
  <2>1. Pending' = [Pending EXCEPT ![t] = NoOp]
    BY <1>a, <1>7, PendingEnds DEF Take
  <2> QED BY <1>7, <1>k, <1>n, <2>1, PendingAt DEF Take, Object!Wait, Object!Finished
<1>8. ASSUME NEW t \in Threads, Sleep(t) PROVE UNCHANGED Object!objectVars
  BY <1>a, <1>8, <1>s, GotoType, PendingKept DEF Sleep, Labels
<1>9. ASSUME NEW t \in Threads, SpuriousWakeup(t) PROVE UNCHANGED Object!objectVars
  BY <1>a, <1>9, <1>s, GotoType, PendingKept DEF SpuriousWakeup, Labels
<1>10. ASSUME NEW t \in Threads, Broadcast(t) PROVE UNCHANGED Object!objectVars
  BY <1>a, <1>10, <1>s, PendingKept DEF Broadcast
<1>11. ASSUME NEW t \in Threads, Unlock(t) PROVE UNCHANGED Object!objectVars
  <2>1. pc[t] = "unlock" /\ pc'[t] = "idle" /\ \A u \in Threads : u # t => pc'[u] = pc[u]
    BY <1>a, <1>11, GotoType DEF Unlock, Labels
  <2>2. call'[t] = NoOp /\ \A u \in Threads : u # t => call'[u] = call[u]
    BY <1>a, <1>11 DEF Unlock
  <2>3. Pending' = Pending
    BY <2>1, <2>2 DEF Pending
  <2> QED BY <1>11, <1>s, <2>3 DEF Unlock
<1> QED
  BY <1>u, <1>1, <1>2, <1>3, <1>4, <1>5, <1>6, <1>7, <1>8, <1>9, <1>10, <1>11
  DEF ThreadsNext, Running, Object!ObjectNext, Object!Effect

\* An event or a semaphore of Threads.c is the atomic object its callers use:
\* the safety part of ImplementsObject.
THEOREM ImplementsAtomicObject == ThreadsSpec => Object!ObjectSpec
<1>1. ThreadsInv /\ [ThreadsNext]_threadsVars => [Object!ObjectNext]_(Object!objectVars)
  BY ObjectStep
<1> QED
  BY ObjectInitMaps, <1>1, InvHolds, PTL DEF ThreadsSpec, Object!ObjectSpec
=============================================================================
