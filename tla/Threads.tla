------------------------------ MODULE Threads ------------------------------
(***************************************************************************)
(* Events and semaphores of Threads.c for POSIX: a value that a mutex      *)
(* guards, and a condition variable on which Wait sleeps.  Every step that *)
(* another thread could see or come between is a step of its own.          *)
(* pthread_cond_wait may wake up for no reason.                            *)
(***************************************************************************)
EXTENDS Naturals

CONSTANTS Threads, Objects, Amounts, Nobody

ASSUME ThreadsAssumption ==
  /\ \A o \in Objects : /\ o.kind \in {"auto", "manual", "semaphore"}
                        /\ o.maxCount \in Nat \ {0} /\ o.init \in 0 .. o.maxCount
                        /\ o.kind # "semaphore" => o.maxCount = 1
  /\ Amounts \subseteq Nat \ {0}
  /\ Nobody \notin Threads

VARIABLES
  object,   \* the event or semaphore: [kind, init, maxCount]
  value,    \* _state or _count
  mutex,    \* who holds _mutex
  pc,       \* where a thread is
  call,     \* its operation
  refused   \* did its last ReleaseN return ERROR_TOO_MANY_POSTS?

threadsVars == <<object, value, mutex, pc, call, refused>>

Kind     == object.kind
MaxCount == object.maxCount

NoOp == [name |-> "none", n |-> 0]
Ops  == IF Kind = "semaphore"
        THEN {[name |-> "wait", n |-> 0]} \cup [name : {"release"}, n : Amounts]
        ELSE [name : {"wait", "set", "reset"}, n : {0}]

\* Event_Create, Semaphore_Create
ThreadsInit ==
  /\ object \in Objects /\ value = object.init /\ mutex = Nobody
  /\ pc = [t \in Threads |-> "idle"] /\ call = [t \in Threads |-> NoOp]
  /\ refused = [t \in Threads |-> FALSE]

Goto(t, label) == pc' = [pc EXCEPT ![t] = label]

Enter(t) ==
  /\ pc[t] = "idle"
  /\ \E o \in Ops : call' = [call EXCEPT ![t] = o]
  /\ Goto(t, "lock") /\ UNCHANGED <<value, mutex, refused>>

\* pthread_mutex_lock, and its part at the end of pthread_cond_wait.
Lock(t) ==
  /\ pc[t] \in {"lock", "relock"} /\ mutex = Nobody
  /\ mutex' = t /\ Goto(t, "body")
  /\ UNCHANGED <<value, call, refused>>

SetBody(t) ==
  /\ pc[t] = "body" /\ call[t].name = "set"
  /\ value' = 1 /\ Goto(t, "broadcast")
  /\ UNCHANGED <<mutex, call, refused>>

ResetBody(t) ==
  /\ pc[t] = "body" /\ call[t].name = "reset"
  /\ value' = 0 /\ Goto(t, "unlock")
  /\ UNCHANGED <<mutex, call, refused>>

ReleaseBody(t) ==
  /\ pc[t] = "body" /\ call[t].name = "release"
  /\ IF value + call[t].n > MaxCount
     THEN UNCHANGED value /\ Goto(t, "unlock")
     ELSE value' = value + call[t].n /\ Goto(t, "broadcast")
  /\ refused' = [refused EXCEPT ![t] = value + call[t].n > MaxCount]
  /\ UNCHANGED <<mutex, call>>

\* Mutant: the waiter does not look again after it woke up.
Take_AfterWakeup(t) ==
  /\ pc[t] = "body" /\ call[t].name = "wait"
  /\ value' = IF Kind = "manual" \/ value = 0 THEN value ELSE value - 1
  /\ Goto(t, "unlock") /\ UNCHANGED <<mutex, call, refused>>

\* The loop of Wait ends ...
Take(t) ==
  /\ pc[t] = "body" /\ call[t].name = "wait" /\ value > 0
  /\ value' = IF Kind = "manual" THEN value ELSE value - 1
  /\ Goto(t, "unlock") /\ UNCHANGED <<mutex, call, refused>>

\* ... or pthread_cond_wait lets go of the mutex and sleeps, in one step.
Sleep(t) ==
  /\ pc[t] = "body" /\ call[t].name = "wait" /\ value = 0
  /\ mutex' = Nobody /\ Goto(t, "asleep")
  /\ UNCHANGED <<value, call, refused>>

SpuriousWakeup(t) ==
  /\ pc[t] = "asleep" /\ Goto(t, "relock")
  /\ UNCHANGED <<value, mutex, call, refused>>

\* Mutant: one sleeper is woken instead of all.
Broadcast_One(t) ==
  /\ pc[t] = "broadcast"
  /\ IF \E u \in Threads : pc[u] = "asleep"
     THEN \E u \in Threads : pc[u] = "asleep" /\ pc' = [pc EXCEPT ![t] = "unlock", ![u] = "relock"]
     ELSE Goto(t, "unlock")
  /\ UNCHANGED <<value, mutex, call, refused>>

\* pthread_cond_broadcast
Broadcast(t) ==
  /\ pc[t] = "broadcast"
  /\ pc' = [u \in Threads |-> IF u = t THEN "unlock" ELSE IF pc[u] = "asleep" THEN "relock" ELSE pc[u]]
  /\ UNCHANGED <<value, mutex, call, refused>>

Unlock(t) ==
  /\ pc[t] = "unlock"
  /\ mutex' = Nobody /\ Goto(t, "idle") /\ call' = [call EXCEPT ![t] = NoOp]
  /\ UNCHANGED <<value, refused>>

Running(t) ==
  \/ SetBody(t) \/ ResetBody(t) \/ ReleaseBody(t) \/ Take(t) \/ Sleep(t) \/ Broadcast(t) \/ Unlock(t)

ThreadsNext ==
  UNCHANGED object /\ \E t \in Threads : Enter(t) \/ Lock(t) \/ Running(t) \/ SpuriousWakeup(t)
ThreadsSpec == ThreadsInit /\ [][ThreadsNext]_threadsVars

\* A running thread goes on, and a mutex that is free again and again is not
\* withheld from a thread for ever.  No thread need call an operation, and no
\* spurious wake-up need happen.
FairThreads ==
  \A t \in Threads : /\ WF_threadsVars(UNCHANGED object /\ Running(t))
                     /\ SF_threadsVars(UNCHANGED object /\ Lock(t))
FairThreadsSpec == ThreadsSpec /\ FairThreads
-----------------------------------------------------------------------------
(* Properties                                                              *)

Labels == {"idle", "lock", "relock", "body", "asleep", "broadcast", "unlock"}

\* Type correctness of the structures of Threads.h.
ThreadsTypeOK ==
  /\ object \in Objects /\ value \in 0 .. MaxCount /\ mutex \in Threads \cup {Nobody}
  /\ pc \in [Threads -> Labels] /\ call \in [Threads -> Ops \cup {NoOp}]
  /\ refused \in [Threads -> BOOLEAN]

\* The value is touched by the thread that holds the mutex only, and no thread
\* keeps it while it sleeps or after it returned.
MutexIsHeld ==
  \A t \in Threads : pc[t] \in {"body", "broadcast", "unlock"} <=> mutex = t

\* No thread sleeps while there is something to take, unless the thread that
\* put it there is about to wake all sleepers.
NoSleeperMissed ==
  value > 0 /\ (\E t \in Threads : pc[t] = "asleep") => \E t \in Threads : pc[t] = "broadcast"

\* An operation has its effect where the value changes.
Pending == [t \in Threads |-> IF pc[t] \in {"broadcast", "unlock"} THEN NoOp ELSE call[t]]
Object  == INSTANCE SyncObject WITH op <- Pending

\* Events and semaphores are what their callers rely on, waiting included.
ImplementsObject == Object!FairObjectSpec
=============================================================================
