----------------------------- MODULE SyncObject -----------------------------
(***************************************************************************)
(* What the callers of Threads.h may rely on: an event or a semaphore is a *)
(* number that every operation changes in one step.  An auto-reset event   *)
(* is 0 or 1 and a Wait that returns takes it; a manual-reset event stays; *)
(* a semaphore counts up to MaxCount, and a Wait takes one.  MtSync uses   *)
(* its events and semaphores in this form.                                 *)
(***************************************************************************)
EXTENDS Naturals

CONSTANTS Threads,
          Objects,    \* [kind, init, maxCount]: an event or a semaphore as it is created
          Amounts     \* by which ReleaseN is called

VARIABLES
  object,   \* the one of this behaviour
  value,    \* the state of the event, the count of the semaphore
  op,       \* the operation that a thread has called and that has no effect yet
  refused   \* was the last ReleaseN of a thread refused?

objectVars == <<object, value, op, refused>>

Kind     == object.kind
MaxCount == object.maxCount

NoOp == [name |-> "none", n |-> 0]
Ops  == IF Kind = "semaphore"
        THEN {[name |-> "wait", n |-> 0]} \cup [name : {"release"}, n : Amounts]
        ELSE [name : {"wait", "set", "reset"}, n : {0}]

ObjectInit ==
  /\ object \in Objects /\ value = object.init
  /\ op = [t \in Threads |-> NoOp] /\ refused = [t \in Threads |-> FALSE]

Call(t) ==
  /\ op[t] = NoOp
  /\ \E o \in Ops : op' = [op EXCEPT ![t] = o]
  /\ UNCHANGED <<value, refused>>

Finished(t) == op' = [op EXCEPT ![t] = NoOp]

Set(t) ==
  /\ op[t].name = "set" /\ value' = 1 /\ Finished(t) /\ UNCHANGED refused
Reset(t) ==
  /\ op[t].name = "reset" /\ value' = 0 /\ Finished(t) /\ UNCHANGED refused
Release(t) ==
  /\ op[t].name = "release"
  /\ value' = IF value + op[t].n > MaxCount THEN value ELSE value + op[t].n
  /\ refused' = [refused EXCEPT ![t] = value + op[t].n > MaxCount]
  /\ Finished(t)
Wait(t) ==
  /\ op[t].name = "wait" /\ value > 0
  /\ value' = IF Kind = "manual" THEN value ELSE value - 1
  /\ Finished(t) /\ UNCHANGED refused

Effect(t) == Set(t) \/ Reset(t) \/ Release(t) \/ Wait(t)

ObjectNext == UNCHANGED object /\ \E t \in Threads : Call(t) \/ Effect(t)
ObjectSpec == ObjectInit /\ [][ObjectNext]_objectVars

\* A thread that could go on all the time does.
FairObjectSpec == ObjectSpec /\ \A t \in Threads : WF_objectVars(UNCHANGED object /\ Effect(t))
=============================================================================
