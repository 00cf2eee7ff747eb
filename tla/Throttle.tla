------------------------------ MODULE Throttle ------------------------------
(***************************************************************************)
(* arax_throttle_s (src/core/arax_throttle.c): the byte budget of a pipe   *)
(* or of a physical accelerator.  Registering an object of size sz calls   *)
(* arax_throttle_size_dec, which blocks while less than sz is available;   *)
(* destroying it calls arax_throttle_size_inc.                             *)
(*                                                                         *)
(* Every access that changes the budget runs inside async_condition_lock / *)
(* async_condition_unlock, so a critical section is one step; the only     *)
(* place inside it where the lock is given up is async_condition_wait.     *)
(* The condition is the one of the default build (async/mutex): notify is  *)
(* pthread_cond_broadcast.  A user of the throttle is an object: it asks   *)
(* for its size once and gives it back once, possibly from another thread. *)
(***************************************************************************)
EXTENDS Integers, FiniteSetsExt, Functions

CONSTANTS
  Objects,     \* objects whose size is charged to this throttle
  Capacity,    \* t_sz of arax_throttle_init
  Available0   \* a_sz of arax_throttle_init

\* arax_throttle_init asserts a_sz > 0, t_sz > 0 and t_sz >= a_sz.
ASSUME ThrottleAssumption ==
  /\ Capacity \in Nat
  /\ Available0 \in 1 .. Capacity

VARIABLES
  available,   \* arax_throttle_s.available
  initial,     \* the part of the capacity that was in use before init, if not yet credited
  pc,          \* where the object's owner is
  size         \* object size; the sz of its size_dec and size_inc

vars == <<available, initial, pc, size>>

(* "new": not registered yet.  "dec": inside size_dec, about to evaluate   *)
(* the loop condition with the lock held.  "wait": in async_condition_wait.*)
(* "held": size_dec returned.  "gone": size_inc returned.                  *)
PC == {"new", "dec", "wait", "held", "gone"}

TypeOK ==
  /\ available \in Nat
  /\ initial \in 0 .. Capacity
  /\ pc \in [Objects -> PC]
  /\ size \in [Objects -> 0 .. Capacity]

Init ==
  /\ available = Available0
  /\ initial = Capacity - Available0
  /\ pc = [o \in Objects |-> "new"]
  /\ size = [o \in Objects |-> 0]

-----------------------------------------------------------------------------
\* Mutant of NotifyAll: pthread_cond_signal, one waiter is woken.
MutNotifyOne(p) ==
  IF \E o \in Objects : p[o] = "wait"
    THEN [p EXCEPT ![CHOOSE o \in Objects : p[o] = "wait"] = "dec"]
    ELSE p

(* async_condition_notify is a broadcast: every waiter leaves              *)
(* async_condition_wait and will evaluate its loop condition again.        *)
NotifyAll(p) ==
  [o \in Objects |-> IF p[o] = "wait" THEN "dec" ELSE p[o]]

\* arax_throttle_size_dec is called; a size of zero returns at once.
CallDec(o, sz) ==
  /\ pc[o] = "new"
  /\ size' = [size EXCEPT ![o] = sz]
  /\ pc' = [pc EXCEPT ![o] = IF sz = 0 THEN "held" ELSE "dec"]
  /\ UNCHANGED <<available, initial>>

\* The critical section of size_dec from the loop condition on.
TakeOrWait(o) ==
  /\ pc[o] = "dec"
  /\ IF available < size[o]
       THEN pc' = [pc EXCEPT ![o] = "wait"] /\ UNCHANGED available
       ELSE /\ available' = available - size[o]
            /\ pc' = [pc EXCEPT ![o] = "held"]
  /\ UNCHANGED <<initial, size>>

\* pthread_cond_wait may return without a notification.
SpuriousWake(o) ==
  /\ pc[o] = "wait"
  /\ pc' = [pc EXCEPT ![o] = "dec"]
  /\ UNCHANGED <<available, initial, size>>

\* Mutant of arax_throttle_size_inc: the caller credits the whole capacity.
MutIncWrongSize(o) ==
  /\ pc[o] = "held"
  /\ available' = available + Capacity
  /\ pc' = NotifyAll([pc EXCEPT ![o] = "gone"])
  /\ UNCHANGED <<initial, size>>

\* Mutant of arax_throttle_size_inc: no notification.
MutIncNoNotify(o) ==
  /\ pc[o] = "held"
  /\ available' = available + size[o]
  /\ pc' = [pc EXCEPT ![o] = "gone"]
  /\ UNCHANGED <<initial, size>>

\* arax_throttle_size_inc: a size of zero returns before the notification.
arax_throttle_size_inc(o) ==
  /\ pc[o] = "held"
  /\ available' = available + size[o]
  /\ LET p == [pc EXCEPT ![o] = "gone"]
     IN  pc' = IF size[o] = 0 THEN p ELSE NotifyAll(p)
  /\ UNCHANGED <<initial, size>>

(* An accelerator's thread that stops credits what its device had in use   *)
(* when the throttle was initialised (getTotalSize - initialAvailableSize).*)
ReleaseInitial ==
  /\ initial > 0
  /\ available' = available + initial
  /\ initial' = 0
  /\ pc' = NotifyAll(pc)
  /\ UNCHANGED size

Done == (\A o \in Objects : pc[o] = "gone") /\ UNCHANGED vars

Next ==
  \/ \E o \in Objects :
       \/ \E sz \in 0 .. Capacity : CallDec(o, sz)
       \/ TakeOrWait(o)
       \/ SpuriousWake(o)
       \/ arax_throttle_size_inc(o)
  \/ ReleaseInitial
  \/ Done

Spec == Init /\ [][Next]_vars

(* A thread inside the critical section runs on, and the mutex is handed   *)
(* to some thread that asks for it; that an object which has its budget is *)
(* eventually destroyed is an assumption on the users of the throttle.     *)
Fairness ==
  \A o \in Objects : WF_vars(TakeOrWait(o)) /\ WF_vars(arax_throttle_size_inc(o))

FairSpec == Spec /\ Fairness

-----------------------------------------------------------------------------
Charged(o) == IF pc[o] = "held" THEN size[o] ELSE 0

(* The assertions of size_inc and size_dec (capacity >= available) and     *)
(* more: what is available and what live objects are charged always add up *)
(* to the capacity, whatever the order of concurrent size_dec and size_inc.*)
BudgetConserved ==
  available + initial
    + FoldFunctionOnSet(LAMBDA x, y : x + y, 0, [o \in Objects |-> Charged(o)], Objects)
  = Capacity

(* No lost wake-up in size_dec/size_inc: an owner sleeps in                *)
(* async_condition_wait only while its request really does not fit.        *)
NoLostWakeup ==
  \A o \in Objects : pc[o] = "wait" => available < size[o]

(* size_dec returns in the end for every request that the initially        *)
(* available budget can satisfy, however many requests compete, provided   *)
(* objects are eventually destroyed: the retry loop starves nobody for ever*)
(* when each object is registered once.                                    *)
RequestGranted ==
  \A o \in Objects :
    (pc[o] = "dec" /\ size[o] <= Available0) ~> (pc[o] = "held")
=============================================================================
