------------------------------ MODULE SyncApi ------------------------------
(***************************************************************************)
(* What src/async/async_api.h promises of one completion, one semaphore    *)
(* and one condition, whichever implementation the build has.  A condition *)
(* is a lock that its owner may give up to wait; a thread that waits may   *)
(* be woken at any time, and has the lock again when its call returns.     *)
(***************************************************************************)
EXTENDS Naturals

CONSTANTS Threads, NoThread

VARIABLES
  completed,   \* the completion
  awaited,     \* calls of async_completion_wait that returned
  value,       \* the semaphore
  holder,      \* who owns the lock of the condition
  waiting      \* who waits for the condition to be notified

vars == <<completed, awaited, value, holder, waiting>>

Init ==
  /\ completed = FALSE
  /\ awaited = 0
  /\ value = 0
  /\ holder = NoThread
  /\ waiting = {}

Complete ==
  /\ completed' = TRUE
  /\ UNCHANGED <<awaited, value, holder, waiting>>

\* A completion lets one waiter go.
Await ==
  /\ completed
  /\ completed' = FALSE
  /\ awaited' = awaited + 1
  /\ UNCHANGED <<value, holder, waiting>>

Inc == value' = value + 1 /\ UNCHANGED <<completed, awaited, holder, waiting>>

Dec ==
  /\ value > 0
  /\ value' = value - 1
  /\ UNCHANGED <<completed, awaited, holder, waiting>>

Lock(t) ==
  /\ holder = NoThread
  /\ t \notin waiting
  /\ holder' = t
  /\ UNCHANGED <<completed, awaited, value, waiting>>

Unlock ==
  /\ holder # NoThread
  /\ holder' = NoThread
  /\ UNCHANGED <<completed, awaited, value, waiting>>

Wait ==
  /\ holder # NoThread
  /\ holder' = NoThread
  /\ waiting' = waiting \cup {holder}
  /\ UNCHANGED <<completed, awaited, value>>

Wake ==
  /\ \E woken \in SUBSET waiting : waiting' = waiting \ woken
  /\ UNCHANGED <<completed, awaited, value, holder>>

Next == Complete \/ Await \/ Inc \/ Dec \/ (\E t \in Threads : Lock(t)) \/ Unlock \/ Wait \/ Wake

Spec == Init /\ [][Next]_vars
=============================================================================
