------------------------------- MODULE MCSync -------------------------------
(* The throttle, and the primitives that it and everything else wait with: *)
(* those of the mutex and spin builds, and those of guests.  Which of the  *)
(* three runs is chosen at the start; the others stay as they are.         *)
EXTENDS Throttle, Async, Ivshmem, TLC

CONSTANTS t1, t2, t3

VARIABLES which

\* In the spin build nobody needs more than one notify brings.
MCNeed == [mutex |-> (t1 :> 1) @@ (t2 :> 1) @@ (t3 :> 2), spin |-> [t \in Threads |-> 1]]

MCInit == which \in {"throttle", "async", "ivshmem"} /\ Init /\ AsyncInit /\ IvInit

\* Threads of the last two may have made all their calls, or wait for a call nobody makes.
MCNext ==
  \/ which = "throttle" /\ Next /\ UNCHANGED <<which, avars, ivars>>
  \/ which = "async" /\ AsyncNext /\ UNCHANGED <<which, vars, ivars>>
  \/ which = "ivshmem" /\ IvNext /\ UNCHANGED <<which, vars, avars>>
  \/ which # "throttle" /\ UNCHANGED <<which, vars, avars, ivars>>

MCSpec ==
  /\ MCInit
  /\ [][MCNext]_<<which, vars, avars, ivars>>
  /\ Fairness /\ AsyncFairness /\ IvFairness

(* Nobody gets past a wait too early: the throttle hands out no more than  *)
(* it has and loses nothing, the lock of a condition has one owner and the *)
(* mutex of a completion one borrower, and a wait of a guest returns only  *)
(* after the completion.                                                   *)
NobodyEarly ==
  /\ TypeOK /\ BudgetConserved
  /\ AsyncInv
  /\ WaitAfterComplete
=============================================================================
