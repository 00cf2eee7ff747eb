---------------------------- MODULE MCPlacement -----------------------------
(* The two schedulers that move virtual accelerators, each on its own:     *)
(* which one is chosen at the start.  Heterogeneous has tasks that only    *)
(* one of two accelerators can run, so that a virtual accelerator changes  *)
(* hands with tasks in its queue.  Elastic has three virtual accelerators, *)
(* one of them acquired, so that others come to an accelerator that has it.*)
EXTENDS Heterogeneous, TLC

CONSTANTS a1, a2, f1, f2, v1, v2, v3, k1, k2, k3

VARIABLE which

TwoFree == (a1 :> f1) @@ (a2 :> f2)
TwoVaqs == (k1 :> v1) @@ (k2 :> v1) @@ (k3 :> v2)
SecondAcquired == [v \in Vaccels |-> IF v = v2 THEN a1 ELSE None]

\* k1 runs on a2 only, k2 on a1 only, k3 anywhere.
MCCanRun == (k1 :> {a2}) @@ (k2 :> {a1}) @@ (k3 :> {a1, a2})

E == INSTANCE Elastic WITH
  Vaccels <- {f1, f2, v1, v2, v3}, Tasks <- {k1}, Vaq <- k1 :> v1,
  Acquired <- [v \in {f1, f2, v1, v2, v3} |-> IF v = v3 THEN a1 ELSE None]

MCInit ==
  \/ which = "heterogeneous" /\ Init
  \/ which = "elastic" /\ E!Init

MCNext ==
  \/ which = "heterogeneous" /\ Next /\ UNCHANGED which
  \/ which = "elastic" /\ E!ElasticNext /\ UNCHANGED which

MCSpec == MCInit /\ [][MCNext]_<<which, vars>>

(* Every virtual accelerator is in exactly one place, through all moves.   *)
AllListsConsistent ==
  /\ which = "heterogeneous" => ListsConsistent
  /\ which = "elastic" => E!MovedConsistent

(* Under Heterogeneous the tasks of a virtual accelerator run in order and *)
(* do not overlap, although it changes hands; what a worker peeked at its  *)
(* head still holds when it pops it or gives the virtual accelerator up.   *)
InOrder == which = "heterogeneous" => Sequential /\ PeekStillHolds
=============================================================================
