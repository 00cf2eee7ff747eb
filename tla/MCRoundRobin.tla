---------------------------- MODULE MCRoundRobin ----------------------------
(* Two tasks for one virtual accelerator and one for another, acquired by  *)
(* type (orphans) or, for the first, from a physical accelerator.          *)
EXTENDS RoundRobin, TLC

CONSTANTS a1, a2, f1, f2, v1, v2, k1, k2, k3

OneFree == a1 :> f1
TwoFree == (a1 :> f1) @@ (a2 :> f2)
MCVaq == (k1 :> v1) @@ (k2 :> v1) @@ (k3 :> v2)
Orphans == [v \in Vaccels |-> None]
FirstAcquired == [Orphans EXCEPT ![v1] = a1]

\* The accelerators are alike, each with its free_vaq; sound when no virtual
\* accelerator is acquired from one of them.
Swap == (a1 :> a2) @@ (a2 :> a1) @@ (f1 :> f2) @@ (f2 :> f1)
Symmetry == {Swap, [x \in DOMAIN Swap |-> x]}
=============================================================================
