----------------------------- MODULE MCLifetime -----------------------------
(* The lives of objects, and the repository that they are found in, each on *)
(* its own: which of the two runs is chosen at the start.                   *)
EXTENDS Lifetime, Registry

CONSTANTS a1, f1

VARIABLE which

TheFreeVaq == [a \in Accels |-> f1]

\* What the proofs assume of the constants.
ASSUME RegAssumption

MCInit ==
  /\ Init
  /\ RegInit
  /\ which \in IF kind = "CPU" THEN {"lives", "repository"} ELSE {"lives"}

MCNext ==
  \/ which = "lives" /\ Next /\ UNCHANGED <<which, rvars>>
  \/ which = "repository" /\ RegNext /\ UNCHANGED <<which, vars>>

MCSpec == MCInit /\ [][MCNext]_<<which, vars, rvars>> /\ Fairness

(* Reference counts are exact: those of the objects that are issued and     *)
(* dropped between calls, those of the repository at any time.              *)
CountsExact ==
  /\ TypeOK /\ RefsExact
  /\ which = "repository" => RepositoryExact

(* Nothing freed is in use or found, and a procedure that is found by its   *)
(* name has the functors that were set for it.                              *)
NothingDangling ==
  /\ NoDangling
  /\ which = "repository" => FoundAlive /\ FunctorsFound
=============================================================================
