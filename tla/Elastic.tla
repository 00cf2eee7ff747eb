------------------------------ MODULE Elastic ------------------------------
(***************************************************************************)
(* The dispatch of tasks under                                             *)
(* controller/src/Schedulers/ElasticScheduler.cpp: when an orphan goes to  *)
(* an accelerator whose worker has virtual accelerators already, one of    *)
(* them is moved to another accelerator first.  Which ones the worker has  *)
(* is read from the worker's own copy of the list (th->getAssignedVACs()), *)
(* as it was when the worker last consumed a token.                        *)
(***************************************************************************)
EXTENDS Dispatch

\* The loop is RoundRobin's; what it adds is the migration of the task's data.
elasticSelectTask(a) == PopCandidate(a)

\* A free_vaq, of this accelerator or of the one to move to, stays.
Movable(a, b) == {i \in DOMAIN VACs[a] : VACs[a][i] \notin {FreeVaq[a], FreeVaq[b]}}

\* As in RoundRobin the accelerator is any one; b is the next after it.
elasticAssignVac(a, b) ==
  /\ bpc = "assign"
  /\ b = a => Accels = {a}
  /\ bacc' = a
  /\ IF Movable(a, b) = {}
       THEN bpc' = "link" /\ RemoveOrphan(bvac) /\ UNCHANGED migration
       ELSE /\ bpc' = "del"
            /\ \E i \in Movable(a, b) :
                 (\A j \in Movable(a, b) : i <= j) /\ mig' = VACs[a][i]
            /\ target' = b
            /\ UNCHANGED orphans
  /\ UNCHANGED <<live, assigned, tasks, phys, queue, issuers, done, wpc, workers, term,
                 retry, bvac, spurious>>

\* Mutant of assignVacDel: phys is not cleared.
MutDelKeepsPhys ==
  /\ bpc = "del"
  /\ phys[mig] = bacc
  /\ vlock[mig] = None
  /\ bpc' = "move"
  /\ assigned' = [assigned EXCEPT ![bacc] = Remove(mig, @)]
  /\ UNCHANGED <<live, orphans, tasks, wpc, phys, queue, issuers, done, workers, term,
                 retry, bvac, bacc, migration, spurious>>

\* arax_accel_del_vaccel asserts that mig is assigned to this accelerator.
assignVacDel ==
  /\ bpc = "del"
  /\ IF phys[mig] # bacc
       THEN bpc' = "abort" /\ UNCHANGED <<assigned, tasks, wpc, phys>>
       ELSE /\ bpc' = "move"
            /\ UnlinkVaccel(bacc, mig)
            /\ wpc' = IF queue[mig] = <<>> THEN wpc ELSE Notify(bacc)
  /\ UNCHANGED <<live, orphans, queue, issuers, done, workers, term,
                 retry, bvac, bacc, migration, spurious>>

\* arax_accel_add_vaccel of mig up to the lock; its assertion phys == 0 holds.
assignVacMove ==
  /\ bpc = "move"
  /\ RemoveOrphan(mig)
  /\ bpc' = "movelink"
  /\ UNCHANGED <<live, assigned, tasks, phys, queue, issuers, done, wpc, workers, term,
                 retry, bvac, bacc, migration, spurious>>

\* The rest of it, and the beginning of arax_accel_add_vaccel of vac.
assignVacMoveLink ==
  /\ bpc = "movelink"
  /\ LinkVaccel(target, mig)
  /\ RemoveOrphan(bvac)
  /\ bpc' = "link"
  /\ mig' = None
  /\ target' = None
  /\ UNCHANGED <<live, queue, issuers, done, workers, term, retry, bvac, bacc, spurious>>

elasticAssignVacLink ==
  /\ bpc = "link"
  /\ LinkVaccel(bacc, bvac)
  /\ bpc' = "get"
  /\ bvac' = None
  /\ bacc' = None
  /\ UNCHANGED <<live, orphans, queue, issuers, done, workers, term, retry, migration, spurious>>

ElasticWorker(a) == WorkerLoop(a) \/ elasticSelectTask(a)

\* A failed assertion leaves the balancer in "abort" for ever.
ElasticBalancer ==
  \/ GetOrphan \/ GetOrphanWoken
  \/ \E a, b \in Accels : elasticAssignVac(a, b)
  \/ assignVacDel \/ assignVacMove \/ assignVacMoveLink \/ elasticAssignVacLink

ElasticNext ==
  \/ Application
  \/ \E a \in Accels : ElasticWorker(a) \/ SpuriousWake(a)
  \/ ElasticBalancer
  \/ SpuriousWakeBalancer
  \/ Terminate
  \/ Stopped

ElasticSpec == Init /\ [][ElasticNext]_vars

-----------------------------------------------------------------------------
(* A virtual accelerator that is moved is in one list at any time, or in   *)
(* the balancer's hands between arax_accel_del_vaccel and                  *)
(* arax_accel_add_vaccel: a move neither loses it nor links it twice.      *)
MovedConsistent ==
  OnePlace({bvac} \cup IF bpc \in {"move", "movelink"} THEN {mig} ELSE {})

(* What the balancer holds: a virtual accelerator while it assigns it, and *)
(* another one, the two accelerators known, while it moves that.           *)
ElasticHands ==
  /\ \A a \in Accels : wpc[a] = "run" => cur[a] \in Tasks
  /\ bvac # None <=> bpc \in {"assign", "link", "del", "move", "movelink", "abort"}
  /\ bpc \in {"link", "del", "move", "movelink"} => bacc \in Accels
  /\ bpc \in {"del", "move", "movelink"} => mig \in Vaccels /\ target \in Accels
  /\ bpc \in {"move", "movelink"} => mig # bvac

\* The inductive invariant.
ElasticInv == TypeOK /\ ElasticHands /\ MovedConsistent

(* arax_accel_del_vaccel asserts vaccel->phys == accel: what assignVac     *)
(* reads in the worker's copy of the list is still assigned there, as long *)
(* as the controller serves.  It may have been moved on meanwhile: this    *)
(* does not hold.                                                          *)
MovesAssigned == bpc = "abort" => Stopping

=============================================================================
