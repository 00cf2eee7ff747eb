----------------------------- MODULE RoundRobin -----------------------------
(***************************************************************************)
(* The dispatch of tasks under the default scheduler                       *)
(* (controller/src/Schedulers/RoundRobinScheduler.cpp): an orphan is given *)
(* to the next accelerator of its type and stays there; a worker takes the *)
(* next task of its own virtual accelerators in turn.                      *)
(***************************************************************************)
EXTENDS Dispatch

selectTask(a) == PopCandidate(a)

(* assignVac keeps its place in a static iterator over a vector that is    *)
(* destroyed at every return, so the accelerator it names is undefined: any*)
(* of them.  This step is the beginning of arax_accel_add_vaccel, up to    *)
(* the lock: the vaccel is taken out of the orphans, where it no longer is.*)
assignVac(a) ==
  /\ bpc = "assign"
  /\ bacc' = a
  /\ RemoveOrphan(bvac)
  /\ bpc' = "link"
  /\ UNCHANGED <<live, assigned, tasks, phys, queue, issuers, done, wpc, workers, term,
                 retry, bvac, migration, spurious>>

assignVacLink ==
  /\ bpc = "link"
  /\ LinkVaccel(bacc, bvac)
  /\ bpc' = "get"
  /\ bvac' = None
  /\ bacc' = None
  /\ UNCHANGED <<live, orphans, queue, issuers, done, workers, term, retry, migration,
                 spurious>>

Worker(a) == WorkerLoop(a) \/ selectTask(a)

Balancer ==
  GetOrphan \/ GetOrphanWoken \/ (\E a \in Accels : assignVac(a)) \/ assignVacLink

Next ==
  \/ Application
  \/ \E a \in Accels : Worker(a) \/ SpuriousWake(a)
  \/ Balancer
  \/ SpuriousWakeBalancer
  \/ Terminate
  \/ Stopped

Spec == Init /\ [][Next]_vars

(* A thread that can take its next step takes it in the end: the operating *)
(* system schedules it, a spinlock that stays free is acquired, the device *)
(* finishes what it runs.  Nothing says that an application acquires, or   *)
(* issues, or that the controller is ever told to stop.                    *)
Fairness ==
  /\ \A k \in Tasks : WF_vars(AddTaskPush(k)) /\ WF_vars(AddTaskSignal(k))
  /\ \A a \in Accels : WF_vars(Worker(a)) /\ WF_vars(TerminateToken(a))
  /\ WF_vars(Balancer)

FairSpec == Spec /\ Fairness

-----------------------------------------------------------------------------
(* The one list node of a virtual accelerator (arax_vaccel_s.vaccels) is   *)
(* in exactly one place: the orphans, the balancer's hands, or the list of *)
(* the accelerator that its phys names.  The assertions phys == 0 in       *)
(* arax_pipe_get_orphan_vaccel, arax_pipe_add_orphan_vaccel and            *)
(* arax_accel_add_vaccel follow, and no acquired accelerator is ever lost. *)
ListsConsistent == OnePlace({bvac})

(* What the threads hold: a worker that runs has a task, and the balancer  *)
(* has a virtual accelerator exactly while it assigns it.  The inductive   *)
(* invariant: the node that assignVac links was in no list.                *)
HandsInv ==
  /\ \A a \in Accels : wpc[a] = "run" => cur[a] \in Tasks
  /\ bpc \in {"get", "sleep", "woken", "null", "assign", "link"}
  /\ bvac = None <=> bpc \notin {"assign", "link"}
  /\ bpc = "link" => bacc \in Accels

BaseInv == TypeOK /\ HandsInv /\ ListsConsistent

(* A worker keeps the virtual accelerators it has copied, and while it     *)
(* searches on a token, one that it has not tried yet has a task.          *)
CopyInv ==
  \A a \in Accels : \A i \in DOMAIN VACs[a] : phys[VACs[a][i]] = a

SearchInv ==
  \A a \in Accels :
    wpc[a] = "select" =>
      /\ idx[a] <= Len(VACs[a])
      /\ term[a] # "stopped" =>
           \E j \in idx[a] .. Len(VACs[a]) - 1 :
             queue[VACs[a][Turn(a, j) + 1]] # <<>>

(* arax_accel_s.tasks is "Number of pending tasks" (arax_accel.h), exactly:*)
(* the count, plus the token the worker has consumed and not yet turned    *)
(* into a task, plus the tasks whose issuer has pushed and not yet         *)
(* signalled, is the number of tasks queued on the accelerator, whatever   *)
(* the interleaving of issuers, worker and balancer.                       *)
TokenAccounting ==
  \A a \in Accels :
    term[a] # "stopped" =>
      tasks[a] + Holding(a) + Cardinality(Unsignalled(a)) = Cardinality(Queued(a))

(* The balancer gives up waiting only after two wake-ups that no orphan    *)
(* explains: for an orphan that wakes it stays until it is popped.         *)
WakeInv ==
  /\ retry => spurious >= 1
  /\ bpc = "woken" /\ orphans = <<>> => spurious >= IF retry THEN 2 ELSE 1
  /\ bpc = "null" => spurious >= 2

(* The inductive invariant.  That tasks stay in order rests on OrderInv;   *)
(* the count rests on the search finding a task, and the search on the     *)
(* count.                                                                  *)
IInv == BaseInv /\ OrderInv /\ CopyInv /\ SearchInv /\ TokenAccounting /\ WakeInv

(* A worker that was let through arax_accel_wait_for_task finds a task in  *)
(* its copy of the list, although it takes the copy later and other threads*)
(* push, assign and signal meanwhile: selectTask returns 0 only on the fake*)
(* token of terminate().                                                   *)
TokenFindsTask ==
  \A a \in Accels :
    wpc[a] = "select" /\ idx[a] = Len(VACs[a]) => term[a] = "stopped"

(* "arax_assert(vac)", which VacBalancerThread.cpp:20 has as a comment:    *)
(* assignVac gets null only after two spurious wake-ups in a row, with no  *)
(* orphan between them.  A wake-up by an application that acquires, or one *)
(* spurious wake-up, always ends in an orphan or in another wait.          *)
AssignsVaccel == bpc = "null" => spurious >= 2

(* terminate() ends the worker whatever it is doing, so that joinThreads   *)
(* returns: the flag is set before the token that wakes it.                *)
WorkerStops == \A a \in Accels : term[a] # "serve" ~> wpc[a] = "exit"

=============================================================================
