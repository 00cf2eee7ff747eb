--------------------------- MODULE Heterogeneous ---------------------------
(***************************************************************************)
(* The dispatch of tasks under                                             *)
(* controller/src/Schedulers/HeterogeneousScheduler.cpp: a task runs only  *)
(* on some of the accelerators (arax_proc_can_run_at).  A worker peeks at  *)
(* the head of each of its virtual accelerators; it pops a task it can     *)
(* run, and gives up a virtual accelerator whose head it cannot run: the   *)
(* virtual accelerator becomes an orphan again, with its queue, and the    *)
(* balancer assigns it to an accelerator that can run its head.            *)
(***************************************************************************)
EXTENDS Dispatch

CONSTANT CanRun   \* CanRun[k]: the accelerators that have a functor for k

\* With no accelerator for a task, assignVac ends in abort().
ASSUME HeterogeneousAssumption == CanRun \in [Tasks -> SUBSET Accels \ {{}}]

\* checkForRunnableTask: NT (no task), RT (runnable) or T (a task).
checkForRunnableTask(a, v) ==
  IF queue[v] = <<>> THEN "NT" ELSE IF a \in CanRun[Head(queue[v])] THEN "RT" ELSE "T"

\* Mutant of selectTask: what was seen is not told apart, the worker pops.
MutSelectAny(a) ==
  /\ wpc[a] = "select"
  /\ idx[a] < Len(VACs[a])
  /\ IF checkForRunnableTask(a, Candidate(a)) = "NT"
       THEN idx' = [idx EXCEPT ![a] = @ + 1] /\ UNCHANGED wpc
       ELSE Goto(a, "pop") /\ UNCHANGED idx
  /\ UNCHANGED <<live, lists, tasks, phys, queue, issuers, done, VACs, rr, cur, term, balancer>>

\* One turn of the loops of selectTask: the switch on what is seen.
selectTask(a) ==
  /\ wpc[a] = "select"
  /\ idx[a] < Len(VACs[a])
  /\ LET seen == checkForRunnableTask(a, Candidate(a))
     IN  \/ seen = "NT" /\ idx' = [idx EXCEPT ![a] = @ + 1] /\ UNCHANGED wpc
         \/ seen = "RT" /\ Goto(a, "pop") /\ UNCHANGED idx
         \/ seen = "T" /\ Goto(a, "del") /\ UNCHANGED idx
  /\ UNCHANGED <<live, lists, tasks, phys, queue, issuers, done, VACs, rr, cur, term, balancer>>

\* case RT: the pop, which is asserted to return a task.
selectTaskPop(a) ==
  /\ wpc[a] = "pop"
  /\ queue[Candidate(a)] # <<>>
  /\ queue' = [queue EXCEPT ![Candidate(a)] = Tail(@)]
  /\ Found(a, Head(queue[Candidate(a)]))
  /\ UNCHANGED <<live, lists, tasks, phys, issuers, done, VACs, term, balancer>>

\* case T: arax_accel_del_vaccel.  Nobody waits for its notification: the only
\* thread that waits on accel->lock is this one.
selectTaskDel(a) ==
  /\ wpc[a] = "del"
  /\ phys[Candidate(a)] # None
  /\ UnlinkVaccel(phys[Candidate(a)], Candidate(a))
  /\ Goto(a, "orphan")
  /\ UNCHANGED <<live, orphans, queue, issuers, done, workers, term, balancer>>

\* and arax_pipe_add_orphan_vaccel; the loop goes on.
selectTaskOrphan(a) ==
  /\ wpc[a] = "orphan"
  /\ orphans' = <<Candidate(a)>> \o orphans
  /\ NotifyBalancer
  /\ idx' = [idx EXCEPT ![a] = @ + 1]
  /\ Goto(a, "select")
  /\ UNCHANGED <<live, assigned, tasks, phys, queue, issuers, done, VACs, rr, cur, term,
                 retry, bvac, bacc, migration, spurious>>

(* assignVac tries one accelerator after the other, from wherever its      *)
(* static iterator is: the first that can run the head of the queue, or the*)
(* first of all when there is no task.  As in RoundRobin, the step ends    *)
(* before arax_accel_add_vaccel takes the lock.                            *)
assignVac(a) ==
  /\ bpc = "assign"
  /\ checkForRunnableTask(a, bvac) # "T"
  /\ bacc' = a
  /\ RemoveOrphan(bvac)
  /\ bpc' = "link"
  /\ UNCHANGED <<live, assigned, tasks, phys, queue, issuers, done, wpc, workers, term,
                 retry, bvac, migration, spurious>>

assignVacLink ==
  /\ bpc = "link"
  /\ LinkVaccel(bacc, bvac)
  /\ bpc' = "get"
  /\ bvac' = None
  /\ bacc' = None
  /\ UNCHANGED <<live, orphans, queue, issuers, done, workers, term, retry, migration,
                 spurious>>

Worker(a) ==
  \/ WorkerLoop(a)
  \/ selectTask(a) \/ selectTaskPop(a) \/ selectTaskDel(a) \/ selectTaskOrphan(a)

Balancer ==
  GetOrphan \/ GetOrphanWoken \/ (\E a \in Accels : assignVac(a)) \/ assignVacLink

Next ==
  \/ Application
  \/ \E a \in Accels : Worker(a) \/ SpuriousWake(a)
  \/ Balancer
  \/ SpuriousWakeBalancer
  \/ Terminate
  \/ Stopped

Spec == Init /\ [][Next]_vars

\* The fairness of RoundRobin.
Fairness ==
  /\ \A k \in Tasks : WF_vars(AddTaskPush(k)) /\ WF_vars(AddTaskSignal(k))
  /\ \A a \in Accels : WF_vars(Worker(a)) /\ WF_vars(TerminateToken(a))
  /\ WF_vars(Balancer)

FairSpec == Spec /\ Fairness

-----------------------------------------------------------------------------
(* A virtual accelerator that a worker gives up is in one list at any time,*)
(* or in the hands of that worker or of the balancer; the assertions on    *)
(* phys in arax_accel_del_vaccel, arax_pipe_add_orphan_vaccel,             *)
(* arax_pipe_get_orphan_vaccel and arax_accel_add_vaccel follow.           *)
ListsConsistent ==
  OnePlace({bvac} \cup {Candidate(a) : a \in {w \in Accels : wpc[w] = "orphan"}})

(* What the worker saw when it peeked still holds when it acts on it:      *)
(* the pop returns a task (arax_assert(task) in selectTask) and it is one  *)
(* that the accelerator can run; a virtual accelerator that is given up is *)
(* still this accelerator's, and its head is one it cannot run.            *)
PeekStillHolds ==
  \A a \in Accels :
    LET v == Candidate(a)
    IN  /\ wpc[a] = "pop" => checkForRunnableTask(a, v) = "RT"
        /\ wpc[a] = "del" => checkForRunnableTask(a, v) = "T" /\ phys[v] = a

(* What the threads hold: as in RoundRobin, and each worker that gives up  *)
(* a virtual accelerator holds one of its own.                             *)
HandsInv ==
  /\ \A a \in Accels : wpc[a] = "run" => cur[a] \in Tasks
  /\ \A a \in Accels : wpc[a] \in {"pop", "del", "orphan"} => idx[a] < Len(VACs[a])
  /\ bpc \in {"get", "sleep", "woken", "null", "assign", "link"}
  /\ bvac = None <=> bpc \notin {"assign", "link"}
  /\ bpc = "link" => bacc \in Accels
  /\ \A a, b \in Accels :
       wpc[a] = "orphan" =>
         Candidate(a) # bvac /\ (wpc[b] = "orphan" /\ Candidate(a) = Candidate(b) => a = b)

(* A worker that searches still has the virtual accelerators it has yet to *)
(* try, although it may have given up some that it tried before.           *)
CopyInv ==
  \A a \in Accels :
    wpc[a] \in {"select", "pop", "del", "orphan"} =>
      /\ NoDuplicates(VACs[a])
      /\ \A j \in idx[a] .. Len(VACs[a]) - 1 :
           (wpc[a] = "orphan" => j # idx[a]) => phys[VACs[a][Turn(a, j) + 1]] = a

\* The inductive invariant.
IInv == TypeOK /\ HandsInv /\ ListsConsistent /\ OrderInv /\ CopyInv /\ PeekStillHolds

=============================================================================
