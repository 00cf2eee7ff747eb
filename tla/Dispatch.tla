------------------------------ MODULE Dispatch ------------------------------
(***************************************************************************)
(* How an issued task reaches a device: virtual accelerators with their    *)
(* task queues (src/core/arax_vaccel.c), physical accelerators with the    *)
(* list of virtual accelerators assigned to them and a count of pending    *)
(* tasks (src/core/arax_accel.c), the pipe's list of orphans               *)
(* (src/core/arax_pipe.c), the application threads that issue tasks, and   *)
(* the controller's threads: one worker per physical accelerator           *)
(* (accelThread.cpp), the balancer that assigns orphans                    *)
(* (VacBalancerThread.cpp) and the main thread that stops the workers.     *)
(* The scheduler modules extend this one with assignVac and selectTask.    *)
(*                                                                         *)
(* A critical section of a condition (accel->lock, pipe->orphan_cond) is   *)
(* one step: nothing blocks inside it but the wait on the condition.  The  *)
(* spinlock of a virtual accelerator is modelled, because                  *)
(* arax_vaccel_add_task spins on a full queue while it holds it.  Pushing  *)
(* to and popping from a queue is one step: module Queue shows that        *)
(* utils_queue_s is a bounded FIFO.  accel->revision is left out: only     *)
(* tests read it.                                                          *)
(***************************************************************************)
EXTENDS Integers, Sequences, FiniteSets

CONSTANTS
  Accels,       \* physical accelerators of one type, each with its worker
  Vaccels,      \* virtual accelerators of that type
  Tasks,        \* tasks, each issued by a thread of its own
  None,         \* the null pointer
  FreeVaq,      \* FreeVaq[a]: a's free_vaq
  Vaq,          \* Vaq[k]: the accel argument of k's arax_task_issue
  Acquired,     \* Acquired[v]: the accelerator of v's arax_accel_acquire_phys,
                \* None when v comes from arax_accel_acquire_type
  QueueCap,     \* UTILS_QUEUE_CAPACITY
  SizeMod,      \* SIZE_MAX + 1
  MayStop,      \* whether the controller may be told to stop (SIGINT)
  MaxSpurious   \* bound: spurious wake-ups of the balancer for one orphan

ASSUME DispatchAssumption ==
  /\ None \notin Accels \cup Vaccels \cup Tasks
  /\ Vaq \in [Tasks -> Vaccels]
  /\ FreeVaq \in [Accels -> Vaccels]
  /\ \A a, b \in Accels : FreeVaq[a] = FreeVaq[b] => a = b
  /\ Acquired \in [Vaccels -> Accels \cup {None}]
  /\ QueueCap \in Nat \ {0}
  /\ SizeMod \in Nat \ {0}
  /\ MayStop \in BOOLEAN
  /\ MaxSpurious \in Nat

\* A task is an object in memory: there are fewer than a size_t can count.
ASSUME TasksAssumption == IsFiniteSet(Tasks) /\ Cardinality(Tasks) < SizeMod

VARIABLES
  live,       \* virtual accelerators that were initialised
  orphans,    \* pipe->orphan_vacs, from its head
  assigned,   \* accel->vaccels, from its head
  tasks,      \* accel->tasks
  phys,       \* vaccel->phys
  queue,      \* vaccel->queue
  vlock,      \* vaccel->lock: the issuing task that holds it, or None
  tpc,        \* per task: where its issuer is in arax_vaccel_add_task
  done,       \* tasks marked done
  wpc,        \* per worker: where it is in the loop of workFunc
  VACs,       \* per worker: assignedVACs, its copy of accel->vaccels
  idx,        \* per worker: virtual accelerators selectTask has tried
  rr,         \* per worker: rr_counter
  cur,        \* per worker: runningTask, or None
  term,       \* per worker: how far terminate() is
  bpc,        \* where the balancer is
  retry,      \* the balancer is in its second arax_pipe_get_orphan_vaccel
  bvac,       \* vac of the balancer
  bacc,       \* the accelerator assignVac chose
  mig,        \* Elastic's assignVac: the virtual accelerator that it moves
  target,     \* Elastic's assignVac: the accelerator it moves it to
  spurious,   \* spurious wake-ups of the balancer since it popped an orphan
  log         \* history: tasks pushed to each virtual accelerator, in order

lists == <<orphans, assigned>>
issuers == <<vlock, tpc, log>>
workers == <<VACs, idx, rr, cur>>
migration == <<mig, target>>
balancer == <<bpc, retry, bvac, bacc, migration, spurious>>
vars == <<live, lists, tasks, phys, queue, issuers, done, wpc, workers, term, balancer>>

TaskPC == {"new", "push", "signal", "issued"}
WorkerPC == {"top", "wait", "sleep", "snapshot", "select", "pop", "del", "orphan", "run", "exit"}
BalancerPC == {"get", "sleep", "woken", "null", "assign", "link", "del", "move", "movelink", "abort"}
TermPC == {"serve", "flag", "stopped"}

TypeOK ==
  /\ live \subseteq Vaccels
  /\ orphans \in Seq(Vaccels)
  /\ assigned \in [Accels -> Seq(Vaccels)]
  /\ tasks \in [Accels -> 0 .. SizeMod - 1]
  /\ phys \in [Vaccels -> Accels \cup {None}]
  /\ queue \in [Vaccels -> Seq(Tasks)]
  /\ vlock \in [Vaccels -> Tasks \cup {None}]
  /\ tpc \in [Tasks -> TaskPC]
  /\ done \subseteq Tasks
  /\ wpc \in [Accels -> WorkerPC]
  /\ VACs \in [Accels -> Seq(Vaccels)]
  /\ idx \in [Accels -> Nat]
  /\ rr \in [Accels -> Nat]
  /\ cur \in [Accels -> Tasks \cup {None}]
  /\ term \in [Accels -> TermPC]
  /\ bpc \in BalancerPC
  /\ retry \in BOOLEAN
  /\ bvac \in Vaccels \cup {None}
  /\ bacc \in Accels \cup {None}
  /\ mig \in Vaccels \cup {None}
  /\ target \in Accels \cup {None}
  /\ spurious \in 0 .. MaxSpurious
  /\ log \in [Vaccels -> Seq(Tasks)]

\* arax_accel_init has made every accelerator, and its free_vaq with it, before
\* its worker enters the loop and before any application gets to run.
Init ==
  /\ live = {FreeVaq[a] : a \in Accels}
  /\ orphans = <<>>
  /\ assigned = [a \in Accels |-> <<FreeVaq[a]>>]
  /\ tasks = [a \in Accels |-> 0]
  /\ phys = [v \in Vaccels |->
               IF v \in live THEN CHOOSE a \in Accels : FreeVaq[a] = v ELSE None]
  /\ queue = [v \in Vaccels |-> <<>>]
  /\ vlock = [v \in Vaccels |-> None]
  /\ tpc = [k \in Tasks |-> "new"]
  /\ done = {}
  /\ wpc = [a \in Accels |-> "top"]
  /\ VACs = [a \in Accels |-> <<>>]
  /\ idx = [a \in Accels |-> 0]
  /\ rr = [a \in Accels |-> 0]
  /\ cur = [a \in Accels |-> None]
  /\ term = [a \in Accels |-> "serve"]
  /\ bpc = "get"
  /\ retry = FALSE
  /\ bvac = None
  /\ bacc = None
  /\ mig = None
  /\ target = None
  /\ spurious = 0
  /\ log = [v \in Vaccels |-> <<>>]

-----------------------------------------------------------------------------
(* arax_accel_s *)

Goto(a, label) == wpc' = [wpc EXCEPT ![a] = label]

\* n tokens more, modulo SIZE_MAX + 1, and the notification of the worker,
\* under accel->lock.
AddTokens(a, n) == [tasks EXCEPT ![a] = (@ + n) % SizeMod]
Notify(a) == [wpc EXCEPT ![a] = IF @ = "sleep" THEN "wait" ELSE @]

arax_accel_add_task(a) == tasks' = AddTokens(a, 1) /\ wpc' = Notify(a)

\* Mutant of LinkVaccel: tasks queued while v was an orphan are not counted.
MutLinkNoTokens(a, v) ==
  /\ vlock[v] = None
  /\ assigned' = [assigned EXCEPT ![a] = <<v>> \o @]
  /\ phys' = [phys EXCEPT ![v] = a]
  /\ UNCHANGED <<tasks, wpc>>

\* Mutant of LinkVaccel: they are counted, and the worker is not notified.
MutLinkNoNotify(a, v) ==
  /\ vlock[v] = None
  /\ assigned' = [assigned EXCEPT ![a] = <<v>> \o @]
  /\ phys' = [phys EXCEPT ![v] = a]
  /\ tasks' = AddTokens(a, Len(queue[v]))
  /\ UNCHANGED wpc

\* The part of arax_accel_add_vaccel under vaccel->lock: the tasks that were
\* queued while v was not assigned become tokens.
LinkVaccel(a, v) ==
  /\ vlock[v] = None
  /\ assigned' = [assigned EXCEPT ![a] = <<v>> \o @]
  /\ phys' = [phys EXCEPT ![v] = a]
  /\ tasks' = AddTokens(a, Len(queue[v]))
  /\ wpc' = IF queue[v] = <<>> THEN wpc ELSE Notify(a)

\* utils_list_del of the node of v, which is in the list.
Remove(v, list) ==
  LET at == CHOOSE i \in DOMAIN list : list[i] = v
  IN  [i \in 1 .. Len(list) - 1 |-> IF i < at THEN list[i] ELSE list[i + 1]]

\* arax_accel_del_vaccel under both locks: all but one of the tokens of the
\* tasks that leave with v are withdrawn.  The caller says who is notified.
UnlinkVaccel(a, v) ==
  /\ vlock[v] = None
  /\ assigned' = [assigned EXCEPT ![a] = Remove(v, @)]
  /\ phys' = [phys EXCEPT ![v] = None]
  /\ tasks' = IF queue[v] = <<>> THEN tasks ELSE AddTokens(a, 1 - Len(queue[v]))

In(v, list) == \E i \in DOMAIN list : list[i] = v

\* arax_pipe_remove_orphan_vaccel.  utils_list_node_linked only tells that the
\* node is in some list; its callers have found vaccel->phys = 0, so the list
\* is pipe->orphan_vacs (ListsConsistent).
RemoveOrphan(v) ==
  orphans' = IF In(v, orphans) THEN Remove(v, orphans) ELSE orphans

-----------------------------------------------------------------------------
(* Applications *)

\* async_condition_notify of orphan_cond.
NotifyBalancer == bpc' = IF bpc = "sleep" THEN "woken" ELSE bpc

\* arax_accel_acquire_type: a new virtual accelerator is an orphan.
AcquireType(v) ==
  /\ v \notin live
  /\ Acquired[v] = None
  /\ live' = live \cup {v}
  /\ orphans' = <<v>> \o orphans
  /\ NotifyBalancer
  /\ UNCHANGED <<assigned, tasks, phys, queue, issuers, done, wpc, workers, term,
                 retry, bvac, bacc, migration, spurious>>

\* arax_accel_acquire_phys: assigned before anybody else knows it.
AcquirePhys(v) ==
  /\ v \notin live
  /\ Acquired[v] # None
  /\ live' = live \cup {v}
  /\ LinkVaccel(Acquired[v], v)
  /\ UNCHANGED <<orphans, queue, issuers, done, workers, term, balancer>>

\* arax_task_issue reaches arax_vaccel_add_task, which takes vaccel->lock.
AddTaskLock(k) ==
  /\ tpc[k] = "new"
  /\ Vaq[k] \in live
  /\ vlock[Vaq[k]] = None
  /\ vlock' = [vlock EXCEPT ![Vaq[k]] = k]
  /\ tpc' = [tpc EXCEPT ![k] = "push"]
  /\ UNCHANGED <<live, lists, tasks, phys, queue, done, wpc, workers, term, balancer, log>>

\* while (!utils_queue_push(...)): a full queue is tried again, lock held.
AddTaskPush(k) ==
  /\ tpc[k] = "push"
  /\ Len(queue[Vaq[k]]) < QueueCap
  /\ queue' = [queue EXCEPT ![Vaq[k]] = Append(@, k)]
  /\ log' = [log EXCEPT ![Vaq[k]] = Append(@, k)]
  /\ tpc' = [tpc EXCEPT ![k] = "signal"]
  /\ UNCHANGED <<live, lists, tasks, phys, vlock, done, wpc, workers, term, balancer>>

\* A token for the accelerator, if there is one, and vaccel->lock is released.
AddTaskSignal(k) ==
  /\ tpc[k] = "signal"
  /\ IF phys[Vaq[k]] = None
       THEN UNCHANGED <<tasks, wpc>>
       ELSE arax_accel_add_task(phys[Vaq[k]])
  /\ vlock' = [vlock EXCEPT ![Vaq[k]] = None]
  /\ tpc' = [tpc EXCEPT ![k] = "issued"]
  /\ UNCHANGED <<live, lists, phys, queue, done, workers, term, balancer, log>>

-----------------------------------------------------------------------------
(* The worker of a: the loop of workFunc *)

\* while (!th->stopExec)
CheckStop(a) ==
  /\ wpc[a] = "top"
  /\ Goto(a, IF term[a] = "serve" THEN "wait" ELSE "exit")
  /\ UNCHANGED <<live, lists, tasks, phys, queue, issuers, done, workers, term, balancer>>

\* Mutant of arax_accel_wait_for_task: a worker that was woken does not look
\* at the count again.
MutWaitOnce(a) ==
  /\ wpc[a] = "wait"
  /\ Goto(a, "snapshot")
  /\ tasks' = [tasks EXCEPT ![a] = @ - 1]
  /\ UNCHANGED <<live, lists, phys, queue, issuers, done, workers, term, balancer>>

\* arax_accel_wait_for_task: consume a token, or wait for the condition.
arax_accel_wait_for_task(a) ==
  /\ wpc[a] = "wait"
  /\ IF tasks[a] = 0
       THEN Goto(a, "sleep") /\ UNCHANGED tasks
       ELSE Goto(a, "snapshot") /\ tasks' = [tasks EXCEPT ![a] = @ - 1]
  /\ UNCHANGED <<live, lists, phys, queue, issuers, done, workers, term, balancer>>

\* pthread_cond_wait may return without a notification.
SpuriousWake(a) ==
  /\ wpc[a] = "sleep"
  /\ Goto(a, "wait")
  /\ UNCHANGED <<live, lists, tasks, phys, queue, issuers, done, workers, term, balancer>>

\* Mutant of updateVirtAccels: the copy of the list is taken once and kept.
MutUpdateOnce(a) ==
  /\ wpc[a] = "snapshot"
  /\ VACs' = [VACs EXCEPT ![a] = IF @ = <<>> THEN assigned[a] ELSE @]
  /\ idx' = [idx EXCEPT ![a] = 0]
  /\ Goto(a, "select")
  /\ UNCHANGED <<live, lists, tasks, phys, queue, issuers, done, rr, cur, term, balancer>>

\* arax_accel_get_assigned_vaccels, the second half of updateVirtAccels.
updateVirtAccels(a) ==
  /\ wpc[a] = "snapshot"
  /\ VACs' = [VACs EXCEPT ![a] = assigned[a]]
  /\ idx' = [idx EXCEPT ![a] = 0]
  /\ Goto(a, "select")
  /\ UNCHANGED <<live, lists, tasks, phys, queue, issuers, done, rr, cur, term, balancer>>

\* The position of the virtual accelerator that selectTask tries after j others:
\* from rr_offset to the end, then from the beginning to rr_offset.
Turn(a, j) == (((rr[a] + 1) % Len(VACs[a])) + j) % Len(VACs[a])
Position(a) == Turn(a, idx[a])
Candidate(a) == VACs[a][Position(a) + 1]

\* selectTask found k on its candidate: rr_counter is its position, k runs.
Found(a, k) ==
  /\ rr' = [rr EXCEPT ![a] = Position(a)]
  /\ cur' = [cur EXCEPT ![a] = k]
  /\ idx' = [idx EXCEPT ![a] = 0]
  /\ Goto(a, "run")

\* Mutant of PopCandidate: the newest task is taken.
MutPopNewest(a) ==
  /\ wpc[a] = "select"
  /\ idx[a] < Len(VACs[a])
  /\ LET v == Candidate(a)
         n == Len(queue[v])
     IN  IF n = 0
           THEN /\ idx' = [idx EXCEPT ![a] = @ + 1]
                /\ UNCHANGED <<queue, rr, cur, wpc>>
           ELSE /\ queue' = [queue EXCEPT ![v] = SubSeq(@, 1, n - 1)]
                /\ Found(a, queue[v][n])
  /\ UNCHANGED <<live, lists, tasks, phys, issuers, done, VACs, term, balancer>>

\* One turn of selectTask: the head of the candidate's queue is popped, or the
\* next candidate is tried.
PopCandidate(a) ==
  /\ wpc[a] = "select"
  /\ idx[a] < Len(VACs[a])
  /\ LET v == Candidate(a)
     IN  IF queue[v] = <<>>
           THEN /\ idx' = [idx EXCEPT ![a] = @ + 1]
                /\ UNCHANGED <<queue, rr, cur, wpc>>
           ELSE /\ queue' = [queue EXCEPT ![v] = Tail(@)]
                /\ Found(a, Head(queue[v]))
  /\ UNCHANGED <<live, lists, tasks, phys, issuers, done, VACs, term, balancer>>

\* selectTask returns 0: back to the loop condition.
NotFound(a) ==
  /\ wpc[a] = "select"
  /\ idx[a] = Len(VACs[a])
  /\ idx' = [idx EXCEPT ![a] = 0]
  /\ Goto(a, "top")
  /\ UNCHANGED <<live, lists, tasks, phys, queue, issuers, done, VACs, rr, cur, term, balancer>>

\* The device has run the task: arax_task_mark_done, and the loop goes on.
Complete(a) ==
  /\ wpc[a] = "run"
  /\ done' = done \cup {cur[a]}
  /\ cur' = [cur EXCEPT ![a] = None]
  /\ Goto(a, "top")
  /\ UNCHANGED <<live, lists, tasks, phys, queue, issuers, VACs, idx, rr, term, balancer>>

-----------------------------------------------------------------------------
(* The main thread: deleteThreads terminates the workers one after another *)

TerminateFlag(a) ==
  /\ MayStop
  /\ term[a] = "serve"
  /\ \A b \in Accels : term[b] # "flag"
  /\ term' = [term EXCEPT ![a] = "flag"]
  /\ UNCHANGED <<live, lists, tasks, phys, queue, issuers, done, wpc, workers, balancer>>

\* Mutant of TerminateToken: no fake task.
MutTerminateNoToken(a) ==
  /\ term[a] = "flag"
  /\ term' = [term EXCEPT ![a] = "stopped"]
  /\ UNCHANGED <<live, lists, tasks, phys, queue, issuers, done, wpc, workers, balancer>>

\* "Add a fake task": a token without a task.
TerminateToken(a) ==
  /\ term[a] = "flag"
  /\ term' = [term EXCEPT ![a] = "stopped"]
  /\ arax_accel_add_task(a)
  /\ UNCHANGED <<live, lists, phys, queue, issuers, done, workers, balancer>>

-----------------------------------------------------------------------------
(* The balancer: arax_pipe_get_orphan_vaccel in VacBalancerThread::thread *)

PopOrphan ==
  /\ bvac' = Head(orphans)
  /\ orphans' = Tail(orphans)
  /\ retry' = FALSE
  /\ spurious' = 0
  /\ bpc' = "assign"

\* With orphans the head is popped at once, without any the balancer waits.
GetOrphan ==
  /\ bpc = "get"
  /\ IF orphans = <<>>
       THEN bpc' = "sleep" /\ UNCHANGED <<orphans, retry, spurious, bvac>>
       ELSE PopOrphan
  /\ UNCHANGED <<live, assigned, tasks, phys, queue, issuers, done, wpc, workers, term,
                 bacc, migration>>

\* Mutant of GetOrphanWoken: without the second try.
MutGetOrphanOnce ==
  /\ bpc = "woken"
  /\ IF orphans # <<>>
       THEN PopOrphan
       ELSE bpc' = "null" /\ UNCHANGED <<orphans, retry, spurious, bvac>>
  /\ UNCHANGED <<live, assigned, tasks, phys, queue, issuers, done, wpc, workers, term,
                 bacc, migration>>

\* After the wait the list is not looked at again: utils_list_pop_head may
\* return null.  The balancer tries twice; the second null goes to assignVac.
GetOrphanWoken ==
  /\ bpc = "woken"
  /\ IF orphans # <<>>
       THEN PopOrphan
       ELSE /\ bpc' = IF retry THEN "null" ELSE "get"
            /\ retry' = ~retry
            /\ UNCHANGED <<orphans, spurious, bvac>>
  /\ UNCHANGED <<live, assigned, tasks, phys, queue, issuers, done, wpc, workers, term,
                 bacc, migration>>

SpuriousWakeBalancer ==
  /\ bpc = "sleep"
  /\ spurious < MaxSpurious
  /\ spurious' = spurious + 1
  /\ bpc' = "woken"
  /\ UNCHANGED <<live, lists, tasks, phys, queue, issuers, done, wpc, workers, term,
                 retry, bvac, bacc, migration>>

-----------------------------------------------------------------------------
(* The parts of the next-state relation that do not depend on the scheduler*)

Application ==
  \/ \E v \in Vaccels : AcquireType(v) \/ AcquirePhys(v)
  \/ \E k \in Tasks : AddTaskLock(k) \/ AddTaskPush(k) \/ AddTaskSignal(k)

WorkerLoop(a) ==
  \/ CheckStop(a) \/ arax_accel_wait_for_task(a) \/ updateVirtAccels(a)
  \/ NotFound(a) \/ Complete(a)

Terminate == \E a \in Accels : TerminateFlag(a) \/ TerminateToken(a)

\* Every worker has left its loop; the controller is about to exit.
Stopped == (\A a \in Accels : wpc[a] = "exit") /\ UNCHANGED vars

-----------------------------------------------------------------------------
(* What the properties of the schedulers are stated with *)

NoDuplicates(list) == \A i, j \in DOMAIN list : list[i] = list[j] => i = j

\* The one list node of a virtual accelerator is in exactly one place: the
\* orphans, some thread's hands, or the list of the accelerator phys names.
OnePlace(hands) ==
  /\ NoDuplicates(orphans)
  /\ \A a \in Accels : NoDuplicates(assigned[a])
  /\ \A v \in Vaccels :
       /\ \A a \in Accels : In(v, assigned[a]) <=> phys[v] = a
       /\ phys[v] # None => v \in live
       /\ (v \in live /\ phys[v] = None) <=> (In(v, orphans) \/ v \in hands)
       /\ ~(In(v, orphans) /\ v \in hands)

Queued(a) == {k \in Tasks : phys[Vaq[k]] = a /\ In(k, queue[Vaq[k]])}
Unsignalled(a) == {k \in Tasks : phys[Vaq[k]] = a /\ tpc[k] = "signal"}

\* A token that the worker has consumed and not yet turned into a task.
Holding(a) == IF wpc[a] \in {"snapshot", "select", "pop", "del", "orphan"} THEN 1 ELSE 0

Running(k) == \E a \in Accels : cur[a] = k

(* arax_vaccel.h: SEQUENTIAL, the ordering arax_vaccel_init sets: "Tasks in*)
(* VAQ will run one after the other(no overlap)".  A task of a virtual     *)
(* accelerator starts only when all issued to it before are done.          *)
Sequential ==
  \A v \in Vaccels : \A i, j \in DOMAIN log[v] :
    i < j /\ (Running(log[v][j]) \/ log[v][j] \in done) => log[v][i] \in done

(* Why Sequential holds: the inductive parts, which say where a task is.   *)

\* Tasks that were popped from v, the oldest ones of its log.
Popped(v) == Len(log[v]) - Len(queue[v])

\* An issuer that has pushed or is about to holds the lock of its virtual accelerator.
IssueInv ==
  \A k \in Tasks :
    /\ tpc[k] # "new" => Vaq[k] \in live
    /\ tpc[k] \in {"push", "signal"} => vlock[Vaq[k]] = k

\* A task is pushed once, to the virtual accelerator it was issued to.
LogInv ==
  \A v \in Vaccels :
    /\ NoDuplicates(log[v])
    /\ \A i \in DOMAIN log[v] : Vaq[log[v][i]] = v /\ tpc[log[v][i]] \in {"signal", "issued"}

\* A queue holds what was pushed last, in the order it was pushed.
IsRest(q, l) ==
  Len(q) <= Len(l) /\ \A i \in DOMAIN q : q[i] = l[Len(l) - Len(q) + i]

QueueInv == \A v \in Vaccels : IsRest(queue[v], log[v])

\* What was popped is done, but for the last one, which the owner of v may be running.
PoppedInv ==
  \A v \in Vaccels : \A i \in 1 .. Popped(v) :
    \/ log[v][i] \in done
    \/ i = Popped(v) /\ phys[v] # None /\ cur[phys[v]] = log[v][i]

\* What runs or is done was popped; only a worker that runs has a task.
TakenInv ==
  /\ \A k \in Tasks :
       Running(k) \/ k \in done => \E i \in 1 .. Popped(Vaq[k]) : log[Vaq[k]][i] = k
  /\ \A a \in Accels : cur[a] # None => wpc[a] = "run"

OrderInv == IssueInv /\ LogInv /\ QueueInv /\ PoppedInv /\ TakenInv

Stopping == \E a \in Accels : term[a] # "serve"

(* "Wait for an issued task to complete or fail" (arax.h): once            *)
(* arax_vaccel_add_task is under way, arax_task_wait returns in the end,   *)
(* unless the controller is told to stop, has aborted, or has given        *)
(* assignVac a null pointer (AssignsVaccel): no wake-up is lost between    *)
(* issuers, balancer and workers, and nobody waits for ever.               *)
EveryTaskServed ==
  \A k \in Tasks : tpc[k] # "new" ~> (k \in done \/ Stopping \/ bpc \in {"abort", "null"})

=============================================================================
