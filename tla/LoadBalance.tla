----------------------------- MODULE LoadBalance -----------------------------
(***************************************************************************)
(* The load balancing scheduler                                            *)
(* (controller/src/Schedulers/LoadBalanceScheduler.cpp): every worker that *)
(* looks for a task first gives the VAQs that have no worker to the one    *)
(* with the fewest, and then serves its own in the order of the array.     *)
(*                                                                         *)
(* The file is not in the build at this commit; see module FlexyRR for the *)
(* functions it uses that are gone.  Workers register while the            *)
(* applications still wait for the controller (module Controller).         *)
(*                                                                         *)
(* VAQs come and go; a VAQ that is gone keeps, in the model, the worker it *)
(* had.  The array of all VAQs is what is there when an element is read: a *)
(* worker with a VAQ in its array that is freed meanwhile is left out.     *)
(***************************************************************************)
EXTENDS Integers, Sequences, FiniteSets

CONSTANTS
  Accels, AllVaqs,  \* the workers; the VAQs, a sequence
  MaxTasks,         \* bound: tasks that are issued
  NULL

VARIABLES
  life,             \* of each VAQ: "none" yet, "there" or "gone"
  assignee, phys,   \* of each VAQ
  counter,          \* physAccelJobCounter: VAQs given to a worker, never decreased
  queue, sem, owed, issued,
  wpc, pos, task

lbvars == <<life, assignee, phys, counter, queue, sem, owed, issued, wpc, pos, task>>

Workers == {Accels[i] : i \in DOMAIN Accels}
Vaqs == {AllVaqs[i] : i \in DOMAIN AllVaqs}

BalInit ==
  /\ life = [v \in Vaqs |-> "none"]
  /\ assignee = [v \in Vaqs |-> NULL]
  /\ phys = [v \in Vaqs |-> NULL]
  /\ counter = [w \in {} |-> 0]
  /\ queue = [v \in Vaqs |-> <<>>]
  /\ sem = 0 /\ owed = 0 /\ issued = 0
  /\ wpc = [w \in Workers |-> "setup"]
  /\ pos = [w \in Workers |-> 0]
  /\ task = [w \in Workers |-> NULL]

Goto(w, label) == wpc' = [wpc EXCEPT ![w] = label]

\* One worker at a time: threadTask holds a lock around it.
accelThreadSetup(w) ==
  /\ wpc[w] = "setup"
  /\ counter' = [x \in DOMAIN counter \cup {w} |-> IF x = w THEN 0 ELSE counter[x]]
  /\ Goto(w, "wait")
  /\ UNCHANGED <<life, assignee, phys, queue, sem, owed, issued, pos, task>>

Wait(w) ==
  /\ wpc[w] = "wait"
  /\ sem > 0
  /\ sem' = sem - 1
  /\ pos' = [pos EXCEPT ![w] = 1]
  /\ Goto(w, "assign")
  /\ UNCHANGED <<life, assignee, phys, counter, queue, owed, issued, task>>

\* Mutant of getMin: the first worker, whatever it has.
MutGetFirst == {Accels[1]}

\* min_element of an unordered map: any worker with the fewest.
getMin == {w \in DOMAIN counter : \A x \in DOMAIN counter : counter[w] <= counter[x]}

\* What a round of assignVaqToTh does with mutexForThAndJobs held.
AssignVaq(w, v) ==
  IF assignee[v] # NULL
    THEN phys' = [phys EXCEPT ![v] = assignee[v]] /\ UNCHANGED <<assignee, counter>>
    ELSE \E th \in getMin :
           /\ assignee' = [assignee EXCEPT ![v] = th]
           /\ phys' = [phys EXCEPT ![v] = th]
           /\ counter' = [counter EXCEPT ![th] = @ + 1]

assignVaqToTh(w) ==
  /\ wpc[w] = "assign"
  /\ IF pos[w] <= Len(AllVaqs)
       THEN /\ IF life[AllVaqs[pos[w]]] = "there"
                 THEN AssignVaq(w, AllVaqs[pos[w]])
                 ELSE UNCHANGED <<assignee, phys, counter>>
            /\ pos' = [pos EXCEPT ![w] = @ + 1]
            /\ UNCHANGED wpc
       ELSE /\ pos' = [pos EXCEPT ![w] = 1]
            /\ Goto(w, "select")
            /\ UNCHANGED <<assignee, phys, counter>>
  /\ UNCHANGED <<life, queue, sem, owed, issued, task>>

selectTask(w) ==
  /\ wpc[w] = "select"
  /\ IF pos[w] > Len(AllVaqs)
       THEN pos' = [pos EXCEPT ![w] = 0] /\ Goto(w, "wait") /\ UNCHANGED <<queue, task>>
       ELSE LET v == AllVaqs[pos[w]]
            IN  IF life[v] = "there" /\ assignee[v] = w /\ queue[v] # <<>>
                  THEN /\ task' = [task EXCEPT ![w] = v]
                       /\ queue' = [queue EXCEPT ![v] = Tail(@)]
                       /\ pos' = [pos EXCEPT ![w] = 0]
                       /\ Goto(w, "run")
                  ELSE pos' = [pos EXCEPT ![w] = @ + 1] /\ UNCHANGED <<queue, task, wpc>>
  /\ UNCHANGED <<life, assignee, phys, counter, sem, owed, issued>>

Run(w) ==
  /\ wpc[w] = "run"
  /\ task' = [task EXCEPT ![w] = NULL]
  /\ Goto(w, "wait")
  /\ UNCHANGED <<life, assignee, phys, counter, queue, sem, owed, issued, pos>>

\* arax_accel_acquire_type
Acquire(v) ==
  /\ DOMAIN counter = Workers
  /\ life[v] = "none"
  /\ life' = [life EXCEPT ![v] = "there"]
  /\ UNCHANGED <<assignee, phys, counter, queue, sem, owed, issued, wpc, pos, task>>

\* arax_accel_release, of a VAQ whose tasks are done: they held references.
\* Nobody tells the scheduler.
Release(v) ==
  /\ life[v] = "there" /\ queue[v] = <<>> /\ \A w \in Workers : task[w] # v
  /\ life' = [life EXCEPT ![v] = "gone"]
  /\ UNCHANGED <<assignee, phys, counter, queue, sem, owed, issued, wpc, pos, task>>

IssuePush(v) ==
  /\ life[v] = "there"
  /\ issued < MaxTasks
  /\ queue' = [queue EXCEPT ![v] = Append(@, issued)]
  /\ issued' = issued + 1
  /\ owed' = owed + 1
  /\ UNCHANGED <<life, assignee, phys, counter, sem, wpc, pos, task>>

IssueSignal ==
  /\ owed > 0
  /\ owed' = owed - 1
  /\ sem' = sem + 1
  /\ UNCHANGED <<life, assignee, phys, counter, queue, issued, wpc, pos, task>>

BalNext ==
  \/ \E w \in Workers : accelThreadSetup(w) \/ Wait(w) \/ assignVaqToTh(w) \/ selectTask(w) \/ Run(w)
  \/ \E v \in Vaqs : Acquire(v) \/ Release(v) \/ IssuePush(v)
  \/ IssueSignal
  \/ UNCHANGED lbvars

BalSpec == BalInit /\ [][BalNext]_lbvars

-----------------------------------------------------------------------------
Given(w) == Cardinality({v \in Vaqs : assignee[v] = w})
Load(w) == Cardinality({v \in Vaqs : assignee[v] = w /\ life[v] = "there"})
Released(w) == Cardinality({v \in Vaqs : assignee[v] = w /\ life[v] # "there"})

(* The counts are those of the VAQs each worker was ever given, every VAQ   *)
(* counted once, and the physical accelerator of a VAQ is its worker's,     *)
(* although every worker assigns for all and some find assigned what they   *)
(* were about to assign.                                                    *)
LoadCounted ==
  /\ \A w \in DOMAIN counter : counter[w] = Given(w)
  /\ \A v \in Vaqs : phys[v] = assignee[v]

(* "assign them to the th with the min jobs" (LoadBalanceScheduler.cpp:35)  *)
(* holds of what was ever given, not of what a worker has: its load exceeds *)
(* another's by at most one more than the VAQs of the other that were       *)
(* released, and by that much it may.                                       *)
Balanced == \A w, x \in Workers : Load(w) <= Load(x) + Released(x) + 1

-----------------------------------------------------------------------------
(* For the proofs: what the code takes for granted, and an invariant that is *)
(* inductive.                                                                *)
BalAssumption == NULL \notin Workers /\ AllVaqs \in Seq(Vaqs)

BalTypeOK ==
  /\ life \in [Vaqs -> {"none", "there", "gone"}]
  /\ assignee \in [Vaqs -> DOMAIN counter \cup {NULL}]
  /\ phys \in [Vaqs -> DOMAIN counter \cup {NULL}]
  /\ DOMAIN counter \subseteq Workers
  /\ counter \in [DOMAIN counter -> Nat]
  /\ wpc \in [Workers -> {"setup", "wait", "assign", "select", "run"}]
  /\ pos \in [Workers -> Nat]
  /\ \A w \in Workers : wpc[w] \in {"assign", "select"} => pos[w] > 0
  /\ sem \in Nat /\ owed \in Nat

\* Nobody is given a VAQ before all workers have registered.
RegisteredFirst ==
  /\ \A w \in Workers : wpc[w] = "setup" <=> w \notin DOMAIN counter
  /\ DOMAIN counter # Workers =>
       /\ \A v \in Vaqs : life[v] = "none"
       /\ sem = 0 /\ owed = 0
       /\ \A w \in Workers : wpc[w] \in {"setup", "wait"}
       /\ \A w \in DOMAIN counter : counter[w] = 0

BalInv ==
  /\ BalTypeOK /\ RegisteredFirst /\ LoadCounted
  /\ \A w, x \in DOMAIN counter : counter[w] <= counter[x] + 1

=============================================================================
