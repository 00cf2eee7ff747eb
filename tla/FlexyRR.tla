------------------------------- MODULE FlexyRR -------------------------------
(***************************************************************************)
(* The flexible scheduler (controller/src/Schedulers/FlexyRRScheduler.cpp  *)
(* and JobMetrics of its header): round robin among the VAQs of user       *)
(* facing jobs, then among those of batch jobs, and a policy that moves    *)
(* the accelerators of the group between the two kinds of job.             *)
(*                                                                         *)
(* The file is not in the build at this commit.  arax_pipe_add_task and    *)
(* arax_vaccel_test_set_assignee, which are gone, are modelled from their  *)
(* use: a semaphore, and a compare-and-swap that also succeeds for the     *)
(* assignee.  All VAQs are there from the start.                           *)
(*                                                                         *)
(* postTaskExecution takes the duration of a task before it stops the      *)
(* clock: the stop time is whatever the memory held, and the duration any  *)
(* number, also a negative one.                                            *)
(***************************************************************************)
EXTENDS Integers, Sequences, FiniteSets, FiniteSetsExt

CONSTANTS
  Accels,        \* the accelerators of the group, a sequence in order of names
  Initial,       \* Initial[a]: initial_preference, "UserJob", "BatchJob" or "AnyJob"
  UserVaqs, BatchVaqs,  \* the VAQs by job priority, in the order of the array
  VaqCid,        \* the client of a VAQ
  SlaFiles,      \* which clients the SLA file may have a line for
  Thresholds,    \* over_threshold = under_threshold
  Sla,           \* the one of the policy and that of every client
  Durations,     \* what the clock may say
  Policies,      \* policies that may be configured
  MaxTasks,      \* bound: tasks that are issued
  MaxSem,        \* bound: where the semaphore saturates
  NULL

VARIABLES
  policy,        \* "none" (not elastic), "proactive" or "reactive"
  pref,          \* job_preference
  queue, sem, owed, issued,
  assignee,      \* of each VAQ
  rr,            \* userRR and batchRR
  metrics,       \* job_metrics
  meta,          \* whether a VAQ has the metrics of its client
  wpc, req, pos, task, dur,  \* the workers: counters of loops, the VAQ of the task that
                 \* runs, and the locals of addDuration
  exited

flexvars == <<policy, pref, queue, sem, owed, issued, assignee, rr, metrics, meta, wpc, req, pos,
              task, dur, exited>>

Workers == {Accels[i] : i \in DOMAIN Accels}
AllVaqs == {UserVaqs[i] : i \in DOMAIN UserVaqs} \cup {BatchVaqs[i] : i \in DOMAIN BatchVaqs}
Clients == {VaqCid[v] : v \in AllVaqs}

-----------------------------------------------------------------------------
(* JobMetrics *)

JobMetrics == [counter |-> 0, durations |-> [i \in {0, 1} |-> 0], cumulative |-> 0,
               over_sla |-> 0, under_sla |-> 0]

overSLA(m) == m.over_sla >= Thresholds
underSLA(m) == m.under_sla >= Thresholds

\* Twice the average of the last two.
getAverageDuration2(m) ==
  CASE m.counter = 0 -> 0
    [] m.counter = 1 -> 2 * m.cumulative
    [] OTHER -> m.cumulative

\* addDuration, after the sums.
Judge(m, d) ==
  [m EXCEPT !.over_sla = IF d > Sla THEN @ + 1 ELSE IF d < Sla THEN 0 ELSE @,
            !.under_sla = IF d < Sla THEN @ + 1 ELSE IF d > Sla THEN 0 ELSE @]

-----------------------------------------------------------------------------
(* Policies *)

\* Twice the predicted latency of the last task of v.  A VAQ without metrics
\* counts with the SLA.
Load2(v) == Len(queue[v]) * (IF meta[v] THEN getAverageDuration2(metrics[VaqCid[v]]) ELSE 2 * Sla)

\* Mutant of req_accels: no accelerator is kept for users that have no tasks.
MutReqNone ==
  LET n == -((-MapThenSumSet(Load2, Range(UserVaqs))) \div (2 * Sla))
  IN  IF n > Len(Accels) THEN Len(Accels) ELSE n

\* ceil(qmax / sla), at least one accelerator and at most all.  A sum below
\* zero stays as it is, and flexPolicyProactive never counts it down to zero.
req_accels ==
  LET n == -((-MapThenSumSet(Load2, Range(UserVaqs))) \div (2 * Sla))
  IN  CASE n = 0 -> 1
        [] n > Len(Accels) -> Len(Accels)
        [] OTHER -> n

\* The first accelerator, in order, for which P holds gets preference p.
First(prefs, p, P(_)) ==
  LET some == {i \in DOMAIN Accels : P(Accels[i])}
  IN  IF some = {} THEN prefs ELSE [prefs EXCEPT ![Accels[Min(some)]] = p]

MoreUser(prefs) ==
  First(prefs, "UserJob", LAMBDA a : Initial[a] # "BatchJob" /\ prefs[a] # "UserJob")

LessUser(prefs) ==
  First(prefs, "BatchJob", LAMBDA a : Initial[a] # "UserJob" /\ prefs[a] = "UserJob")
AllBatch(prefs) == [a \in Workers |-> IF Initial[a] = "UserJob" THEN prefs[a] ELSE "BatchJob"]

\* Made a step: what it writes depends on preferences only in which
\* accelerator comes first.
flexPolicyReactive ==
  LET over == \E i \in DOMAIN UserVaqs :
                meta[UserVaqs[i]] /\ overSLA(metrics[VaqCid[UserVaqs[i]]])
      under == \E i \in DOMAIN UserVaqs :
                 meta[UserVaqs[i]] /\ underSLA(metrics[VaqCid[UserVaqs[i]]])
      first == IF over THEN MoreUser(pref) ELSE IF under THEN LessUser(pref) ELSE pref
  IN  IF UserVaqs = <<>> /\ BatchVaqs # <<>> THEN AllBatch(first) ELSE first

-----------------------------------------------------------------------------
FlexInit ==
  /\ policy \in Policies
  /\ pref = Initial
  /\ queue = [v \in AllVaqs |-> <<>>]
  /\ sem = 0 /\ owed = 0 /\ issued = 0
  /\ assignee = [v \in AllVaqs |-> NULL]
  /\ rr = [user |-> 0, batch |-> 0]
  /\ \E clients \in SlaFiles : metrics = [c \in clients |-> JobMetrics]
  /\ meta = [v \in AllVaqs |-> FALSE]
  /\ wpc = [a \in Workers |-> "wait"]
  /\ req = [a \in Workers |-> 0]
  /\ pos = [a \in Workers |-> 0]
  /\ task = [a \in Workers |-> NULL]
  /\ dur = [a \in Workers |-> NULL]
  /\ exited = FALSE

Goto(w, label) == wpc' = [wpc EXCEPT ![w] = label]
AddToken == sem' = Min({sem + 1, MaxSem})

\* wait_for_task; selectTask begins.
Wait(w) ==
  /\ wpc[w] = "wait"
  /\ sem > 0
  /\ sem' = sem - 1
  /\ Goto(w, IF policy = "none" THEN "user?" ELSE policy)
  /\ UNCHANGED <<policy, pref, queue, owed, issued, assignee, rr, metrics, meta, req, pos, task, dur,
                 exited>>

Reactive(w) ==
  /\ wpc[w] = "reactive"
  /\ pref' = flexPolicyReactive
  /\ Goto(w, "user?")
  /\ UNCHANGED <<policy, queue, sem, owed, issued, assignee, rr, metrics, meta, req, pos, task, dur,
                 exited>>

Proactive(w) ==
  /\ wpc[w] = "proactive"
  /\ req' = [req EXCEPT ![w] = req_accels]
  /\ pos' = [pos EXCEPT ![w] = 1]
  /\ Goto(w, "set")
  /\ UNCHANGED <<policy, pref, queue, sem, owed, issued, assignee, rr, metrics, meta, task, dur, exited>>

\* The loop over the accelerators of the group; other workers may be in it.
SetPreference(w) ==
  /\ wpc[w] = "set"
  /\ IF pos[w] <= Len(Accels)
       THEN /\ pref' = [pref EXCEPT ![Accels[pos[w]]] = IF req[w] # 0 THEN "UserJob" ELSE "BatchJob"]
            /\ req' = [req EXCEPT ![w] = IF @ # 0 THEN @ - 1 ELSE @]
            /\ pos' = [pos EXCEPT ![w] = @ + 1]
            /\ UNCHANGED wpc
       ELSE /\ req' = [req EXCEPT ![w] = 0]
            /\ pos' = [pos EXCEPT ![w] = 0]
            /\ Goto(w, "user?")
            /\ UNCHANGED pref
  /\ UNCHANGED <<policy, queue, sem, owed, issued, assignee, rr, metrics, meta, task, dur, exited>>

\* Whether the worker serves a kind of job; if not, it gives a token back.
Serves(w, kind) == pref[w] \in {kind, "AnyJob"}

AskUser(w) ==
  /\ wpc[w] = "user?"
  /\ IF Serves(w, "UserJob") THEN Goto(w, "user") /\ UNCHANGED sem ELSE Goto(w, "batch?") /\ AddToken
  /\ UNCHANGED <<policy, pref, queue, owed, issued, assignee, rr, metrics, meta, req, pos, task, dur,
                 exited>>

AskBatch(w) ==
  /\ wpc[w] = "batch?"
  /\ IF Serves(w, "BatchJob") THEN Goto(w, "batch") /\ UNCHANGED sem ELSE Goto(w, "wait") /\ AddToken
  /\ UNCHANGED <<policy, pref, queue, owed, issued, assignee, rr, metrics, meta, req, pos, task, dur,
                 exited>>

\* Mutant of TestSetAssignee: whoever finds a VAQ may serve it.
MutAssigneeAny(w, v) == TRUE

\* arax_vaccel_test_set_assignee (external)
TestSetAssignee(w, v) == assignee[v] \in {NULL, w}

\* One round of pickFirstTypeJobTaskRR over the VAQs of a kind; the index is
\* shared by the workers.
Pick(w, kind, vaqs, otherwise) ==
  /\ wpc[w] = kind
  /\ IF pos[w] = Len(vaqs)
       THEN /\ pos' = [pos EXCEPT ![w] = 0]
            /\ Goto(w, otherwise)
            /\ UNCHANGED <<rr, assignee, queue, task>>
       ELSE LET v == vaqs[rr[kind] + 1]
            IN  /\ rr' = [rr EXCEPT ![kind] = (@ + 1) % Len(vaqs)]
                /\ assignee' = IF TestSetAssignee(w, v) THEN [assignee EXCEPT ![v] = w] ELSE assignee
                /\ IF TestSetAssignee(w, v) /\ queue[v] # <<>>
                     THEN /\ task' = [task EXCEPT ![w] = <<v, Head(queue[v])>>]
                          /\ queue' = [queue EXCEPT ![v] = Tail(@)]
                          /\ pos' = [pos EXCEPT ![w] = 0]
                          /\ Goto(w, "run")
                     ELSE /\ pos' = [pos EXCEPT ![w] = @ + 1]
                          /\ UNCHANGED <<task, queue, wpc>>
  /\ UNCHANGED <<policy, pref, sem, owed, issued, metrics, meta, req, dur, exited>>

\* postTaskExecution: a client that the SLA file has no line for ends the
\* controller.  addDuration begins with a count that is atomic.
postTaskExecution(w) ==
  /\ wpc[w] = "run"
  /\ LET v == task[w][1]
         c == VaqCid[v]
     IN  IF c \notin DOMAIN metrics
           THEN exited' = TRUE /\ UNCHANGED <<metrics, meta, dur>>
           ELSE \E d \in Durations :
                  /\ metrics' = [metrics EXCEPT ![c].counter = @ + 1]
                  /\ meta' = [meta EXCEPT ![v] = TRUE]
                  /\ dur' = [dur EXCEPT ![w] =
                               [index |-> (metrics[c].counter + 1) % 2, dur |-> d, sum |-> 0]]
                  /\ UNCHANGED exited
  /\ Goto(w, "read")
  /\ UNCHANGED <<policy, pref, queue, sem, owed, issued, assignee, rr, req, pos, task>>

Metrics(w) == metrics[VaqCid[task[w][1]]]

\* cumulative_task_ttc -= durations[index], then += dur, none of it atomic: the
\* sum is read, and written twice.  What another worker with a task of the same
\* client writes in between is lost.
ReadSum(w) ==
  /\ wpc[w] = "read"
  /\ dur' = [dur EXCEPT ![w].sum = Metrics(w).cumulative - Metrics(w).durations[dur[w].index]]
  /\ Goto(w, "subtract")
  /\ UNCHANGED <<policy, pref, queue, sem, owed, issued, assignee, rr, metrics, meta, req, pos, task,
                 exited>>

Subtract(w) ==
  /\ wpc[w] = "subtract"
  /\ metrics' = [metrics EXCEPT ![VaqCid[task[w][1]]] =
                   [@ EXCEPT !.cumulative = dur[w].sum, !.durations[dur[w].index] = dur[w].dur]]
  /\ Goto(w, "add")
  /\ UNCHANGED <<policy, pref, queue, sem, owed, issued, assignee, rr, meta, req, pos, task, dur,
                 exited>>

Add(w) ==
  /\ wpc[w] = "add"
  /\ metrics' = [metrics EXCEPT ![VaqCid[task[w][1]]] =
                   Judge([@ EXCEPT !.cumulative = dur[w].sum + dur[w].dur], dur[w].dur)]
  /\ task' = [task EXCEPT ![w] = NULL]
  /\ dur' = [dur EXCEPT ![w] = NULL]
  /\ Goto(w, "wait")
  /\ UNCHANGED <<policy, pref, queue, sem, owed, issued, assignee, rr, meta, req, pos, exited>>

Worker(w) ==
  \/ Wait(w) \/ Reactive(w) \/ Proactive(w) \/ SetPreference(w)
  \/ AskUser(w) \/ Pick(w, "user", UserVaqs, "batch?")
  \/ AskBatch(w) \/ Pick(w, "batch", BatchVaqs, "wait")
  \/ postTaskExecution(w) \/ ReadSum(w) \/ Subtract(w) \/ Add(w)

IssuePush(v) ==
  /\ issued < MaxTasks
  /\ queue' = [queue EXCEPT ![v] = Append(@, issued)]
  /\ owed' = owed + 1
  /\ issued' = issued + 1
  /\ UNCHANGED <<policy, pref, sem, assignee, rr, metrics, meta, wpc, req, pos, task, dur, exited>>

IssueSignal ==
  /\ owed > 0
  /\ AddToken
  /\ owed' = owed - 1
  /\ UNCHANGED <<policy, pref, queue, issued, assignee, rr, metrics, meta, wpc, req, pos, task, dur,
                 exited>>

FlexNext ==
  \/ ~exited /\ (IssueSignal \/ \E w \in Workers : Worker(w) \/ \E v \in AllVaqs : IssuePush(v))
  \/ UNCHANGED flexvars

FlexSpec == FlexInit /\ [][FlexNext]_flexvars

-----------------------------------------------------------------------------
FlexTypeOK ==
  /\ pref \in [Workers -> {"UserJob", "BatchJob", "AnyJob"}]
  /\ queue \in [AllVaqs -> Seq(0 .. MaxTasks)]
  /\ sem \in 0 .. MaxSem
  /\ assignee \in [AllVaqs -> Workers \cup {NULL}]
  /\ \A c \in DOMAIN metrics : metrics[c].counter \in 0 .. MaxTasks

(* Two workers never run tasks of one VAQ at a time, and whoever runs one   *)
(* runs the oldest there is: only the assignee pops, whatever the policy    *)
(* makes of the preferences and wherever the shared index points.           *)
OneServer ==
  \A w \in Workers : task[w] # NULL =>
    /\ \A x \in Workers : task[x] # NULL /\ task[x][1] = task[w][1] => x = w
    /\ \A i \in DOMAIN queue[task[w][1]] : queue[task[w][1]][i] > task[w][2]

(* The proactive policy leaves users an accelerator, "all gpus except one   *)
(* to batch": once a worker has been through its loop, the first one stays  *)
(* with them, also while two workers with different loads are in the loop,  *)
(* and when durations below zero, or a sum that lost an update, make the    *)
(* number of accelerators negative.                                         *)
UsersKeepOne ==
  policy = "proactive" =>
    (pref[Accels[1]] = Initial[Accels[1]] /\ pref = Initial) \/ pref[Accels[1]] = "UserJob"

(* The reactive policy leaves accelerators to the kind of job they are for. *)
DedicatedStay ==
  policy = "reactive" =>
    \A a \in Workers : Initial[a] # "AnyJob" => pref[a] = Initial[a]

(* The proactive policy leaves users the first accelerator, the reactive    *)
(* one leaves accelerators to what they are for, whatever becomes of the    *)
(* sums they judge by.                                                      *)
PolicyKept == UsersKeepOne /\ DedicatedStay

-----------------------------------------------------------------------------
(* For the proofs. *)

FlexAssumption ==
  /\ Accels \in Seq(Workers) /\ Accels # <<>>
  /\ \A i, j \in DOMAIN Accels : Accels[i] = Accels[j] => i = j
  /\ Initial \in [Workers -> {"UserJob", "BatchJob", "AnyJob"}]
  /\ UserVaqs \in Seq(AllVaqs) /\ BatchVaqs \in Seq(AllVaqs)
  /\ Durations \subseteq Int
  /\ Policies \subseteq {"none", "proactive", "reactive"}
  /\ NULL \notin Workers

\* A worker that has a task.
Busy == {"run", "read", "subtract", "add"}
Labels == {"wait", "reactive", "proactive", "set", "user?", "user", "batch?", "batch", "run", "read",
           "subtract", "add"}

ServeTyped ==
  /\ policy \in {"none", "proactive", "reactive"}
  /\ queue \in [AllVaqs -> Seq(Nat)] /\ issued \in Nat
  /\ assignee \in [AllVaqs -> Workers \cup {NULL}]
  /\ rr \in [user : Nat, batch : Nat]
  /\ (UserVaqs # <<>> => rr.user < Len(UserVaqs)) /\ (BatchVaqs # <<>> => rr.batch < Len(BatchVaqs))
  /\ wpc \in [Workers -> Labels] /\ pos \in [Workers -> Nat]
  /\ task \in [Workers -> (AllVaqs \X Nat) \cup {NULL}]

\* A queue is in the order of issue.
QueueOK(v) ==
  \A i \in 1 .. Len(queue[v]) :
    queue[v][i] < issued /\ \A j \in i + 1 .. Len(queue[v]) : queue[v][i] < queue[v][j]

\* The task of a worker is older than what its VAQ, which is the worker's, still has.
Oldest(w) ==
  /\ task[w] \in AllVaqs \X Nat
  /\ assignee[task[w][1]] = w
  /\ task[w][2] < issued
  /\ \A i \in 1 .. Len(queue[task[w][1]]) : queue[task[w][1]][i] > task[w][2]

\* A round ends with the array.
Place(w) ==
  /\ wpc[w] = "user" => pos[w] <= Len(UserVaqs)
  /\ wpc[w] = "batch" => pos[w] <= Len(BatchVaqs)
  /\ wpc[w] \notin {"set", "user", "batch"} => pos[w] = 0

ServeInv ==
  /\ ServeTyped
  /\ \A v \in AllVaqs : QueueOK(v)
  /\ \A w \in Workers : Place(w) /\ IF wpc[w] \in Busy THEN Oldest(w) ELSE task[w] = NULL

\* The loop of the proactive policy has given the first accelerator to the users.
SetOK(w) ==
  /\ wpc[w] \in {"reactive", "proactive"} => policy = wpc[w]
  /\ wpc[w] = "set" => /\ policy = "proactive" /\ pos[w] \in 1 .. Len(Accels) + 1
                       /\ IF pos[w] = 1 THEN req[w] # 0 ELSE pref[Accels[1]] = "UserJob"

PrefInv ==
  /\ pref \in [Workers -> {"UserJob", "BatchJob", "AnyJob"}]
  /\ req = [w \in Workers |-> req[w]]
  /\ \A w \in Workers : SetOK(w)
  /\ UsersKeepOne /\ DedicatedStay

=============================================================================
