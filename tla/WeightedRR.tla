----------------------------- MODULE WeightedRR -----------------------------
(***************************************************************************)
(* The weighted round robin scheduler                                      *)
(* (controller/src/Schedulers/WeightedRoundRobinScheduler.cpp), for the    *)
(* workers of one group.  A client has credits; a virtual accelerator (VAQ)*)
(* with tasks waits in the control queue high while its client has credits *)
(* and in low afterwards, and a worker turns to low when high is empty.    *)
(*                                                                         *)
(* The file is not in the build at this commit.  What it needs of the rest *)
(* (arax_pipe_add_task, the array of all VAQs) is modelled from its use: a *)
(* semaphore that counts tasks, and the VAQs in the order they were made.  *)
(*                                                                         *)
(* mtx is a flag: unlock clears it whoever holds it, which is what the     *)
(* mutex of the build does when it is unlocked twice.  No code changes a   *)
(* weight, and a VAQ of a client without weight never gets into high or    *)
(* low, so that the loops that pop until they find a weight run once.      *)
(***************************************************************************)
EXTENDS Integers, Sequences, FiniteSets, SequencesExt, FiniteSetsExt

CONSTANTS
  Workers,
  Vaqs,            \* the VAQs, a sequence
  Cid,             \* Cid[v]: the clients an application may say v is of
  Procs,
  WeightFiles,     \* what customerWeights may be
  ReductionFiles,  \* what reductionUnit may be; NULL: a build without it
  Beyond,          \* what the memory after vectorClientState may hold
  Comment, Missing, NULL,
  MaxTasks         \* bound: tasks that are issued

VARIABLES
  num,             \* VAQs there are
  cid,             \* -1 until set
  queue,           \* procedures of the tasks of each VAQ
  sem,             \* the semaphore, and tasks it has still to be told of
  owed,
  vectorClientState,  \* credits and weight of each client, and what follows them
  units,           \* the reduction unit of each procedure
  mtx, high, low,
  meta,            \* NULL, or whether the VAQ is in the group
  wpc, seen, pos, inserted, sel,
  issued, exited

shared == <<vectorClientState, mtx, high, low, meta>>
env == <<num, cid, queue, sem, owed, issued>>
vars == <<env, shared, units, wpc, seen, pos, inserted, sel, exited>>

VaqSet == ToSet(Vaqs)

-----------------------------------------------------------------------------
(* The files *)

\* A client per line that is not a comment; the credits are the weight at first.
loadConfigurationFile(file) ==
  LET lines == SelectSeq(file, LAMBDA l : l # Comment)
  IN  [i \in DOMAIN lines |-> [credit |-> lines[i], weight |-> lines[i]]]

\* The longest gets 100, the others in proportion, and none gets less than 1.
time2ReductionUnits(times) ==
  LET longest == Max({times[p] : p \in DOMAIN times})
  IN  [p \in DOMAIN times |->
         IF times[p] * 100 < longest THEN 1 ELSE (times[p] * 100) \div longest]

\* The file must exist, name procedures that exist, and name one.  Times that
\* are all zero make the controller divide by zero.
ReductionFileOK(file) ==
  /\ file # Missing
  /\ DOMAIN file # {} /\ DOMAIN file \subseteq Procs
  /\ \E p \in DOMAIN file : file[p] > 0

\* A procedure that is not in the file has an empty vector; the files of the
\* model name all.
loadreductionUnitFile(file) ==
  IF file = NULL THEN [p \in Procs |-> 1] ELSE time2ReductionUnits(file)

Init ==
  /\ num = 0
  /\ cid = [v \in VaqSet |-> -1]
  /\ queue = [v \in VaqSet |-> <<>>]
  /\ sem = 0 /\ owed = 0 /\ issued = 0
  /\ \E wf \in WeightFiles, rf \in ReductionFiles :
       IF wf # Missing /\ (rf = NULL \/ ReductionFileOK(rf))
         THEN /\ \E b \in Beyond : vectorClientState = Append(loadConfigurationFile(wf), b)
              /\ units = loadreductionUnitFile(rf)
              /\ exited = FALSE
         ELSE /\ vectorClientState = <<>>
              /\ units = [p \in Procs |-> 1]
              /\ exited = TRUE
  /\ mtx = FALSE /\ high = <<>> /\ low = <<>>
  /\ meta = [v \in VaqSet |-> NULL]
  /\ wpc = [w \in Workers |-> "wait"]
  /\ seen = [w \in Workers |-> 0]
  /\ pos = [w \in Workers |-> 0]
  /\ inserted = [w \in Workers |-> FALSE]
  /\ sel = [w \in Workers |-> NULL]

-----------------------------------------------------------------------------
(* Clients *)

\* The id of a client is its line, from 0.
NumClients == Len(vectorClientState) - 1
getClientWeight(c) == vectorClientState[c + 1].weight
getClientCredits(c) == vectorClientState[c + 1].credit
WithCredits(c, value) == [vectorClientState EXCEPT ![c + 1].credit = @ + value]

\* Whether the controller goes on.  The id after the last one passes, too, and
\* what is read and written for it is not in the vector.
checkJobIdRange(c) == c <= NumClients

\* A VAQ goes to the control queue that the credits of its client call for.
PushVaq(v, c) ==
  IF getClientCredits(c) > 0
    THEN high' = Append(high, v) /\ UNCHANGED low
    ELSE low' = Append(low, v) /\ UNCHANGED high

-----------------------------------------------------------------------------
(* selectVirtualAcceleratorQueue *)

Goto(w, label) == wpc' = [wpc EXCEPT ![w] = label]

\* Mutant of Wait: the last VAQ of the array is not looked at.
MutWaitMissesLast(w) ==
  /\ wpc[w] = "wait"
  /\ sem > 0
  /\ sem' = sem - 1
  /\ seen' = [seen EXCEPT ![w] = num - 1]
  /\ Goto(w, "lock")
  /\ UNCHANGED <<num, cid, queue, owed, issued, shared, units, pos, inserted, sel, exited>>

\* wait_for_task, and the array of all VAQs.
Wait(w) ==
  /\ wpc[w] = "wait"
  /\ sem > 0
  /\ sem' = sem - 1
  /\ seen' = [seen EXCEPT ![w] = num]
  /\ Goto(w, "lock")
  /\ UNCHANGED <<num, cid, queue, owed, issued, shared, units, pos, inserted, sel, exited>>

Lock(w) ==
  /\ wpc[w] = "lock"
  /\ ~mtx
  /\ mtx' = TRUE
  /\ pos' = [pos EXCEPT ![w] = 1]
  /\ inserted' = [inserted EXCEPT ![w] = FALSE]
  /\ Goto(w, "scan")
  /\ UNCHANGED <<env, vectorClientState, high, low, meta, units, seen, sel, exited>>

\* A VAQ that is not in the group: with tasks it gets in, else it loses its meta.
InsertVaq(w, v, c) ==
  IF queue[v] # <<>>
    THEN /\ meta' = [meta EXCEPT ![v] = TRUE]
         /\ PushVaq(v, c)
         /\ inserted' = [inserted EXCEPT ![w] = TRUE]
    ELSE /\ meta' = [meta EXCEPT ![v] = NULL]
         /\ UNCHANGED <<high, low, inserted>>

\* Step 1, for one VAQ.  getId spins, with mtx held, until the id is set.  An
\* access after the vector may also end the controller.
Scan(w) ==
  /\ wpc[w] = "scan"
  /\ pos[w] <= seen[w]
  /\ LET v == Vaqs[pos[w]]
         skip == pos' = [pos EXCEPT ![w] = @ + 1] /\ UNCHANGED wpc
     IN  IF meta[v] = TRUE
           THEN skip /\ UNCHANGED exited
           ELSE /\ cid[v] # -1
                /\ \/ /\ ~checkJobIdRange(cid[v]) \/ cid[v] = NumClients
                      /\ exited' = TRUE
                      /\ skip
                   \/ /\ checkJobIdRange(cid[v])
                      /\ IF getClientWeight(cid[v]) = 0 THEN skip ELSE Goto(w, "insert") /\ UNCHANGED pos
                      /\ UNCHANGED exited
  /\ UNCHANGED <<env, shared, units, seen, inserted, sel>>

\* The rest of the round.  A second worker that unlock let in may have tested
\* the same VAQ.
Insert(w) ==
  /\ wpc[w] = "insert"
  /\ InsertVaq(w, Vaqs[pos[w]], cid[Vaqs[pos[w]]])
  /\ pos' = [pos EXCEPT ![w] = @ + 1]
  /\ Goto(w, "scan")
  /\ UNCHANGED <<env, vectorClientState, mtx, units, seen, sel, exited>>

\* Nothing inserted: "no Task has been executed", and the token is given back.
\* The locals of the scan are done with.
AddToken(w) ==
  /\ wpc[w] = "scan"
  /\ pos[w] > seen[w]
  /\ sem' = sem + (IF ~inserted[w] /\ seen[w] > 0 THEN 1 ELSE 0)
  /\ seen' = [seen EXCEPT ![w] = 0]
  /\ pos' = [pos EXCEPT ![w] = 0]
  /\ inserted' = [inserted EXCEPT ![w] = FALSE]
  /\ Goto(w, "choose")
  /\ UNCHANGED <<num, cid, queue, owed, issued, shared, units, sel, exited>>

\* The first task of v is paid for, and v is returned; unless it has no task:
\* then v leaves the group and the token is given back.
Select(w, v, refill) ==
  IF queue[v] = <<>>
    THEN /\ sem' = sem + 1
         /\ meta' = [meta EXCEPT ![v] = FALSE]
         /\ UNCHANGED <<sel, vectorClientState>>
    ELSE /\ sel' = [sel EXCEPT ![w] = v]
         /\ vectorClientState' = WithCredits(cid[v], refill - units[Head(queue[v])])
         /\ UNCHANGED <<sem, meta>>

ChooseHigh(w) == Select(w, Head(high), 0)
ChooseLow(w) == Select(w, Head(low), getClientWeight(cid[Head(low)]))

\* Step 2
Choose(w) ==
  /\ wpc[w] = "choose"
  /\ \/ high # <<>> /\ ChooseHigh(w) /\ high' = Tail(high) /\ UNCHANGED low
     \/ high = <<>> /\ low # <<>> /\ ChooseLow(w) /\ low' = Tail(low) /\ UNCHANGED high
     \/ high = <<>> /\ low = <<>>
        /\ UNCHANGED <<sel, vectorClientState, sem, meta, high, low>>
  /\ Goto(w, "free")
  /\ UNCHANGED <<num, cid, queue, owed, issued, mtx, units, seen, pos, inserted, exited>>

\* Every way out of the function unlocks mtx.
Free(w) ==
  /\ wpc[w] = "free"
  /\ mtx' = FALSE
  /\ Goto(w, IF sel[w] = NULL THEN "unlock" ELSE "pop")
  /\ UNCHANGED <<env, vectorClientState, high, low, meta, units, seen, pos, inserted, sel, exited>>

-----------------------------------------------------------------------------
(* selectTask, from there on *)

\* A task that is not there is written to, and the controller crashes.
Pop(w) ==
  /\ wpc[w] = "pop"
  /\ exited' = (queue[sel[w]] = <<>>)
  /\ queue' = [queue EXCEPT ![sel[w]] = IF @ = <<>> THEN @ ELSE Tail(@)]
  /\ Goto(w, "requeue")
  /\ UNCHANGED <<num, cid, sem, owed, issued, shared, units, seen, pos, inserted, sel>>

\* Mutant of Requeue: the VAQ stays in the group although it is in no queue.
MutRequeueKeepsGroup(w) ==
  /\ wpc[w] = "requeue"
  /\ IF queue[sel[w]] # <<>> /\ getClientWeight(cid[sel[w]]) > 0
       THEN PushVaq(sel[w], cid[sel[w]]) /\ UNCHANGED meta
       ELSE UNCHANGED <<meta, high, low>>
  /\ sel' = [sel EXCEPT ![w] = NULL]
  /\ Goto(w, "unlock")
  /\ UNCHANGED <<env, vectorClientState, mtx, units, seen, pos, inserted, exited>>

\* The VAQ goes back to a control queue if it has more tasks and a weight that
\* is positive; otherwise it leaves the group.
Requeue(w) ==
  /\ wpc[w] = "requeue"
  /\ IF queue[sel[w]] # <<>> /\ getClientWeight(cid[sel[w]]) > 0
       THEN PushVaq(sel[w], cid[sel[w]]) /\ UNCHANGED meta
       ELSE meta' = [meta EXCEPT ![sel[w]] = NULL] /\ UNCHANGED <<high, low>>
  /\ sel' = [sel EXCEPT ![w] = NULL]
  /\ Goto(w, "unlock")
  /\ UNCHANGED <<env, vectorClientState, mtx, units, seen, pos, inserted, exited>>

\* mtx is unlocked once more; the worker runs the task, if it got one.
Unlock(w) ==
  /\ wpc[w] = "unlock"
  /\ mtx' = FALSE
  /\ Goto(w, "wait")
  /\ UNCHANGED <<env, vectorClientState, high, low, meta, units, seen, pos, inserted, sel, exited>>

Worker(w) ==
  \/ Wait(w) \/ Lock(w) \/ Scan(w) \/ Insert(w) \/ AddToken(w) \/ Choose(w) \/ Free(w)
  \/ Pop(w) \/ Requeue(w) \/ Unlock(w)

-----------------------------------------------------------------------------
(* Applications *)

Acquire ==
  /\ num < Len(Vaqs)
  /\ num' = num + 1
  /\ UNCHANGED <<cid, queue, sem, owed, issued, shared, units, wpc, seen, pos, inserted, sel, exited>>

SetCid(v) ==
  /\ v \in {Vaqs[i] : i \in 1 .. num}
  /\ cid[v] = -1
  /\ \E c \in Cid[v] : cid' = [cid EXCEPT ![v] = c]
  /\ UNCHANGED <<num, queue, sem, owed, issued, shared, units, wpc, seen, pos, inserted, sel, exited>>

IssuePush(v, p) ==
  /\ issued < MaxTasks
  /\ cid[v] # -1
  /\ queue' = [queue EXCEPT ![v] = Append(@, p)]
  /\ owed' = owed + 1
  /\ issued' = issued + 1
  /\ UNCHANGED <<num, cid, sem, shared, units, wpc, seen, pos, inserted, sel, exited>>

IssueSignal ==
  /\ owed > 0
  /\ sem' = sem + 1
  /\ owed' = owed - 1
  /\ UNCHANGED <<num, cid, queue, issued, shared, units, wpc, seen, pos, inserted, sel, exited>>

Next ==
  \/ /\ ~exited
     /\ \/ \E w \in Workers : Worker(w)
        \/ Acquire
        \/ \E v \in VaqSet : SetCid(v) \/ \E p \in Procs : IssuePush(v, p)
        \/ IssueSignal
  \/ UNCHANGED vars

\* Workers and issuers go on; nobody has to make a VAQ or to set an id.
Fairness ==
  /\ \A w \in Workers : WF_vars(~exited /\ Worker(w))
  /\ WF_vars(~exited /\ IssueSignal)

Spec == Init /\ [][Next]_vars /\ Fairness

-----------------------------------------------------------------------------
TypeOK ==
  /\ num \in 0 .. Len(Vaqs)
  /\ cid \in [VaqSet -> Int]
  /\ queue \in [VaqSet -> Seq(Procs)]
  /\ sem \in Nat /\ owed \in Nat
  /\ vectorClientState \in Seq([credit : Int, weight : Int])
  /\ units \in [Procs -> 1 .. 100]
  /\ mtx \in BOOLEAN
  /\ high \in Seq(VaqSet) /\ low \in Seq(VaqSet)
  /\ meta \in [VaqSet -> {NULL, TRUE, FALSE}]
  /\ sel \in [Workers -> VaqSet \cup {NULL}]

Places(v) ==
  Cardinality({i \in DOMAIN high : high[i] = v}) + Cardinality({i \in DOMAIN low : low[i] = v})
    + Cardinality({w \in Workers : sel[w] = v})

(* A VAQ is in the group exactly if it is in one place: high, low, or the   *)
(* hands of a worker.  In none, its tasks would be forgotten; in two, its   *)
(* client would be served twice as often and the last task popped twice.    *)
TrackedOnce == \A v \in VaqSet : Places(v) = IF meta[v] = TRUE THEN 1 ELSE 0

In(s, v) == \E i \in 1 .. Len(s) : s[i] = v
InHands(v) == \E w \in Workers : sel[w] = v

(* The part of it that does not depend on the lock: no VAQ is marked as in  *)
(* the group and is in no place, where no scan would look at it again.      *)
NotLost == \A v \in VaqSet : meta[v] = TRUE => In(high, v) \/ In(low, v) \/ InHands(v)

(* While tasks cost 1 each, the credits of a client with a weight do not    *)
(* drift: each of its VAQs may have been queued while there was one credit  *)
(* left, or be refilled while it waits in low.                              *)
CreditsBounded ==
  (\A p \in Procs : units[p] = 1) =>
    \A i \in 1 .. NumClients :
      LET c == vectorClientState[i]
          n == Cardinality({v \in VaqSet : i - 1 \in Cid[v]})
      IN  c.weight > 0 => c.credit >= -n /\ c.credit <= Max({1, n}) * c.weight

\* A VAQ is to be served if its client has a weight, unless some VAQ's id is never
\* set, or is out of range.
Servable(v) ==
  /\ queue[v] # <<>> /\ ~exited
  /\ checkJobIdRange(cid[v]) /\ getClientWeight(cid[v]) # 0
ServedOrStuck(v) == queue[v] = <<>> \/ exited \/ \E i \in 1 .. num : cid[Vaqs[i]] = -1

(* No two workers have a VAQ to insert that both found out of the group:    *)
(* "Lock to guarantee that only one accelThread will push/pull in a         *)
(* controll queue" (WeightedRoundRobinScheduler.h).  So it is with one      *)
(* worker; with two, selectTask may unlock mtx while the other has it.      *)
OneInserts ==
  \A w, x \in Workers :
    wpc[w] = "insert" /\ wpc[x] = "insert" /\ Vaqs[pos[w]] = Vaqs[pos[x]] => w = x

-----------------------------------------------------------------------------
(* For the proofs. *)

WeightedAssumption == Vaqs \in Seq(VaqSet) /\ NULL \notin VaqSet /\ NULL \notin BOOLEAN

TrackTyped ==
  /\ num \in 0 .. Len(Vaqs)
  /\ high \in Seq(VaqSet) /\ low \in Seq(VaqSet)
  /\ meta \in [VaqSet -> {NULL, TRUE, FALSE}]
  /\ wpc \in [Workers -> {"wait", "lock", "scan", "insert", "choose", "free", "pop", "requeue", "unlock"}]
  /\ seen \in [Workers -> Nat] /\ pos \in [Workers -> Nat]
  /\ sel \in [Workers -> VaqSet \cup {NULL}]

\* A worker looks at VAQs there are, and has one from its choice to its return.
HandOK(w) ==
  /\ seen[w] <= num
  /\ wpc[w] \in {"scan", "insert"} => pos[w] >= 1
  /\ wpc[w] = "insert" => pos[w] <= seen[w]
  /\ wpc[w] \in {"wait", "lock", "scan", "insert", "choose", "unlock"} => sel[w] = NULL
  /\ wpc[w] \in {"pop", "requeue"} => sel[w] # NULL

\* What it is about to insert is not in the group.
Tested(w) == wpc[w] = "insert" => meta[Vaqs[pos[w]]] # TRUE

Once(s, v) == \A i, j \in 1 .. Len(s) : s[i] = v /\ s[j] = v => i = j
OneHand(v) == \A w, x \in Workers : sel[w] = v /\ sel[x] = v => w = x

OnceOK(v) ==
  /\ meta[v] = TRUE <=> In(high, v) \/ In(low, v) \/ InHands(v)
  /\ ~(In(high, v) /\ In(low, v)) /\ ~(In(high, v) /\ InHands(v)) /\ ~(In(low, v) /\ InHands(v))
  /\ Once(high, v) /\ Once(low, v) /\ OneHand(v)

TrackInv ==
  /\ TrackTyped
  /\ \A w \in Workers : HandOK(w) /\ Tested(w)
  /\ \A v \in VaqSet : OnceOK(v)

KeptInv == TrackTyped /\ (\A w \in Workers : HandOK(w)) /\ NotLost

=============================================================================
