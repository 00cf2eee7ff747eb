------------------------------ MODULE MCShelved ------------------------------
(* What is in the repository and not in the build, each on its own: three   *)
(* schedulers, and the migration of data.  Which of them runs is chosen at  *)
(* the start.  Variables that two of them have are shared, those of the     *)
(* others stay what they are.                                               *)
EXTENDS Integers, Sequences

CONSTANTS w1, Comment, Missing, NULL

VARIABLES
  which,
  \* of more than one
  queue, sem, owed, issued, meta, assignee, wpc, pos, task, exited,
  \* of WeightedRR
  num, cid, vectorClientState, units, mtx, high, low, seen, inserted, sel,
  \* of FlexyRR
  policy, pref, rr, metrics, req, dur,
  \* of LoadBalance
  life, phys, counter,
  \* of Migration
  vphys, dphys, mem, host, copy, latest, avail, charges, mpc, io, job, run, aborted

MCVaqs == <<"v1", "v2", "v3">>
\* Two VAQs of one client, and one of another or of none: the id after the last
\* client, which passes, or one after that.
MCCid == [v1 |-> {0}, v2 |-> {0}, v3 |-> {1, 2, 3}]
MCWeights == {<<Comment, 2, -1, 0>>, <<1>>, Missing}
MCBeyond == {[credit |-> -1, weight |-> 1]}
MCReduction == {NULL, [p |-> 300, q |-> 1], [p |-> 0, q |-> 0], Missing}

Weighted == INSTANCE WeightedRR WITH
  Workers <- {w1}, Vaqs <- MCVaqs, Cid <- MCCid, Procs <- {"p", "q"},
  WeightFiles <- MCWeights, Beyond <- MCBeyond, ReductionFiles <- MCReduction, MaxTasks <- 3

\* Two VAQs of one client, which the SLA file may not have.
Flexy == INSTANCE FlexyRR WITH
  Accels <- <<"g1", "g2">>, Initial <- [g1 |-> "AnyJob", g2 |-> "UserJob"],
  UserVaqs <- <<"u1">>, BatchVaqs <- <<"b1">>, VaqCid <- [u1 |-> 0, b1 |-> 0],
  SlaFiles <- {{0}, {}}, Thresholds <- 1, Sla <- 2, Durations <- {-9, 5},
  Policies <- {"none", "proactive", "reactive"}, MaxTasks <- 3, MaxSem <- 2

Balance == INSTANCE LoadBalance WITH
  Accels <- <<"g1", "g2">>, AllVaqs <- <<"v1", "v2", "v3">>, MaxTasks <- 2

MCJob(v, ins, outs) == [vac |-> v, ins |-> ins, outs |-> outs]
\* One device of each kind, two buffers that fit one device only one at a time, one empty.
Migrate == INSTANCE Migration WITH
  Devices <- {"g", "h", "o", "c"},
  Kind <- [g |-> "gpu", h |-> "hip", o |-> "opencl", c |-> "cpu"],
  Capacity <- 2, Available0 <- 1, Vacs <- {"v1", "v2"}, Data <- {"d1", "d2", "z"},
  Accel <- [d1 |-> "v1", d2 |-> "v2", z |-> "v1"], Size <- [d1 |-> 1, d2 |-> 1, z |-> 0],
  Jobs <- {MCJob("v1", {"d1"}, {"z"}), MCJob("v1", {"z"}, {"d1"}), MCJob("v1", {"d1"}, {"d1"}),
           MCJob("v2", {}, {"d2"}), MCJob("v2", {"d2"}, {})},
  None <- NULL, MaxTasks <- 3

\* What the proofs assume of the constants.
ASSUME
  /\ Weighted!WeightedAssumption
  /\ Flexy!FlexAssumption
  /\ Balance!BalAssumption
  /\ Migrate!MigAssumption

weightedOnly == <<num, cid, vectorClientState, units, mtx, high, low, seen, inserted, sel>>
flexyOnly == <<policy, pref, rr, metrics, req, dur>>
balanceOnly == <<life, phys, counter>>
migrateOnly == <<vphys, dphys, mem, host, copy, latest, avail, charges, mpc, io, job, run, aborted>>
shared == <<queue, sem, owed, issued, meta, assignee, wpc, pos, task, exited>>
vars == <<which, shared, weightedOnly, flexyOnly, balanceOnly, migrateOnly>>

NoWeighted ==
  /\ num = NULL /\ cid = NULL /\ vectorClientState = NULL /\ units = NULL /\ mtx = NULL
  /\ high = NULL /\ low = NULL /\ seen = NULL /\ inserted = NULL /\ sel = NULL
NoFlexy ==
  /\ policy = NULL /\ pref = NULL /\ rr = NULL /\ metrics = NULL /\ req = NULL /\ dur = NULL
NoBalance == life = NULL /\ phys = NULL /\ counter = NULL
NoMigrate ==
  /\ vphys = NULL /\ dphys = NULL /\ mem = NULL /\ host = NULL /\ copy = NULL /\ latest = NULL
  /\ avail = NULL /\ charges = NULL /\ mpc = NULL /\ io = NULL /\ job = NULL /\ run = NULL
  /\ aborted = NULL

Init ==
  \/ /\ which = "weighted"
     /\ Weighted!Init
     /\ NoFlexy /\ NoBalance /\ NoMigrate /\ assignee = NULL /\ task = NULL
  \/ /\ which = "flexy"
     /\ Flexy!FlexInit
     /\ NoWeighted /\ NoBalance /\ NoMigrate
  \/ /\ which = "balance"
     /\ Balance!BalInit
     /\ NoWeighted /\ NoFlexy /\ NoMigrate /\ meta = NULL /\ exited = NULL
  \/ /\ which = "migrate"
     /\ Migrate!MigInit
     /\ NoWeighted /\ NoFlexy /\ NoBalance
     /\ queue = NULL /\ sem = NULL /\ owed = NULL /\ issued = NULL /\ meta = NULL
     /\ assignee = NULL /\ wpc = NULL /\ pos = NULL /\ task = NULL /\ exited = NULL

Next ==
  \/ which = "weighted" /\ Weighted!Next
     /\ UNCHANGED <<which, assignee, task, flexyOnly, balanceOnly, migrateOnly>>
  \/ which = "flexy" /\ Flexy!FlexNext
     /\ UNCHANGED <<which, weightedOnly, balanceOnly, migrateOnly>>
  \/ which = "balance" /\ Balance!BalNext
     /\ UNCHANGED <<which, meta, exited, weightedOnly, flexyOnly, migrateOnly>>
  \/ which = "migrate" /\ Migrate!MigNext
     /\ UNCHANGED <<which, shared, weightedOnly, flexyOnly, balanceOnly>>

wvars == Weighted!vars

\* Of the three schedulers, only the weighted scheduler never loses a token.
Fairness ==
  /\ WF_wvars(which = "weighted" /\ ~exited /\ Weighted!Worker(w1))
  /\ WF_wvars(which = "weighted" /\ ~exited /\ Weighted!IssueSignal)

Spec == Init /\ [][Next]_vars /\ Fairness

(* A VAQ that the weighted scheduler tracks is in one place, no task is     *)
(* free of charge, and credits do not drift.                                *)
TrackedOnce ==
  which = "weighted" => Weighted!TypeOK /\ Weighted!TrackedOnce /\ Weighted!CreditsBounded

(* Under the weighted scheduler what has tasks and a weight is served.      *)
WeightedServed ==
  \A v \in {"v1", "v2", "v3"} :
    (which = "weighted" /\ Weighted!Servable(v)) ~> (which = "weighted" /\ Weighted!ServedOrStuck(v))

(* Under the flexible scheduler a VAQ has one server, who serves in order.  *)
OneServer == which = "flexy" => Flexy!FlexTypeOK /\ Flexy!OneServer

(* The proactive policy of the flexible scheduler leaves users the first    *)
(* accelerator, the reactive one respects what an accelerator is dedicated  *)
(* to, although two workers with tasks of one client may spoil its sums.    *)
PolicyKept == which = "flexy" => Flexy!PolicyKept

(* The load balancer counts what it gave to each worker, and the loads      *)
(* differ by one and by what was released since.                            *)
Balanced == which = "balance" => Balance!LoadCounted /\ Balance!Balanced

(* Data follow their virtual accelerator: a task that runs finds the last   *)
(* version of its inputs on its device, data->phys names the device that    *)
(* data->remote is on, and the devices together are charged for what they   *)
(* hold.                                                                    *)
DataFollow ==
  which = "migrate" => Migrate!FreshData /\ Migrate!RemoteOnPhys /\ Migrate!ChargedTogether
==============================================================================
