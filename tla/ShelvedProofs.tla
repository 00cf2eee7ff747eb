--------------------------- MODULE ShelvedProofs ----------------------------
(***************************************************************************)
(* What is in the repository and not in the build, for any number of       *)
(* accelerators, virtual accelerators and tasks.                           *)
(***************************************************************************)
EXTENDS Migration, Sequences, FiniteSets, FiniteSetTheorems,
        WellFoundedInduction, TLAPS

CONSTANTS Accels, AllVaqs, NULL,
  Initial, UserVaqs, BatchVaqs, VaqCid, SlaFiles, Thresholds, Sla, Durations, Policies, MaxSem,
  Workers, Vaqs, Cid, Procs, WeightFiles, ReductionFiles, Beyond, Comment, Missing

VARIABLES queue, sem, owed, issued, assignee, wpc, pos, task, life, phys, counter,
  policy, pref, rr, metrics, meta, req, dur, exited,
  num, cid, vectorClientState, units, mtx, high, low, seen, inserted, sel

Bal == INSTANCE LoadBalance
Flex == INSTANCE FlexyRR
Wrr == INSTANCE WeightedRR

-----------------------------------------------------------------------------
(* LoadBalance *)

(* The operators of the modules that LoadBalance extends are the usual ones. *)
LEMMA BalanceSets ==
  ASSUME NEW S
  PROVE  (Bal!IsFiniteSet(S) <=> IsFiniteSet(S)) /\ Bal!Cardinality(S) = Cardinality(S)
BY DEF Bal!IsFiniteSet, Bal!Cardinality, IsFiniteSet, Cardinality

LEMMA BalanceInit ==
  ASSUME Bal!BalAssumption, Bal!BalInit
  PROVE  Bal!BalInv
<1>1. DOMAIN counter = {} /\ Bal!BalTypeOK /\ Bal!RegisteredFirst
  BY DEF Bal!BalInit, Bal!BalTypeOK, Bal!RegisteredFirst
<1> QED BY <1>1 DEF Bal!BalInit, Bal!BalInv, Bal!LoadCounted

(* What a worker was given is a number of VAQs.                            *)
LEMMA GivenFinite ==
  ASSUME Bal!BalAssumption, NEW w
  PROVE  IsFiniteSet({v \in Bal!Vaqs : assignee[v] = w}) /\ Bal!Given(w) \in Nat
<1>0. IsFiniteSet(Bal!Vaqs)
  <2>1. DOMAIN AllVaqs = 1 .. Len(AllVaqs) /\ Len(AllVaqs) \in Nat
    BY DEF Bal!BalAssumption
  <2>2. IsFiniteSet(DOMAIN AllVaqs)
    BY <2>1, FS_Interval
  <2>3. AllVaqs \in Surjection(DOMAIN AllVaqs, Bal!Vaqs)
    BY <2>1 DEF Bal!BalAssumption, Bal!Vaqs, Surjection
  <2> QED BY <2>2, <2>3, FS_Surjection
<1>1. {v \in Bal!Vaqs : assignee[v] = w} \subseteq Bal!Vaqs
  OBVIOUS
<1>2. IsFiniteSet({v \in Bal!Vaqs : assignee[v] = w})
  BY <1>0, <1>1, FS_Subset
<1> QED BY <1>2, FS_CardinalityType, BalanceSets DEF Bal!Given

(* Steps that leave the assignment and the counts alone.                   *)
LEMMA BalanceFrame ==
  ASSUME Bal!BalInv, UNCHANGED <<assignee, phys, counter>>, Bal!BalTypeOK', Bal!RegisteredFirst'
  PROVE  Bal!BalInv'
<1>1. \A w : Bal!Given(w)' = Bal!Given(w)
  BY DEF Bal!Given
<1> QED BY <1>1 DEF Bal!BalInv, Bal!LoadCounted

(* The VAQ goes to a worker that has no more than any other.               *)
LEMMA BalanceAssign ==
  ASSUME Bal!BalAssumption, Bal!BalInv, NEW v \in Bal!Vaqs, NEW w \in Bal!Workers,
         Bal!AssignVaq(w, v), UNCHANGED <<life, wpc, sem, owed>>, DOMAIN counter = Bal!Workers,
         pos' \in [Bal!Workers -> Nat],
         \A x \in Bal!Workers : wpc[x] \in {"assign", "select"} => pos'[x] > 0
  PROVE  Bal!BalInv'
<1> USE DEF Bal!BalInv, Bal!LoadCounted
<1>1. CASE assignee[v] # NULL
  <2>1. UNCHANGED <<assignee, counter>> /\ phys' = [phys EXCEPT ![v] = assignee[v]]
    BY <1>1 DEF Bal!AssignVaq
  <2>2. \A x : Bal!Given(x)' = Bal!Given(x)
    BY <2>1 DEF Bal!Given
  <2>3. \A u \in Bal!Vaqs : phys'[u] = assignee'[u]
    BY <2>1 DEF Bal!BalTypeOK
  <2>4. Bal!BalTypeOK' /\ Bal!RegisteredFirst'
    BY <2>1 DEF Bal!BalTypeOK, Bal!RegisteredFirst
  <2> QED BY <2>1, <2>2, <2>3, <2>4
<1>2. CASE assignee[v] = NULL
  <2>1. PICK th \in Bal!getMin :
          /\ assignee' = [assignee EXCEPT ![v] = th]
          /\ phys' = [phys EXCEPT ![v] = th]
          /\ counter' = [counter EXCEPT ![th] = @ + 1]
    BY <1>2 DEF Bal!AssignVaq
  <2>2. th \in Bal!Workers /\ th # NULL /\ \A x \in Bal!Workers : counter[th] <= counter[x]
    BY DEF Bal!getMin, Bal!BalAssumption
  <2>3. /\ assignee \in [Bal!Vaqs -> Bal!Workers \cup {NULL}]
        /\ phys \in [Bal!Vaqs -> Bal!Workers \cup {NULL}]
        /\ counter \in [Bal!Workers -> Nat]
    BY DEF Bal!BalTypeOK
  <2>4. /\ assignee' \in [Bal!Vaqs -> Bal!Workers \cup {NULL}]
        /\ phys' \in [Bal!Vaqs -> Bal!Workers \cup {NULL}]
        /\ counter' \in [Bal!Workers -> Nat] /\ DOMAIN counter' = Bal!Workers
        /\ counter'[th] = counter[th] + 1
        /\ \A x \in Bal!Workers : x # th => counter'[x] = counter[x]
    BY <2>1, <2>2, <2>3
  <2>5. Bal!BalTypeOK'
    BY <2>4 DEF Bal!BalTypeOK
  <2>6. Bal!RegisteredFirst'
    BY <2>4 DEF Bal!RegisteredFirst
  <2>7. Bal!Given(th)' = Bal!Given(th) + 1
    <3>1. {u \in Bal!Vaqs : assignee'[u] = th} = {u \in Bal!Vaqs : assignee[u] = th} \cup {v}
      BY <2>1, <2>3
    <3>2. v \notin {u \in Bal!Vaqs : assignee[u] = th}
      BY <1>2, <2>2
    <3> DEFINE S == {u \in Bal!Vaqs : assignee[u] = th}
    <3>3. IsFiniteSet(S) /\ v \notin S
      BY <3>2, GivenFinite
    <3> HIDE DEF S
    <3>4. Cardinality(S \cup {v}) = Cardinality(S) + 1
      BY <3>3, FS_AddElement
    <3> QED BY <3>1, <3>4, BalanceSets DEF Bal!Given, S
  <2>8. ASSUME NEW x \in Bal!Workers, x # th PROVE Bal!Given(x)' = Bal!Given(x)
    <3>1. {u \in Bal!Vaqs : assignee'[u] = x} = {u \in Bal!Vaqs : assignee[u] = x}
      BY <1>2, <2>1, <2>3, <2>8 DEF Bal!BalAssumption
    <3> QED BY <3>1 DEF Bal!Given
  <2>9. \A x \in Bal!Workers : counter'[x] = Bal!Given(x)'
    BY <2>4, <2>7, <2>8
  <2>10. \A x, y \in Bal!Workers : counter'[x] <= counter'[y] + 1
    BY <2>2, <2>3, <2>4
  <2>11. \A u \in Bal!Vaqs : phys'[u] = assignee'[u]
    BY <2>1, <2>3
  <2> QED BY <2>4, <2>5, <2>6, <2>9, <2>10, <2>11
<1> QED BY <1>1, <1>2

(* A worker registers: its count is zero, like all others.                 *)
LEMMA BalanceSetup ==
  ASSUME Bal!BalAssumption, Bal!BalInv, NEW w \in Bal!Workers, Bal!accelThreadSetup(w)
  PROVE  Bal!BalInv'
<1> USE DEF Bal!BalInv, Bal!LoadCounted
<1>1. /\ wpc[w] = "setup" /\ w \notin DOMAIN counter /\ DOMAIN counter # Bal!Workers
      /\ DOMAIN counter' = DOMAIN counter \cup {w}
      /\ counter'[w] = 0 /\ (\A x \in DOMAIN counter : counter'[x] = counter[x])
      /\ wpc' = [wpc EXCEPT ![w] = "wait"]
      /\ UNCHANGED <<life, assignee, phys, pos, sem, owed>>
  BY DEF Bal!accelThreadSetup, Bal!Goto, Bal!RegisteredFirst
<1>2. counter' \in [DOMAIN counter' -> Nat]
  BY <1>1 DEF Bal!accelThreadSetup, Bal!BalTypeOK
<1>3. \A x : Bal!Given(x)' = Bal!Given(x)
  BY <1>1 DEF Bal!Given
<1>4. Bal!Given(w) = 0
  <2>1. {v \in Bal!Vaqs : assignee[v] = w} = {}
    BY <1>1 DEF Bal!BalTypeOK, Bal!BalAssumption
  <2> QED BY <2>1, FS_EmptySet, BalanceSets DEF Bal!Given
<1>5. Bal!BalTypeOK'
  BY <1>1, <1>2 DEF Bal!BalTypeOK
<1>6. Bal!RegisteredFirst'
  BY <1>1 DEF Bal!RegisteredFirst, Bal!BalTypeOK
<1>7. \A x \in DOMAIN counter' : counter'[x] = 0
  BY <1>1 DEF Bal!RegisteredFirst
<1> QED BY <1>1, <1>3, <1>4, <1>5, <1>6, <1>7

LEMMA BalanceStep ==
  ASSUME Bal!BalAssumption, Bal!BalInv, [Bal!BalNext]_(Bal!lbvars)
  PROVE  Bal!BalInv'
<1> USE DEF Bal!BalTypeOK, Bal!RegisteredFirst, Bal!Goto
<1>0. Bal!BalTypeOK /\ Bal!RegisteredFirst
  BY DEF Bal!BalInv
<1>1. ASSUME NEW w \in Bal!Workers, Bal!Wait(w) PROVE Bal!BalInv'
  BY <1>0, <1>1, BalanceFrame DEF Bal!Wait
<1>2. ASSUME NEW w \in Bal!Workers, Bal!assignVaqToTh(w) PROVE Bal!BalInv'
  <2>1. /\ DOMAIN counter = Bal!Workers /\ pos' \in [Bal!Workers -> Nat]
        /\ \A x \in Bal!Workers : wpc[x] \in {"assign", "select"} => pos'[x] > 0
    <3>1. DOMAIN counter = Bal!Workers
      BY <1>0, <1>2 DEF Bal!assignVaqToTh
    <3>2. pos' = [pos EXCEPT ![w] = @ + 1] \/ pos' = [pos EXCEPT ![w] = 1]
      BY <1>2 DEF Bal!assignVaqToTh
    <3> QED BY <1>0, <3>1, <3>2
  <2>2. CASE pos[w] <= Len(AllVaqs)
    <3>1. /\ Bal!AssignVaq(w, AllVaqs[pos[w]]) \/ UNCHANGED <<assignee, phys, counter>>
          /\ UNCHANGED <<life, wpc, sem, owed>>
      BY <1>2, <2>2 DEF Bal!assignVaqToTh
    <3>2. AllVaqs[pos[w]] \in Bal!Vaqs
      <4>1. pos[w] \in 1 .. Len(AllVaqs) /\ DOMAIN AllVaqs = 1 .. Len(AllVaqs)
        BY <1>0, <1>2, <2>2 DEF Bal!assignVaqToTh, Bal!BalAssumption
      <4> QED BY <4>1 DEF Bal!Vaqs
    <3>3. CASE UNCHANGED <<assignee, phys, counter>>
      BY <1>0, <2>1, <3>1, <3>3, BalanceFrame
    <3> QED BY <2>1, <3>1, <3>2, <3>3, BalanceAssign
  <2>3. CASE ~(pos[w] <= Len(AllVaqs))
    BY <1>0, <1>2, <2>1, <2>3, BalanceFrame DEF Bal!assignVaqToTh
  <2> QED BY <2>2, <2>3
<1>3. ASSUME NEW w \in Bal!Workers, Bal!selectTask(w) PROVE Bal!BalInv'
  <2>1. \/ pos' = [pos EXCEPT ![w] = 0] /\ wpc' = [wpc EXCEPT ![w] = "wait"]
        \/ pos' = [pos EXCEPT ![w] = 0] /\ wpc' = [wpc EXCEPT ![w] = "run"]
        \/ pos' = [pos EXCEPT ![w] = @ + 1] /\ wpc' = wpc
    BY <1>3 DEF Bal!selectTask
  <2>2. wpc[w] = "select" /\ UNCHANGED <<life, assignee, phys, counter, sem, owed>>
    BY <1>3 DEF Bal!selectTask
  <2>3. Bal!BalTypeOK'
    BY <1>0, <2>1, <2>2
  <2>4. Bal!RegisteredFirst'
    BY <1>0, <2>1, <2>2
  <2> QED BY <2>2, <2>3, <2>4, BalanceFrame
<1>4. ASSUME NEW w \in Bal!Workers, Bal!Run(w) PROVE Bal!BalInv'
  BY <1>0, <1>4, BalanceFrame DEF Bal!Run
<1>5. ASSUME NEW v \in Bal!Vaqs, Bal!IssuePush(v) PROVE Bal!BalInv'
  BY <1>0, <1>5, BalanceFrame DEF Bal!IssuePush
<1>6. CASE Bal!IssueSignal
  BY <1>0, <1>6, BalanceFrame DEF Bal!IssueSignal
<1>7. CASE UNCHANGED Bal!lbvars
  BY <1>0, <1>7, BalanceFrame DEF Bal!lbvars
<1>8. ASSUME NEW v \in Bal!Vaqs, Bal!Acquire(v) \/ Bal!Release(v) PROVE Bal!BalInv'
  <2>1. /\ DOMAIN counter = Bal!Workers
        /\ life' = [life EXCEPT ![v] = "there"] \/ life' = [life EXCEPT ![v] = "gone"]
        /\ UNCHANGED <<assignee, phys, counter, sem, owed, wpc, pos>>
    BY <1>0, <1>8 DEF Bal!Acquire, Bal!Release
  <2> QED BY <1>0, <2>1, BalanceFrame
<1> QED BY <1>1, <1>2, <1>3, <1>4, <1>5, <1>6, <1>7, <1>8, BalanceSetup DEF Bal!BalNext

(* physAccelJobCounter counts what each worker was ever given, and phys    *)
(* agrees with the assignee, however the workers that assign interleave    *)
(* and whatever is released meanwhile.                                     *)
THEOREM BalanceLoads ==
  ASSUME Bal!BalAssumption
  PROVE  Bal!BalSpec => []Bal!LoadCounted
<1>1. Bal!BalInit => Bal!BalInv
  BY BalanceInit
<1>2. Bal!BalInv /\ [Bal!BalNext]_(Bal!lbvars) => Bal!BalInv'
  BY BalanceStep
<1>3. Bal!BalInv => Bal!LoadCounted
  BY DEF Bal!BalInv
<1> QED BY <1>1, <1>2, <1>3, PTL DEF Bal!BalSpec

(* What a worker was given is what it has and what was released of it.     *)
LEMMA GivenSplit ==
  ASSUME Bal!BalAssumption, NEW w
  PROVE  /\ Bal!Load(w) \in Nat /\ Bal!Released(w) \in Nat
         /\ Bal!Given(w) = Bal!Load(w) + Bal!Released(w)
<1> DEFINE G == {v \in Bal!Vaqs : assignee[v] = w}
           L == {v \in Bal!Vaqs : assignee[v] = w /\ life[v] = "there"}
           R == {v \in Bal!Vaqs : assignee[v] = w /\ life[v] # "there"}
<1>1. IsFiniteSet(G)
  BY GivenFinite
<1>2. G = L \cup R /\ L \cap R = {} /\ L \subseteq G /\ R \subseteq G
  OBVIOUS
<1>3. /\ Bal!Given(w) = Cardinality(G) /\ Bal!Load(w) = Cardinality(L)
      /\ Bal!Released(w) = Cardinality(R)
  BY BalanceSets DEF Bal!Given, Bal!Load, Bal!Released
<1> HIDE DEF G, L, R
<1>4. IsFiniteSet(L) /\ IsFiniteSet(R)
  BY <1>1, <1>2, FS_Subset
<1>5. Cardinality(L) \in Nat /\ Cardinality(R) \in Nat
  BY <1>4, FS_CardinalityType
<1>6. Cardinality(L \cup R) = Cardinality(L) + Cardinality(R) - Cardinality(L \cap R)
  BY <1>4, FS_Union
<1>7. Cardinality(L \cap R) = 0
  BY <1>2, FS_EmptySet
<1> QED BY <1>2, <1>3, <1>5, <1>6, <1>7

(* The loads of two workers differ by no more than one and the VAQs that   *)
(* were released of the one with less: physAccelJobCounter still counts    *)
(* those.                                                                  *)
THEOREM BalanceBalanced ==
  ASSUME Bal!BalAssumption
  PROVE  Bal!BalSpec => []Bal!Balanced
<1>1. Bal!BalInit => Bal!BalInv
  BY BalanceInit
<1>2. Bal!BalInv /\ [Bal!BalNext]_(Bal!lbvars) => Bal!BalInv'
  BY BalanceStep
<1>3. Bal!BalInv => Bal!Balanced
  <2> SUFFICES ASSUME Bal!BalInv, NEW w \in Bal!Workers, NEW x \in Bal!Workers
               PROVE  Bal!Load(w) <= Bal!Load(x) + Bal!Released(x) + 1
    BY DEF Bal!Balanced
  <2>1. /\ Bal!Load(w) \in Nat /\ Bal!Released(w) \in Nat
        /\ Bal!Given(w) = Bal!Load(w) + Bal!Released(w)
    BY GivenSplit
  <2>2. /\ Bal!Load(x) \in Nat /\ Bal!Released(x) \in Nat
        /\ Bal!Given(x) = Bal!Load(x) + Bal!Released(x)
    BY GivenSplit
  <2>3. CASE DOMAIN counter = Bal!Workers
    <3>1. Bal!Given(w) <= Bal!Given(x) + 1
      BY <2>3 DEF Bal!BalInv, Bal!LoadCounted
    <3> QED BY <2>1, <2>2, <3>1
  <2>4. CASE DOMAIN counter # Bal!Workers
    <3>1. Bal!Given(w) = 0
      <4>1. CASE w \in DOMAIN counter
        BY <2>4, <4>1 DEF Bal!BalInv, Bal!LoadCounted, Bal!RegisteredFirst
      <4>2. CASE w \notin DOMAIN counter
        <5>1. {v \in Bal!Vaqs : assignee[v] = w} = {}
          BY <4>2 DEF Bal!BalInv, Bal!BalTypeOK, Bal!BalAssumption
        <5> QED BY <5>1, FS_EmptySet, BalanceSets DEF Bal!Given
      <4> QED BY <4>1, <4>2
    <3> QED BY <2>1, <2>2, <3>1
  <2> QED BY <2>3, <2>4
<1> QED BY <1>1, <1>2, <1>3, PTL DEF Bal!BalSpec

-----------------------------------------------------------------------------
(* Migration *)

LEMMA MigrationInit ==
  ASSUME MigAssumption, MigInit
  PROVE  MigInv
<1>1. MigTypeOK
  BY DEF MigInit, MigTypeOK
<1>2. ASSUME NEW d \in Data PROVE DataOK(d)
  BY DEF MigInit, DataOK
<1>3. ASSUME NEW a \in Devices PROVE ServeOK(a)
  BY DEF MigInit, ServeOK
<1> QED BY <1>1, <1>2, <1>3 DEF MigInv

(* The data of two tasks that are served are different.                    *)
LEMMA OwnData ==
  ASSUME MigAssumption, MigInv, NEW a \in Devices, NEW b \in Devices, a # b,
         mpc[a] # "select", mpc[b] # "select", NEW d \in All(job[a])
  PROVE  d \notin All(job[b]) /\ d \in Data /\ vphys[Accel[d]] = a
<1>1. /\ job[a] \in Jobs /\ vphys[job[a].vac] = a
      /\ job[b] \in Jobs /\ vphys[job[b].vac] = b
  BY DEF MigInv, ServeOK
<1> QED BY <1>1 DEF MigAssumption

LEMMA OwnDevice ==
  ASSUME MigAssumption, MigInv, NEW a \in Devices, mpc[a] # "select", NEW d \in io[a]
  PROVE  /\ d \in Data /\ d \in All(job[a]) /\ vphys[Accel[d]] = a
         /\ job[a] \in Jobs /\ DataOK(d) /\ a # None
<1>1. job[a] \in Jobs /\ vphys[job[a].vac] = a /\ d \in All(job[a])
  BY DEF MigInv, ServeOK
<1> QED BY <1>1 DEF MigAssumption, MigInv

(* What a worker does to one of its data does not concern the others.      *)
LEMMA OthersServe ==
  ASSUME MigAssumption, MigInv, NEW a \in Devices, mpc[a] # "select", NEW d \in io[a],
         NEW b \in Devices, b # a, UNCHANGED vphys,
         mpc'[b] = mpc[b], io'[b] = io[b], job'[b] = job[b],
         \A e \in Data : e # d => dphys'[e] = dphys[e]
  PROVE  ServeOK(b)'
<1>1. CASE mpc[b] = "select"
  BY <1>1 DEF ServeOK
<1>2. CASE mpc[b] # "select"
  <2>1. d \notin All(job[b])
    BY <1>2, OwnData, OwnDevice
  <2>2. ServeOK(b) /\ All(job[b]) \subseteq Data
    BY <1>2 DEF MigInv, ServeOK, MigAssumption
  <2> QED BY <2>1, <2>2 DEF ServeOK
<1> QED BY <1>1, <1>2

(* A worker is done with d, or begins its next loop.                       *)
LEMMA Advances ==
  ASSUME MigTypeOK, NEW a \in Devices, NEW d, NEW l \in {"to", "outs", "execute"}, NEW ds \in SUBSET Data,
         Advance(a, d, l, ds)
  PROVE  /\ mpc' \in [Devices -> {"select", "from", "to", "outs", "execute"}]
         /\ io' \in [Devices -> SUBSET Data]
         /\ \A b \in Devices : b # a => mpc'[b] = mpc[b] /\ io'[b] = io[b]
         /\ \/ io[a] = {d} /\ mpc'[a] = l /\ io'[a] = ds
            \/ mpc'[a] = mpc[a] /\ io'[a] = io[a] \ {d}
<1>1. CASE io[a] = {d}
  <2>1. mpc' = [mpc EXCEPT ![a] = l] /\ io' = [io EXCEPT ![a] = ds]
    BY <1>1 DEF Advance
  <2> QED BY <1>1, <2>1 DEF MigTypeOK
<1>2. CASE io[a] # {d}
  <2>1. io' = [io EXCEPT ![a] = @ \ {d}] /\ mpc' = mpc
    BY <1>2 DEF Advance
  <2> QED BY <2>1 DEF MigTypeOK
<1> QED BY <1>1, <1>2

(* A buffer that another device has is copied to the segment and freed.    *)
LEMMA FromOther ==
  ASSUME MigAssumption, MigTypeOK, NEW d \in Data, DataOK(d), dphys[d] # None,
         sync_from_remote(Holder(d), d), free_remote(Holder(d), d), UNCHANGED <<copy, latest>>
  PROVE  /\ DataOK(d)' /\ (Size[d] > 0 => dphys'[d] = None)
         /\ \A e \in Data : e # d => dphys'[e] = dphys[e] /\ mem'[e] = mem[e] /\ host'[e] = host[e]
         /\ dphys' \in [Data -> Devices \cup {None}] /\ mem' \in [Data -> Devices \cup {None}]
         /\ host' \in [Data -> Nat]
<1> DEFINE h == dphys[d]
<1>1. h \in Devices /\ Kind[h] \in {"cpu", "gpu", "hip", "opencl"}
  BY DEF MigTypeOK, MigAssumption
<1>2. Size[d] \in Nat
  BY DEF MigAssumption
<1>3. CASE Kind[h] = "cpu"
  <2>1. UNCHANGED <<host, mem>> /\ dphys' = [dphys EXCEPT ![d] = None]
    BY <1>3 DEF sync_from_remote, free_remote, cpu_sync_from_remote, cpu_free_remote, Credit, Holder
  <2>2. mem[d] = None
    BY <1>3 DEF DataOK
  <2> QED BY <1>2, <2>1, <2>2 DEF MigTypeOK, DataOK
<1>4. CASE Kind[h] # "cpu"
  <2>1. FromCopy(d) /\ FreeMem(d)
    BY <1>1, <1>4 DEF sync_from_remote, free_remote, gpu_sync_from_remote, gpu_free_remote,
                      hip_sync_from_remote, hip_free_remote, opencl_sync_from_remote,
                      opencl_free_remote, Holder
  <2>2. CASE mem[d] = None
    <3>1. UNCHANGED <<host, dphys, mem>> /\ ~(Size[d] > 0)
      BY <1>4, <2>1, <2>2 DEF FromCopy, FreeMem, DataOK
    <3> QED BY <2>2, <3>1 DEF MigTypeOK, DataOK
  <2>3. CASE mem[d] # None
    <3>1. /\ host' = [host EXCEPT ![d] = copy[d]]
          /\ dphys' = [dphys EXCEPT ![d] = None] /\ mem' = [mem EXCEPT ![d] = None]
      BY <2>1, <2>3 DEF FromCopy, FreeMem, Credit
    <3>2. latest[d] = copy[d]
      BY <2>3 DEF DataOK
    <3> QED BY <1>2, <3>1, <3>2 DEF MigTypeOK, DataOK
  <2> QED BY <2>2, <2>3
<1> QED BY <1>3, <1>4

(* MigInv of the next state, from its parts.                               *)
LEMMA OneDatum ==
  ASSUME MigAssumption, MigInv, NEW a \in Devices, mpc[a] # "select", NEW d \in io[a],
         UNCHANGED <<vphys, job>>, MigTypeOK', DataOK(d)', ServeOK(a)',
         \A b \in Devices : b # a => mpc'[b] = mpc[b] /\ io'[b] = io[b],
         \A e \in Data : e # d => /\ dphys'[e] = dphys[e] /\ mem'[e] = mem[e]
                                  /\ host'[e] = host[e] /\ copy'[e] = copy[e]
                                  /\ latest'[e] = latest[e]
  PROVE  MigInv'
<1>1. ASSUME NEW e \in Data PROVE DataOK(e)'
  <2>1. CASE e # d
    BY <2>1 DEF MigInv, DataOK
  <2> QED BY <2>1
<1>2. ASSUME NEW b \in Devices PROVE ServeOK(b)'
  BY OthersServe
<1> QED BY <1>1, <1>2 DEF MigInv

LEMMA FromStep ==
  ASSUME MigAssumption, MigInv, NEW a \in Devices, migrateFromRemote(a)
  PROVE  MigInv'
<1>0. MigTypeOK /\ mpc[a] = "from" /\ UNCHANGED <<vphys, copy, latest, job>>
  BY DEF MigInv, migrateFromRemote
<1>1. PICK d \in io[a] :
        /\ Advance(a, d, "to", All(job[a]))
        /\ IF Holder(d) \in {None, a}
             THEN UNCHANGED <<host, dphys, mem>>
             ELSE sync_from_remote(Holder(d), d) /\ free_remote(Holder(d), d)
  BY DEF migrateFromRemote
<1>2. /\ d \in Data /\ d \in All(job[a]) /\ DataOK(d) /\ a # None
      /\ job[a] \in Jobs /\ All(job[a]) \subseteq Data
  BY <1>0, OwnDevice DEF MigAssumption
<1>3. /\ mpc' \in [Devices -> {"select", "from", "to", "outs", "execute"}]
      /\ io' \in [Devices -> SUBSET Data]
      /\ \A b \in Devices : b # a => mpc'[b] = mpc[b] /\ io'[b] = io[b]
      /\ \/ io[a] = {d} /\ mpc'[a] = "to" /\ io'[a] = All(job[a])
         \/ mpc'[a] = mpc[a] /\ io'[a] = io[a] \ {d}
  BY <1>0, <1>1, <1>2, Advances
<1>4. /\ DataOK(d)' /\ (Size[d] > 0 => dphys'[d] \in {None, a})
      /\ \A e \in Data : e # d => dphys'[e] = dphys[e] /\ mem'[e] = mem[e] /\ host'[e] = host[e]
      /\ dphys' \in [Data -> Devices \cup {None}] /\ mem' \in [Data -> Devices \cup {None}]
      /\ host' \in [Data -> Nat]
  <2>1. CASE Holder(d) \in {None, a}
    BY <1>0, <1>1, <1>2, <2>1 DEF Holder, DataOK, MigTypeOK
  <2>2. CASE Holder(d) \notin {None, a}
    <3>1. dphys[d] # None
      BY <2>2 DEF Holder
    <3> QED BY <1>0, <1>1, <1>2, <2>2, <3>1, FromOther
  <2> QED BY <2>1, <2>2
<1>5. MigTypeOK'
  BY <1>0, <1>3, <1>4 DEF MigTypeOK
<1>6. ServeOK(a)'
  <2>1. ServeOK(a)
    BY DEF MigInv
  <2>2. io'[a] \subseteq All(job[a])
    BY <1>0, <1>3, <2>1 DEF ServeOK
  <2>3. ASSUME NEW e \in All(job[a]), Size[e] > 0
        PROVE  /\ mpc'[a] = "from" /\ e \notin io'[a] => dphys'[e] \in {None, a}
               /\ mpc'[a] = "to" => dphys'[e] = a \/ (e \in io'[a] /\ dphys'[e] = None)
    <3>1. e \notin io[a] => dphys[e] \in {None, a}
      BY <1>0, <2>1, <2>3 DEF ServeOK
    <3> QED BY <1>0, <1>2, <1>3, <1>4, <2>3, <3>1
  <2>4. mpc'[a] \in {"from", "to"}
    BY <1>0, <1>3
  <2> QED BY <1>0, <1>2, <2>1, <2>2, <2>3, <2>4 DEF ServeOK
<1> QED BY <1>0, <1>3, <1>4, <1>5, <1>6, OneDatum

(* A buffer that no device has is allocated on the worker's.               *)
LEMMA Allocates ==
  ASSUME MigAssumption, MigTypeOK, NEW a \in Devices, NEW d \in Data, vphys[Accel[d]] = a,
         alloc_remote(a, d),
         mem[d] = None \/ (mem[d] = a /\ dphys[d] = a /\ Kind[a] # "cpu" /\ Size[d] > 0)
  PROVE  /\ dphys'[d] = a
         /\ mem'[d] = IF Kind[a] = "cpu" \/ Size[d] = 0 THEN None ELSE a
         /\ \A e \in Data : e # d => dphys'[e] = dphys[e] /\ mem'[e] = mem[e]
         /\ dphys' \in [Data -> Devices \cup {None}] /\ mem' \in [Data -> Devices \cup {None}]
<1> USE DEF MigTypeOK
<1>0. Size[d] \in Nat
  BY DEF MigAssumption
<1>1. CASE Kind[a] = "cpu"
  <2>1. dphys' = [dphys EXCEPT ![d] = a] /\ mem' = mem
    BY <1>1 DEF alloc_remote, Charge
  <2> QED BY <1>1, <2>1
<1>2. CASE Kind[a] # "cpu" /\ mem[d] # None
  <2>1. UNCHANGED <<dphys, mem>>
    BY <1>2 DEF alloc_remote
  <2> QED BY <1>0, <1>2, <2>1
<1>3. CASE Kind[a] # "cpu" /\ mem[d] = None
  <2>1. dphys' = [dphys EXCEPT ![d] = a] /\ Malloc(a, d)
    BY <1>3 DEF alloc_remote, Charge
  <2> QED BY <1>3, <2>1 DEF Malloc
<1> QED BY <1>1, <1>2, <1>3

LEMMA ToStep ==
  ASSUME MigAssumption, MigInv, NEW a \in Devices, migrateToRemote(a)
  PROVE  MigInv'
<1>0. MigTypeOK /\ mpc[a] = "to" /\ UNCHANGED <<vphys, host, latest, job>>
  BY DEF MigInv, migrateToRemote
<1>1. PICK d \in io[a] :
        /\ Advance(a, d, AfterTo(job[a].outs), job[a].outs)
        /\ IF Holder(d) # a
             THEN alloc_remote(a, d) /\ sync_to_remote(a, d)
             ELSE UNCHANGED <<dphys, mem, copy>>
  BY DEF migrateToRemote
<1>2. /\ d \in Data /\ d \in All(job[a]) /\ DataOK(d) /\ a # None /\ vphys[Accel[d]] = a
      /\ job[a] \in Jobs /\ All(job[a]) \subseteq Data /\ job[a].outs \subseteq All(job[a])
  BY <1>0, OwnDevice DEF MigAssumption, All
<1>3. /\ mpc' \in [Devices -> {"select", "from", "to", "outs", "execute"}]
      /\ io' \in [Devices -> SUBSET Data]
      /\ \A b \in Devices : b # a => mpc'[b] = mpc[b] /\ io'[b] = io[b]
      /\ \/ io[a] = {d} /\ mpc'[a] \in {"outs", "execute"} /\ io'[a] = job[a].outs
         \/ mpc'[a] = mpc[a] /\ io'[a] = io[a] \ {d}
  <2> DEFINE Moves(l) ==
        /\ mpc' \in [Devices -> {"select", "from", "to", "outs", "execute"}]
        /\ io' \in [Devices -> SUBSET Data]
        /\ \A b \in Devices : b # a => mpc'[b] = mpc[b] /\ io'[b] = io[b]
        /\ \/ io[a] = {d} /\ mpc'[a] = l /\ io'[a] = job[a].outs
           \/ mpc'[a] = mpc[a] /\ io'[a] = io[a] \ {d}
  <2>1. job[a].outs \in SUBSET Data
    BY <1>2
  <2>2. CASE job[a].outs = {}
    <3>1. Advance(a, d, "execute", job[a].outs)
      BY <1>1, <2>2 DEF AfterTo
    <3>2. Moves("execute")
      BY <1>0, <2>1, <3>1, Advances
    <3> QED BY <3>2
  <2>3. CASE job[a].outs # {}
    <3>1. Advance(a, d, "outs", job[a].outs)
      BY <1>1, <2>3 DEF AfterTo
    <3>2. Moves("outs")
      BY <1>0, <2>1, <3>1, Advances
    <3> QED BY <3>2
  <2> QED BY <2>2, <2>3
<1>4. ServeOK(a)
  BY DEF MigInv
<1>5. /\ DataOK(d)' /\ (Size[d] > 0 => dphys'[d] = a)
      /\ \A e \in Data : e # d => dphys'[e] = dphys[e] /\ mem'[e] = mem[e] /\ copy'[e] = copy[e]
      /\ dphys' \in [Data -> Devices \cup {None}] /\ mem' \in [Data -> Devices \cup {None}]
      /\ copy' \in [Data -> Nat]
  <2>1. CASE Holder(d) = a
    BY <1>0, <1>1, <1>2, <2>1 DEF Holder, DataOK, MigTypeOK
  <2>2. CASE Holder(d) # a
    <3>1. mem[d] = None
      BY <1>0, <1>2, <1>4, <2>2 DEF Holder, DataOK, ServeOK
    <3>2. /\ dphys'[d] = a
          /\ mem'[d] = IF Kind[a] = "cpu" \/ Size[d] = 0 THEN None ELSE a
          /\ \A e \in Data : e # d => dphys'[e] = dphys[e] /\ mem'[e] = mem[e]
          /\ dphys' \in [Data -> Devices \cup {None}] /\ mem' \in [Data -> Devices \cup {None}]
      BY <1>0, <1>1, <1>2, <2>2, <3>1, Allocates
    <3>3. copy' = IF Kind[a] = "cpu" THEN copy ELSE [copy EXCEPT ![d] = host[d]]
      <4>1. Kind[a] \in {"cpu", "gpu", "hip", "opencl"}
        BY DEF MigAssumption
      <4> QED BY <1>1, <2>2, <4>1
        DEF sync_to_remote, cpu_sync_to_remote, gpu_sync_to_remote, hip_sync_to_remote,
            opencl_sync_to_remote, ToCopy
    <3>4. copy' \in [Data -> Nat] /\ \A e \in Data : e # d => copy'[e] = copy[e]
      BY <1>0, <1>2, <3>3 DEF MigTypeOK
    <3>5. DataOK(d)'
      <4>1. Size[d] > 0 => latest[d] = host[d]
        BY <1>2, <3>1 DEF DataOK
      <4>2. Kind[a] # "cpu" => copy'[d] = host[d]
        BY <1>0, <1>2, <3>3 DEF MigTypeOK
      <4>3. Size[d] \in Nat
        BY <1>2 DEF MigAssumption
      <4> QED BY <1>0, <1>2, <3>2, <4>1, <4>2, <4>3 DEF DataOK
    <3> QED BY <3>2, <3>4, <3>5
  <2> QED BY <2>1, <2>2
<1>6. MigTypeOK'
  BY <1>0, <1>3, <1>5 DEF MigTypeOK
<1>7. ServeOK(a)'
  <2>1. io'[a] \subseteq All(job[a])
    BY <1>0, <1>2, <1>3, <1>4 DEF ServeOK
  <2>2. ASSUME NEW e \in All(job[a]), Size[e] > 0
        PROVE  /\ mpc'[a] = "to" => dphys'[e] = a \/ (e \in io'[a] /\ dphys'[e] = None)
               /\ mpc'[a] \in {"outs", "execute"} => dphys'[e] = a
    <3>1. dphys[e] = a \/ (e \in io[a] /\ dphys[e] = None)
      BY <1>0, <1>4, <2>2 DEF ServeOK
    <3> QED BY <1>0, <1>2, <1>3, <1>5, <2>2, <3>1
  <2>3. mpc'[a] \in {"to", "outs", "execute"}
    BY <1>0, <1>3
  <2> QED BY <1>0, <1>2, <1>4, <2>1, <2>2, <2>3 DEF ServeOK
<1> QED BY <1>0, <1>3, <1>5, <1>6, <1>7, OneDatum

LEMMA OutputsStep ==
  ASSUME MigAssumption, MigInv, NEW a \in Devices, AllocOutputs(a)
  PROVE  MigInv'
<1>0. MigTypeOK /\ mpc[a] = "outs" /\ UNCHANGED <<vphys, host, copy, latest, job>>
  BY DEF MigInv, AllocOutputs
<1>1. PICK d \in io[a] : Advance(a, d, "execute", {}) /\ alloc_remote(a, d)
  BY DEF AllocOutputs
<1>2. /\ d \in Data /\ d \in All(job[a]) /\ DataOK(d) /\ a # None /\ vphys[Accel[d]] = a
      /\ job[a] \in Jobs /\ All(job[a]) \subseteq Data /\ Size[d] \in Nat
  BY <1>0, OwnDevice DEF MigAssumption
<1>3. /\ mpc' \in [Devices -> {"select", "from", "to", "outs", "execute"}]
      /\ io' \in [Devices -> SUBSET Data]
      /\ \A b \in Devices : b # a => mpc'[b] = mpc[b] /\ io'[b] = io[b]
      /\ \/ io[a] = {d} /\ mpc'[a] = "execute" /\ io'[a] = {}
         \/ mpc'[a] = mpc[a] /\ io'[a] = io[a] \ {d}
  <2>1. "execute" \in {"to", "outs", "execute"} /\ {} \in SUBSET Data
    OBVIOUS
  <2>2. Advance(a, d, "execute", {})
    BY <1>1
  <2> QED BY <1>0, <2>1, <2>2, Advances
<1>4. ServeOK(a) /\ (Size[d] > 0 => dphys[d] = a)
  BY <1>0, <1>2 DEF MigInv, ServeOK
<1>5. mem[d] = None \/ (mem[d] = a /\ dphys[d] = a /\ Kind[a] # "cpu" /\ Size[d] > 0)
  BY <1>2, <1>4 DEF DataOK
<1>6. /\ dphys'[d] = a
      /\ mem'[d] = IF Kind[a] = "cpu" \/ Size[d] = 0 THEN None ELSE a
      /\ \A e \in Data : e # d => dphys'[e] = dphys[e] /\ mem'[e] = mem[e]
      /\ dphys' \in [Data -> Devices \cup {None}] /\ mem' \in [Data -> Devices \cup {None}]
  BY <1>0, <1>1, <1>2, <1>5, Allocates
<1>7. DataOK(d)'
  BY <1>0, <1>2, <1>4, <1>6 DEF DataOK
<1>8. MigTypeOK'
  BY <1>0, <1>3, <1>6 DEF MigTypeOK
<1>9. ServeOK(a)'
  <2>1. io'[a] \subseteq All(job[a])
    BY <1>0, <1>3, <1>4 DEF ServeOK
  <2>2. ASSUME NEW e \in All(job[a]), Size[e] > 0 PROVE dphys'[e] = a
    BY <1>0, <1>2, <1>4, <1>6, <2>2 DEF ServeOK
  <2> QED BY <1>0, <1>2, <1>3, <1>4, <2>1, <2>2 DEF ServeOK
<1> QED BY <1>0, <1>3, <1>6, <1>7, <1>8, <1>9, OneDatum

(* The kernel writes where the last version is.                            *)
LEMMA ExecuteStep ==
  ASSUME MigAssumption, MigInv, NEW a \in Devices, executeOperation(a)
  PROVE  MigInv'
<1> DEFINE outs == job[a].outs
           Written(f) == [d \in Data |-> IF d \in outs THEN latest[d] + 1 ELSE f[d]]
<1>0. /\ MigTypeOK /\ mpc[a] = "execute" /\ ServeOK(a)
      /\ UNCHANGED <<vphys, dphys, mem, io>>
      /\ job' = [job EXCEPT ![a] = NoJob] /\ mpc' = [mpc EXCEPT ![a] = "select"]
  BY DEF MigInv, executeOperation
<1>1. job[a] \in Jobs /\ outs \subseteq All(job[a]) /\ All(job[a]) \subseteq Data
  BY <1>0 DEF ServeOK, MigAssumption, All
<1>2. /\ latest' = Written(latest)
      /\ host' = IF Kind[a] = "cpu" THEN Written(host) ELSE host
      /\ copy' = IF Kind[a] = "cpu" THEN copy ELSE Written(copy)
  <2>1. \A d \in outs : [e \in outs |-> latest[e] + 1][d] = latest[d] + 1
    OBVIOUS
  <2> QED BY <2>1 DEF executeOperation
<1>3. MigTypeOK'
  BY <1>0, <1>2 DEF MigTypeOK
<1>4. ASSUME NEW d \in Data PROVE DataOK(d)'
  <2>1. DataOK(d)
    BY DEF MigInv
  <2>2. CASE d \in outs
    <3>1. Size[d] > 0 => dphys[d] = a
      BY <1>0, <1>1, <2>2 DEF ServeOK
    <3>2. a # None
      BY DEF MigAssumption
    <3>3. /\ latest'[d] = latest[d] + 1
          /\ Kind[a] = "cpu" => host'[d] = latest[d] + 1
          /\ Kind[a] # "cpu" => copy'[d] = latest[d] + 1
      BY <1>2, <2>2
    <3> QED BY <1>0, <2>1, <3>1, <3>2, <3>3 DEF DataOK
  <2>3. CASE d \notin outs
    <3>1. latest'[d] = latest[d] /\ host'[d] = host[d] /\ copy'[d] = copy[d]
      BY <1>2, <2>3
    <3> QED BY <1>0, <2>1, <3>1 DEF DataOK
  <2> QED BY <2>2, <2>3
<1>5. ASSUME NEW b \in Devices PROVE ServeOK(b)'
  <2>1. ServeOK(b)
    BY DEF MigInv
  <2>2. CASE b = a
    BY <1>0, <2>2 DEF ServeOK, MigTypeOK
  <2>3. CASE b # a
    <3>1. mpc'[b] = mpc[b] /\ job'[b] = job[b]
      BY <1>0, <2>3 DEF MigTypeOK
    <3> QED BY <1>0, <2>1, <3>1 DEF ServeOK
  <2> QED BY <2>2, <2>3
<1> QED BY <1>3, <1>4, <1>5 DEF MigInv

(* A worker that serves no task gives a virtual accelerator up.            *)
LEMMA GiveUpStep ==
  ASSUME MigAssumption, MigInv, NEW v \in Vacs, GiveUp(v)
  PROVE  MigInv'
<1>0. /\ MigTypeOK /\ vphys[v] # None /\ mpc[vphys[v]] = "select"
      /\ vphys' = [vphys EXCEPT ![v] = None]
      /\ UNCHANGED <<dphys, mem, host, copy, latest, mpc, io, job>>
  BY DEF MigInv, GiveUp, buffers
<1>1. MigTypeOK'
  BY <1>0 DEF MigTypeOK
<1>2. ASSUME NEW d \in Data PROVE DataOK(d)'
  BY <1>0 DEF MigInv, DataOK
<1>3. ASSUME NEW a \in Devices PROVE ServeOK(a)'
  <2>1. SUFFICES ASSUME mpc[a] # "select" PROVE ServeOK(a)'
    BY <1>0 DEF ServeOK
  <2>2. ServeOK(a) /\ job[a] \in Jobs /\ job[a].vac \in Vacs /\ vphys[job[a].vac] = a
    BY <2>1 DEF MigInv, ServeOK, MigAssumption
  <2>3. vphys'[job[a].vac] = a
    BY <1>0, <2>1, <2>2 DEF MigTypeOK
  <2> QED BY <1>0, <2>2, <2>3 DEF ServeOK
<1> QED BY <1>1, <1>2, <1>3 DEF MigInv

LEMMA AssignStep ==
  ASSUME MigAssumption, MigInv, NEW v \in Vacs, NEW b \in Devices, assignVac(v, b)
  PROVE  MigInv'
<1>0. /\ MigTypeOK /\ vphys[v] = None /\ vphys' = [vphys EXCEPT ![v] = b]
      /\ UNCHANGED <<dphys, mem, host, copy, latest, mpc, io, job>>
  BY DEF MigInv, assignVac, buffers
<1>1. MigTypeOK'
  BY <1>0 DEF MigTypeOK
<1>2. ASSUME NEW d \in Data PROVE DataOK(d)'
  BY <1>0 DEF MigInv, DataOK
<1>3. ASSUME NEW a \in Devices PROVE ServeOK(a)'
  <2>1. SUFFICES ASSUME mpc[a] # "select" PROVE ServeOK(a)'
    BY <1>0 DEF ServeOK
  <2>2. ServeOK(a) /\ job[a] \in Jobs /\ job[a].vac \in Vacs /\ vphys[job[a].vac] = a
    BY <2>1 DEF MigInv, ServeOK, MigAssumption
  <2>3. vphys'[job[a].vac] = a
    BY <1>0, <2>2 DEF MigTypeOK, MigAssumption
  <2> QED BY <1>0, <2>2, <2>3 DEF ServeOK
<1> QED BY <1>1, <1>2, <1>3 DEF MigInv

LEMMA SelectStep ==
  ASSUME MigAssumption, MigInv, NEW a \in Devices, NEW j \in Jobs, selectTask(a, j)
  PROVE  MigInv'
<1>0. /\ MigTypeOK /\ vphys[j.vac] = a /\ job' = [job EXCEPT ![a] = j]
      /\ mpc' = [mpc EXCEPT ![a] = "from"] /\ io' = [io EXCEPT ![a] = All(j)]
      /\ UNCHANGED <<vphys, dphys, mem, host, copy, latest>>
  BY DEF MigInv, selectTask, buffers
<1>1. All(j) \subseteq Data
  BY DEF MigAssumption
<1>2. MigTypeOK'
  BY <1>0, <1>1 DEF MigTypeOK
<1>3. ASSUME NEW d \in Data PROVE DataOK(d)'
  BY <1>0 DEF MigInv, DataOK
<1>4. ASSUME NEW b \in Devices PROVE ServeOK(b)'
  <2>1. CASE b = a
    <3>1. mpc'[b] = "from" /\ job'[b] = j /\ io'[b] = All(j)
      BY <1>0, <2>1 DEF MigTypeOK
    <3> QED BY <1>0, <2>1, <3>1 DEF ServeOK
  <2>2. CASE b # a
    <3>1. mpc'[b] = mpc[b] /\ job'[b] = job[b] /\ io'[b] = io[b]
      BY <1>0, <2>2 DEF MigTypeOK
    <3> QED BY <1>0, <3>1 DEF ServeOK, MigInv
  <2> QED BY <2>1, <2>2
<1> QED BY <1>2, <1>3, <1>4 DEF MigInv

(* Every step of the controller's workers and of its balancer.             *)
LEMMA MigrationStep ==
  ASSUME MigAssumption, MigInv, [MigNext]_mvars
  PROVE  MigInv'
<1>1. CASE UNCHANGED mvars
  BY <1>1 DEF mvars, buffers, MigInv, MigTypeOK, DataOK, ServeOK
<1>2. CASE MigNext
  <2>1. \/ \E v \in Vacs : GiveUp(v) \/ \E a \in Devices : assignVac(v, a)
        \/ \E a \in Devices : Serve(a) \/ \E j \in Jobs : selectTask(a, j)
        \/ UNCHANGED mvars
    BY <1>2 DEF MigNext, Quiet
  <2>2. CASE \E v \in Vacs : GiveUp(v) \/ \E a \in Devices : assignVac(v, a)
    BY <2>2, GiveUpStep, AssignStep
  <2>3. CASE \E a \in Devices : Serve(a) \/ \E j \in Jobs : selectTask(a, j)
    BY <2>3, SelectStep, FromStep, ToStep, OutputsStep, ExecuteStep DEF Serve
  <2> QED BY <1>1, <2>1, <2>2, <2>3
<1> QED BY <1>1, <1>2

(* A task finds the last version of its data on its device, whichever      *)
(* devices held them before: migrateFromRemote copies before it frees and  *)
(* migrateToRemote copies what it allocates.                               *)
THEOREM MigrationFresh ==
  ASSUME MigAssumption
  PROVE  MigSpec => []FreshData
<1>1. MigInit => MigInv
  BY MigrationInit
<1>2. MigInv /\ [MigNext]_mvars => MigInv'
  BY MigrationStep
<1>3. MigInv => FreshData
  <2>1. SUFFICES ASSUME MigInv, NEW a \in Devices, mpc[a] = "execute",
                        NEW d \in All(job[a]), Size[d] > 0
                 PROVE  latest[d] = IF Kind[a] = "cpu" THEN host[d] ELSE copy[d]
    BY DEF FreshData
  <2>2. job[a] \in Jobs /\ dphys[d] = a
    BY <2>1 DEF MigInv, ServeOK
  <2>3. d \in Data /\ a # None
    BY <2>2 DEF MigAssumption
  <2>4. DataOK(d)
    BY <2>1, <2>3 DEF MigInv
  <2> QED BY <2>1, <2>2, <2>3, <2>4 DEF DataOK
<1> QED BY <1>1, <1>2, <1>3, PTL DEF MigSpec

(* data->phys, from which the next migration takes the thread that copies, *)
(* is the device that data->remote is an allocation of.                    *)
THEOREM MigrationRemote ==
  ASSUME MigAssumption
  PROVE  MigSpec => []RemoteOnPhys
<1>1. MigInit => MigInv
  BY MigrationInit
<1>2. MigInv /\ [MigNext]_mvars => MigInv'
  BY MigrationStep
<1>3. MigInv => RemoteOnPhys
  BY DEF MigInv, DataOK, RemoteOnPhys
<1> QED BY <1>1, <1>2, <1>3, PTL DEF MigSpec

-----------------------------------------------------------------------------
(* FlexyRR *)

USE DEF Flex!Busy

LEMMA ServeInit ==
  ASSUME Flex!FlexAssumption, Flex!FlexInit
  PROVE  Flex!ServeInv
<1>0. /\ policy \in Policies /\ issued = 0 /\ queue = [v \in Flex!AllVaqs |-> <<>>]
      /\ assignee = [v \in Flex!AllVaqs |-> NULL] /\ rr = [user |-> 0, batch |-> 0]
      /\ wpc = [a \in Flex!Workers |-> "wait"] /\ pos = [a \in Flex!Workers |-> 0]
      /\ task = [a \in Flex!Workers |-> NULL]
  BY DEF Flex!FlexInit
<1>1. Flex!ServeTyped
  BY <1>0 DEF Flex!FlexAssumption, Flex!ServeTyped, Flex!Labels
<1>2. ASSUME NEW v \in Flex!AllVaqs PROVE Flex!QueueOK(v)
  BY DEF Flex!FlexInit, Flex!QueueOK
<1>3. ASSUME NEW w \in Flex!Workers
      PROVE  Flex!Place(w) /\ wpc[w] = "wait" /\ task[w] = NULL
  BY DEF Flex!FlexInit, Flex!Place
<1> QED BY <1>1, <1>2, <1>3 DEF Flex!ServeInv

(* A worker w goes on while what the VAQs have stays as it is.             *)
LEMMA ServeQuiet ==
  ASSUME Flex!FlexAssumption, Flex!ServeInv, NEW w \in Flex!Workers,
         UNCHANGED <<policy, queue, issued, assignee, rr>>,
         wpc' \in [Flex!Workers -> Flex!Labels], pos' \in [Flex!Workers -> Nat],
         task' \in [Flex!Workers -> (Flex!AllVaqs \X Nat) \cup {NULL}],
         \A x \in Flex!Workers : x # w => wpc'[x] = wpc[x] /\ pos'[x] = pos[x] /\ task'[x] = task[x],
         Flex!Place(w)',
         IF wpc'[w] \in Flex!Busy
           THEN wpc[w] \in Flex!Busy /\ task'[w] = task[w]
           ELSE task'[w] = NULL
  PROVE  Flex!ServeInv'
<1>1. Flex!ServeTyped'
  BY DEF Flex!ServeInv, Flex!ServeTyped
<1>2. ASSUME NEW v \in Flex!AllVaqs PROVE Flex!QueueOK(v)'
  BY DEF Flex!ServeInv, Flex!QueueOK
<1>3. ASSUME NEW x \in Flex!Workers
      PROVE  Flex!Place(x)' /\ IF wpc'[x] \in Flex!Busy THEN Flex!Oldest(x)' ELSE task'[x] = NULL
  <2>1. CASE x # w
    <3>1. Flex!Place(x) /\ IF wpc[x] \in Flex!Busy THEN Flex!Oldest(x) ELSE task[x] = NULL
      BY DEF Flex!ServeInv
    <3> QED BY <2>1, <3>1 DEF Flex!Place, Flex!Oldest
  <2>2. CASE x = w
    <3>1. wpc[w] \in Flex!Busy => Flex!Oldest(w)
      BY DEF Flex!ServeInv
    <3> QED BY <2>2, <3>1 DEF Flex!Oldest
  <2> QED BY <2>1, <2>2
<1> QED BY <1>1, <1>2, <1>3 DEF Flex!ServeInv

(* The steps of a worker that take no task.                                *)
LEMMA ServeControl ==
  ASSUME Flex!FlexAssumption, Flex!ServeInv, NEW w \in Flex!Workers,
         \/ Flex!Wait(w) \/ Flex!Reactive(w) \/ Flex!Proactive(w) \/ Flex!SetPreference(w)
         \/ Flex!AskUser(w) \/ Flex!AskBatch(w) \/ Flex!postTaskExecution(w)
         \/ Flex!ReadSum(w) \/ Flex!Subtract(w) \/ Flex!Add(w)
  PROVE  Flex!ServeInv'
<1>0. /\ policy \in {"none", "proactive", "reactive"}
      /\ wpc \in [Flex!Workers -> Flex!Labels] /\ pos \in [Flex!Workers -> Nat]
      /\ task \in [Flex!Workers -> (Flex!AllVaqs \X Nat) \cup {NULL}]
  BY DEF Flex!ServeInv, Flex!ServeTyped
<1>1. Flex!Place(w) /\ (wpc[w] \notin Flex!Busy => task[w] = NULL)
  BY DEF Flex!ServeInv
<1>2. Len(UserVaqs) \in Nat /\ Len(BatchVaqs) \in Nat
  BY DEF Flex!FlexAssumption
<1>3. CASE Flex!Wait(w)
  <2>1. /\ wpc[w] = "wait" /\ UNCHANGED <<policy, queue, issued, assignee, rr, pos, task>>
        /\ wpc' = [wpc EXCEPT ![w] = IF policy = "none" THEN "user?" ELSE policy]
    BY <1>3 DEF Flex!Wait, Flex!Goto
  <2>2. wpc'[w] \in {"user?", "proactive", "reactive"} /\ wpc' \in [Flex!Workers -> Flex!Labels]
    BY <1>0, <2>1 DEF Flex!Labels
  <2> QED BY <1>0, <1>1, <2>1, <2>2, ServeQuiet DEF Flex!Place
<1>4. CASE Flex!Reactive(w)
  <2>1. /\ wpc[w] = "reactive" /\ UNCHANGED <<policy, queue, issued, assignee, rr, pos, task>>
        /\ wpc' = [wpc EXCEPT ![w] = "user?"]
    BY <1>4 DEF Flex!Reactive, Flex!Goto
  <2>2. wpc'[w] = "user?" /\ wpc' \in [Flex!Workers -> Flex!Labels]
    BY <1>0, <2>1 DEF Flex!Labels
  <2> QED BY <1>0, <1>1, <2>1, <2>2, ServeQuiet DEF Flex!Place
<1>5. CASE Flex!Proactive(w)
  <2>1. /\ wpc[w] = "proactive" /\ UNCHANGED <<policy, queue, issued, assignee, rr, task>>
        /\ wpc' = [wpc EXCEPT ![w] = "set"] /\ pos' = [pos EXCEPT ![w] = 1]
    BY <1>5 DEF Flex!Proactive, Flex!Goto
  <2>2. wpc'[w] = "set" /\ wpc' \in [Flex!Workers -> Flex!Labels]
    BY <1>0, <2>1 DEF Flex!Labels
  <2> QED BY <1>0, <1>1, <2>1, <2>2, ServeQuiet DEF Flex!Place
<1>6. CASE Flex!SetPreference(w)
  <2>1. wpc[w] = "set" /\ UNCHANGED <<policy, queue, issued, assignee, rr, task>>
    BY <1>6 DEF Flex!SetPreference
  <2>2. CASE pos[w] <= Len(Accels)
    <3>1. pos' = [pos EXCEPT ![w] = pos[w] + 1] /\ wpc' = wpc
      BY <1>6, <2>2 DEF Flex!SetPreference
    <3> QED BY <1>0, <1>1, <2>1, <3>1, ServeQuiet DEF Flex!Place
  <2>3. CASE ~(pos[w] <= Len(Accels))
    <3>1. pos' = [pos EXCEPT ![w] = 0] /\ wpc' = [wpc EXCEPT ![w] = "user?"]
      BY <1>6, <2>3 DEF Flex!SetPreference, Flex!Goto
    <3>2. wpc'[w] = "user?" /\ pos'[w] = 0 /\ wpc' \in [Flex!Workers -> Flex!Labels]
      BY <1>0, <3>1 DEF Flex!Labels
    <3> QED BY <1>0, <1>1, <2>1, <3>1, <3>2, ServeQuiet DEF Flex!Place
  <2> QED BY <2>2, <2>3
<1>7. CASE Flex!AskUser(w)
  <2>1. /\ wpc[w] = "user?" /\ UNCHANGED <<policy, queue, issued, assignee, rr, pos, task>>
        /\ wpc' = [wpc EXCEPT ![w] = "user"] \/ wpc' = [wpc EXCEPT ![w] = "batch?"]
    BY <1>7 DEF Flex!AskUser, Flex!Goto
  <2>2. wpc'[w] \in {"user", "batch?"} /\ wpc' \in [Flex!Workers -> Flex!Labels]
    BY <1>0, <2>1 DEF Flex!Labels
  <2> QED BY <1>0, <1>1, <1>2, <2>1, <2>2, ServeQuiet DEF Flex!Place
<1>8. CASE Flex!AskBatch(w)
  <2>1. /\ wpc[w] = "batch?" /\ UNCHANGED <<policy, queue, issued, assignee, rr, pos, task>>
        /\ wpc' = [wpc EXCEPT ![w] = "batch"] \/ wpc' = [wpc EXCEPT ![w] = "wait"]
    BY <1>8 DEF Flex!AskBatch, Flex!Goto
  <2>2. wpc'[w] \in {"batch", "wait"} /\ wpc' \in [Flex!Workers -> Flex!Labels]
    BY <1>0, <2>1 DEF Flex!Labels
  <2> QED BY <1>0, <1>1, <1>2, <2>1, <2>2, ServeQuiet DEF Flex!Place
<1>9. CASE Flex!postTaskExecution(w)
  <2>1. /\ wpc[w] = "run" /\ UNCHANGED <<policy, queue, issued, assignee, rr, pos, task>>
        /\ wpc' = [wpc EXCEPT ![w] = "read"]
    BY <1>9 DEF Flex!postTaskExecution, Flex!Goto
  <2>2. wpc'[w] = "read" /\ wpc' \in [Flex!Workers -> Flex!Labels]
    BY <1>0, <2>1 DEF Flex!Labels
  <2> QED BY <1>0, <1>1, <2>1, <2>2, ServeQuiet DEF Flex!Place
<1>10. CASE Flex!Add(w)
  <2>1. /\ wpc[w] = "add" /\ UNCHANGED <<policy, queue, issued, assignee, rr, pos>>
        /\ wpc' = [wpc EXCEPT ![w] = "wait"] /\ task' = [task EXCEPT ![w] = NULL]
    BY <1>10 DEF Flex!Add, Flex!Goto
  <2>2. wpc'[w] = "wait" /\ wpc' \in [Flex!Workers -> Flex!Labels]
    BY <1>0, <2>1 DEF Flex!Labels
  <2> QED BY <1>0, <1>1, <2>1, <2>2, ServeQuiet DEF Flex!Place
<1>11. CASE Flex!ReadSum(w) \/ Flex!Subtract(w)
  <2>1. /\ wpc[w] \in {"read", "subtract"}
        /\ UNCHANGED <<policy, queue, issued, assignee, rr, pos, task>>
        /\ wpc' = [wpc EXCEPT ![w] = "subtract"] \/ wpc' = [wpc EXCEPT ![w] = "add"]
    BY <1>11 DEF Flex!ReadSum, Flex!Subtract, Flex!Goto
  <2>2. wpc'[w] \in {"subtract", "add"} /\ wpc' \in [Flex!Workers -> Flex!Labels]
    BY <1>0, <2>1 DEF Flex!Labels
  <2> QED BY <1>0, <1>1, <2>1, <2>2, ServeQuiet DEF Flex!Place
<1> QED BY <1>3, <1>4, <1>5, <1>6, <1>7, <1>8, <1>9, <1>10, <1>11

(* An issued task is younger than all others.                              *)
LEMMA ServeIssue ==
  ASSUME Flex!FlexAssumption, Flex!ServeInv, NEW v \in Flex!AllVaqs, Flex!IssuePush(v)
  PROVE  Flex!ServeInv'
<1>0. /\ queue' = [queue EXCEPT ![v] = Append(queue[v], issued)] /\ issued' = issued + 1
      /\ UNCHANGED <<policy, assignee, rr, wpc, pos, task>>
      /\ queue \in [Flex!AllVaqs -> Seq(Nat)] /\ issued \in Nat
      /\ task \in [Flex!Workers -> (Flex!AllVaqs \X Nat) \cup {NULL}]
  BY DEF Flex!IssuePush, Flex!ServeInv, Flex!ServeTyped
<1>1. /\ queue' \in [Flex!AllVaqs -> Seq(Nat)]
      /\ \A u \in Flex!AllVaqs : u # v => queue'[u] = queue[u]
      /\ queue'[v] = Append(queue[v], issued)
  BY <1>0
<1>2. Flex!ServeTyped'
  BY <1>0, <1>1 DEF Flex!ServeInv, Flex!ServeTyped
<1>3. ASSUME NEW u \in Flex!AllVaqs PROVE Flex!QueueOK(u)'
  <2>1. Flex!QueueOK(u) /\ queue[u] \in Seq(Nat)
    BY <1>0 DEF Flex!ServeInv
  <2>2. CASE u # v
    BY <1>0, <1>1, <2>1, <2>2 DEF Flex!QueueOK
  <2>3. CASE u = v
    <3>1. Len(queue'[u]) = Len(queue[u]) + 1 /\ queue'[u][Len(queue[u]) + 1] = issued
      BY <1>1, <2>1, <2>3
    <3>2. \A i \in 1 .. Len(queue[u]) : queue'[u][i] = queue[u][i] /\ queue[u][i] \in Nat
      <4>1. ASSUME NEW s \in Seq(Nat), NEW i \in 1 .. Len(s)
            PROVE  Append(s, issued)[i] = s[i] /\ s[i] \in Nat
        OBVIOUS
      <4> QED BY <1>1, <2>1, <2>3, <4>1
    <3> QED BY <1>0, <2>1, <3>1, <3>2 DEF Flex!QueueOK
  <2> QED BY <2>2, <2>3
<1>4. ASSUME NEW w \in Flex!Workers
      PROVE  Flex!Place(w)' /\ IF wpc'[w] \in Flex!Busy THEN Flex!Oldest(w)' ELSE task'[w] = NULL
  <2>1. Flex!Place(w)' /\ (wpc[w] \notin Flex!Busy => task'[w] = NULL)
    BY <1>0 DEF Flex!ServeInv, Flex!Place
  <2>2. ASSUME wpc[w] \in Flex!Busy PROVE Flex!Oldest(w)'
    <3>1. Flex!Oldest(w)
      BY <2>2 DEF Flex!ServeInv
    <3> DEFINE u == task[w][1]
    <3>2. u \in Flex!AllVaqs /\ queue[u] \in Seq(Nat) /\ task[w][2] \in Nat
      BY <1>0, <3>1 DEF Flex!Oldest
    <3>3. \A i \in 1 .. Len(queue'[u]) : queue'[u][i] > task[w][2]
      BY <1>0, <1>1, <3>1, <3>2 DEF Flex!Oldest
    <3> QED BY <1>0, <3>1, <3>2, <3>3 DEF Flex!Oldest
  <2> QED BY <1>0, <2>1, <2>2
<1> QED BY <1>2, <1>3, <1>4 DEF Flex!ServeInv

(* The shared index stays in the array.                                    *)
LEMMA IndexWraps ==
  ASSUME NEW x \in Nat, NEW n \in Nat \ {0}
  PROVE  (x + 1) % n \in Nat /\ (x + 1) % n < n
OBVIOUS

(* A worker looks at a VAQ: it takes the head of the queue of one that is  *)
(* its own, or now becomes so.                                             *)
LEMMA ServePick ==
  ASSUME Flex!FlexAssumption, Flex!ServeInv, NEW w \in Flex!Workers,
         NEW kind, NEW vaqs, NEW otherwise \in {"batch?", "wait"},
         \/ kind = "user" /\ vaqs = UserVaqs
         \/ kind = "batch" /\ vaqs = BatchVaqs,
         Flex!Pick(w, kind, vaqs, otherwise)
  PROVE  Flex!ServeInv'
<1>0. /\ wpc[w] = kind /\ UNCHANGED <<policy, issued>>
      /\ wpc \in [Flex!Workers -> Flex!Labels] /\ pos \in [Flex!Workers -> Nat]
      /\ task \in [Flex!Workers -> (Flex!AllVaqs \X Nat) \cup {NULL}]
      /\ queue \in [Flex!AllVaqs -> Seq(Nat)] /\ issued \in Nat
      /\ assignee \in [Flex!AllVaqs -> Flex!Workers \cup {NULL}]
  BY DEF Flex!Pick, Flex!ServeInv, Flex!ServeTyped
<1>1. /\ vaqs \in Seq(Flex!AllVaqs) /\ Len(vaqs) \in Nat /\ pos[w] \in Nat /\ pos[w] <= Len(vaqs)
      /\ rr[kind] \in Nat /\ (Len(vaqs) # 0 => rr[kind] < Len(vaqs))
  <2>1. Flex!Place(w)
    BY DEF Flex!ServeInv
  <2>2. vaqs \in Seq(Flex!AllVaqs) /\ pos[w] <= Len(vaqs)
    BY <1>0, <2>1 DEF Flex!FlexAssumption, Flex!Place
  <2>3. rr[kind] \in Nat /\ (vaqs # <<>> => rr[kind] < Len(vaqs))
    BY DEF Flex!ServeInv, Flex!ServeTyped
  <2> QED BY <1>0, <2>2, <2>3
<1>2. CASE pos[w] = Len(vaqs)
  <2>1. /\ pos' = [pos EXCEPT ![w] = 0] /\ wpc' = [wpc EXCEPT ![w] = otherwise]
        /\ UNCHANGED <<rr, assignee, queue, task>>
    BY <1>2 DEF Flex!Pick, Flex!Goto
  <2>2. wpc'[w] \in {"batch?", "wait"} /\ pos'[w] = 0 /\ wpc' \in [Flex!Workers -> Flex!Labels]
    BY <1>0, <2>1 DEF Flex!Labels
  <2>3. task[w] = NULL
    BY <1>0 DEF Flex!ServeInv
  <2> QED BY <1>0, <2>1, <2>2, <2>3, ServeQuiet DEF Flex!Place
<1>3. CASE pos[w] # Len(vaqs)
  <2> DEFINE v == vaqs[rr[kind] + 1]
             mine == Flex!TestSetAssignee(w, v)
  <2>1. /\ rr' = [rr EXCEPT ![kind] = (rr[kind] + 1) % Len(vaqs)]
        /\ assignee' = IF mine THEN [assignee EXCEPT ![v] = w] ELSE assignee
        /\ IF mine /\ queue[v] # <<>>
             THEN /\ task' = [task EXCEPT ![w] = <<v, Head(queue[v])>>]
                  /\ queue' = [queue EXCEPT ![v] = Tail(queue[v])]
                  /\ pos' = [pos EXCEPT ![w] = 0] /\ wpc' = [wpc EXCEPT ![w] = "run"]
             ELSE pos' = [pos EXCEPT ![w] = pos[w] + 1] /\ UNCHANGED <<task, queue, wpc>>
    BY <1>3 DEF Flex!Pick, Flex!Goto
  <2>2. Len(vaqs) \in Nat \ {0} /\ v \in Flex!AllVaqs /\ queue[v] \in Seq(Nat)
    <3>1. Len(vaqs) \in Nat \ {0} /\ rr[kind] + 1 \in 1 .. Len(vaqs)
      BY <1>1, <1>3
    <3> QED BY <1>0, <1>1, <3>1
  <2>3. /\ rr' \in [user : Nat, batch : Nat]
        /\ (UserVaqs # <<>> => rr'.user < Len(UserVaqs))
        /\ (BatchVaqs # <<>> => rr'.batch < Len(BatchVaqs))
    <3>1. (rr[kind] + 1) % Len(vaqs) \in Nat /\ (rr[kind] + 1) % Len(vaqs) < Len(vaqs)
      BY <1>1, <2>2, IndexWraps
    <3>2. /\ rr \in [user : Nat, batch : Nat]
          /\ (UserVaqs # <<>> => rr.user < Len(UserVaqs))
          /\ (BatchVaqs # <<>> => rr.batch < Len(BatchVaqs))
      BY DEF Flex!ServeInv, Flex!ServeTyped
    <3> QED BY <2>1, <3>1, <3>2
  <2>4. mine => assignee[v] \in {NULL, w}
    BY DEF Flex!TestSetAssignee
  <2> HIDE DEF v, mine
  <2>5. /\ assignee' \in [Flex!AllVaqs -> Flex!Workers \cup {NULL}]
        /\ \A u \in Flex!AllVaqs : assignee[u] \in Flex!Workers => assignee'[u] = assignee[u]
        /\ mine => assignee'[v] = w
    BY <1>0, <2>1, <2>2, <2>4 DEF Flex!FlexAssumption
  <2>6. ASSUME NEW x \in Flex!Workers, wpc[x] \in Flex!Busy
        PROVE  Flex!Oldest(x) /\ assignee'[task[x][1]] = x /\ task[x][1] \in Flex!AllVaqs
    <3>1. Flex!Oldest(x)
      BY <2>6 DEF Flex!ServeInv
    <3> QED BY <2>5, <3>1 DEF Flex!Oldest
  <2>7. CASE ~(mine /\ queue[v] # <<>>)
    <3>1. pos' = [pos EXCEPT ![w] = pos[w] + 1] /\ UNCHANGED <<task, queue, wpc>>
      BY <2>1, <2>7
    <3>2. Flex!ServeTyped'
      BY <1>0, <2>3, <2>5, <3>1 DEF Flex!ServeInv, Flex!ServeTyped
    <3>3. ASSUME NEW u \in Flex!AllVaqs PROVE Flex!QueueOK(u)'
      BY <1>0, <3>1 DEF Flex!ServeInv, Flex!QueueOK
    <3>4. ASSUME NEW x \in Flex!Workers
          PROVE  Flex!Place(x)' /\ IF wpc'[x] \in Flex!Busy THEN Flex!Oldest(x)' ELSE task'[x] = NULL
      <4>1. Flex!Place(x) /\ (wpc[x] \notin Flex!Busy => task[x] = NULL)
        BY DEF Flex!ServeInv
      <4>2. Flex!Place(x)'
        BY <1>0, <1>1, <1>3, <3>1, <4>1 DEF Flex!Place
      <4>3. wpc[x] \in Flex!Busy => Flex!Oldest(x)'
        BY <1>0, <2>6, <3>1 DEF Flex!Oldest
      <4> QED BY <3>1, <4>1, <4>2, <4>3
    <3> QED BY <3>2, <3>3, <3>4 DEF Flex!ServeInv
  <2>8. CASE mine /\ queue[v] # <<>>
    <3>1. /\ task' = [task EXCEPT ![w] = <<v, Head(queue[v])>>]
          /\ queue' = [queue EXCEPT ![v] = Tail(queue[v])]
          /\ pos' = [pos EXCEPT ![w] = 0] /\ wpc' = [wpc EXCEPT ![w] = "run"]
      BY <2>1, <2>8
    <3>2. /\ Head(queue[v]) \in Nat /\ Head(queue[v]) = queue[v][1] /\ Len(queue[v]) > 0
          /\ Tail(queue[v]) \in Seq(Nat) /\ Len(Tail(queue[v])) = Len(queue[v]) - 1
          /\ \A i \in 1 .. Len(queue[v]) - 1 : Tail(queue[v])[i] = queue[v][i + 1]
          /\ \A i \in 1 .. Len(queue[v]) : queue[v][i] \in Nat
      <4>1. ASSUME NEW s \in Seq(Nat), s # <<>>
            PROVE  /\ Head(s) \in Nat /\ Head(s) = s[1] /\ Len(s) > 0
                   /\ Tail(s) \in Seq(Nat) /\ Len(Tail(s)) = Len(s) - 1
                   /\ \A i \in 1 .. Len(s) - 1 : Tail(s)[i] = s[i + 1]
                   /\ \A i \in 1 .. Len(s) : s[i] \in Nat
        BY <4>1
      <4> QED BY <2>2, <2>8, <4>1
    <3>3. /\ queue' \in [Flex!AllVaqs -> Seq(Nat)] /\ queue'[v] = Tail(queue[v])
          /\ \A u \in Flex!AllVaqs : u # v => queue'[u] = queue[u]
      BY <1>0, <2>2, <3>1, <3>2
    <3>4. /\ wpc' \in [Flex!Workers -> Flex!Labels] /\ pos' \in [Flex!Workers -> Nat]
          /\ task' \in [Flex!Workers -> (Flex!AllVaqs \X Nat) \cup {NULL}]
          /\ wpc'[w] = "run" /\ pos'[w] = 0 /\ task'[w] = <<v, Head(queue[v])>>
          /\ \A x \in Flex!Workers : x # w => wpc'[x] = wpc[x] /\ pos'[x] = pos[x] /\ task'[x] = task[x]
      BY <1>0, <2>2, <3>1, <3>2 DEF Flex!Labels
    <3>5. Flex!ServeTyped'
      BY <1>0, <2>3, <2>5, <3>3, <3>4 DEF Flex!ServeInv, Flex!ServeTyped
    <3>6. ASSUME NEW u \in Flex!AllVaqs PROVE Flex!QueueOK(u)'
      <4>1. Flex!QueueOK(u)
        BY DEF Flex!ServeInv
      <4>2. CASE u # v
        BY <1>0, <3>3, <4>1, <4>2 DEF Flex!QueueOK
      <4>3. CASE u = v
        <5>1. Len(queue[v]) \in Nat
          BY <2>2
        <5>2. Len(queue'[v]) = Len(queue[v]) - 1
          BY <3>2, <3>3
        <5>3. ASSUME NEW i \in 1 .. Len(queue'[v])
              PROVE  queue'[v][i] < issued /\ \A j \in i + 1 .. Len(queue'[v]) : queue'[v][i] < queue'[v][j]
          <6>1. queue'[v][i] = queue[v][i + 1] /\ i + 1 \in 1 .. Len(queue[v])
            BY <3>2, <3>3, <5>1, <5>2
          <6>2. ASSUME NEW j \in i + 1 .. Len(queue'[v]) PROVE queue'[v][i] < queue'[v][j]
            <7>1. queue'[v][j] = queue[v][j + 1] /\ j + 1 \in (i + 1) + 1 .. Len(queue[v])
              BY <3>2, <3>3, <5>1, <5>2
            <7> QED BY <4>1, <4>3, <6>1, <7>1 DEF Flex!QueueOK
          <6> QED BY <4>1, <4>3, <6>1, <6>2 DEF Flex!QueueOK
        <5> QED BY <1>0, <4>3, <5>3 DEF Flex!QueueOK
      <4> QED BY <4>2, <4>3
    <3>7. Flex!Oldest(w)'
      <4>1. Flex!QueueOK(v) /\ Len(queue[v]) \in Nat
        BY <2>2 DEF Flex!ServeInv
      <4>2. task'[w] \in Flex!AllVaqs \X Nat /\ task'[w][1] = v /\ task'[w][2] = queue[v][1]
        BY <2>2, <3>2, <3>4
      <4>3. queue[v][1] < issued' /\ \A i \in 1 .. Len(queue'[v]) : queue'[v][i] > queue[v][1]
        BY <1>0, <3>2, <3>3, <4>1 DEF Flex!QueueOK
      <4> QED BY <2>5, <2>8, <4>2, <4>3 DEF Flex!Oldest
    <3>8. ASSUME NEW x \in Flex!Workers, x # w, wpc[x] \in Flex!Busy PROVE Flex!Oldest(x)'
      <4>1. Flex!Oldest(x) /\ assignee'[task[x][1]] = x /\ task[x][1] \in Flex!AllVaqs /\ task'[x] = task[x]
        BY <2>6, <3>4, <3>8
      <4>2. task[x][1] # v
        BY <2>5, <2>8, <3>8, <4>1
      <4>3. queue'[task[x][1]] = queue[task[x][1]]
        BY <3>3, <4>1, <4>2
      <4> QED BY <1>0, <4>1, <4>3 DEF Flex!Oldest
    <3>9. ASSUME NEW x \in Flex!Workers
          PROVE  Flex!Place(x)' /\ IF wpc'[x] \in Flex!Busy THEN Flex!Oldest(x)' ELSE task'[x] = NULL
      <4>1. Flex!Place(x) /\ (wpc[x] \notin Flex!Busy => task[x] = NULL)
        BY DEF Flex!ServeInv
      <4>2. Flex!Place(x)'
        BY <3>4, <4>1 DEF Flex!Place
      <4> QED BY <3>4, <3>7, <3>8, <4>1, <4>2
    <3> QED BY <3>5, <3>6, <3>9 DEF Flex!ServeInv
  <2> QED BY <2>7, <2>8
<1> QED BY <1>2, <1>3

LEMMA ServeStep ==
  ASSUME Flex!FlexAssumption, Flex!ServeInv, [Flex!FlexNext]_(Flex!flexvars)
  PROVE  Flex!ServeInv'
<1>1. CASE UNCHANGED Flex!flexvars
  BY <1>1 DEF Flex!flexvars, Flex!ServeInv, Flex!ServeTyped, Flex!QueueOK, Flex!Place, Flex!Oldest
<1>2. CASE Flex!IssueSignal
  BY <1>2 DEF Flex!IssueSignal, Flex!ServeInv, Flex!ServeTyped, Flex!QueueOK, Flex!Place, Flex!Oldest
<1>3. CASE \E v \in Flex!AllVaqs : Flex!IssuePush(v)
  BY <1>3, ServeIssue
<1>4. ASSUME NEW w \in Flex!Workers, Flex!Worker(w) PROVE Flex!ServeInv'
  <2>1. CASE Flex!Pick(w, "user", UserVaqs, "batch?")
    BY <2>1, ServePick
  <2>2. CASE Flex!Pick(w, "batch", BatchVaqs, "wait")
    BY <2>2, ServePick
  <2> QED BY <1>4, <2>1, <2>2, ServeControl DEF Flex!Worker
<1> QED BY <1>1, <1>2, <1>3, <1>4 DEF Flex!FlexNext

(* Under the flexible scheduler a VAQ has one server at a time, who runs   *)
(* its oldest task: pickFirstTypeJobTaskRR pops only what                  *)
(* arax_vaccel_test_set_assignee gave it.                                  *)
THEOREM FlexyOneServer ==
  ASSUME Flex!FlexAssumption
  PROVE  Flex!FlexSpec => []Flex!OneServer
<1>1. Flex!FlexInit => Flex!ServeInv
  BY ServeInit
<1>2. Flex!ServeInv /\ [Flex!FlexNext]_(Flex!flexvars) => Flex!ServeInv'
  BY ServeStep
<1>3. Flex!ServeInv => Flex!OneServer
  <2>1. SUFFICES ASSUME Flex!ServeInv, NEW w \in Flex!Workers, task[w] # NULL
                 PROVE  /\ \A x \in Flex!Workers : task[x] # NULL /\ task[x][1] = task[w][1] => x = w
                        /\ \A i \in DOMAIN queue[task[w][1]] : queue[task[w][1]][i] > task[w][2]
    BY DEF Flex!OneServer
  <2>2. \A x \in Flex!Workers : task[x] # NULL => Flex!Oldest(x)
    BY <2>1 DEF Flex!ServeInv
  <2>3. queue[task[w][1]] \in Seq(Nat)
    BY <2>1, <2>2 DEF Flex!ServeInv, Flex!ServeTyped, Flex!Oldest
  <2>4. DOMAIN queue[task[w][1]] = 1 .. Len(queue[task[w][1]])
    BY <2>3
  <2>5. \A i \in DOMAIN queue[task[w][1]] : queue[task[w][1]][i] > task[w][2]
    BY <2>1, <2>2, <2>4 DEF Flex!Oldest
  <2>6. \A x \in Flex!Workers : task[x] # NULL => assignee[task[x][1]] = x
    BY <2>2 DEF Flex!Oldest
  <2> QED BY <2>1, <2>5, <2>6
<1> QED BY <1>1, <1>2, <1>3, PTL DEF Flex!FlexSpec

(* The first of some accelerators is one of them.                          *)
LEMMA LeastMember ==
  ASSUME NEW S \in SUBSET Nat, S # {}
  PROVE  Flex!Min(S) \in S
<1>1. PICK x \in S : \A y \in S : ~(<<y, x>> \in OpToRel(<, Nat))
  BY NatLessThanWellFounded, WFMin
<1>2. \A y \in S : x <= y
  <2>1. ASSUME NEW y \in S, y < x PROVE FALSE
    BY <1>1, <2>1 DEF OpToRel
  <2> QED BY <2>1
<1> QED BY <1>2 DEF Flex!Min

(* An accelerator gets a new preference only if the policy may give it one. *)
LEMMA MoreUserKeeps ==
  ASSUME Flex!FlexAssumption, NEW prefs \in [Flex!Workers -> {"UserJob", "BatchJob", "AnyJob"}]
  PROVE  /\ Flex!MoreUser(prefs) \in [Flex!Workers -> {"UserJob", "BatchJob", "AnyJob"}]
         /\ \A a \in Flex!Workers :
              (Initial[a] # "AnyJob" => prefs[a] = Initial[a]) =>
                (Initial[a] # "AnyJob" => Flex!MoreUser(prefs)[a] = Initial[a])
<1> DEFINE some == {i \in DOMAIN Accels : Initial[Accels[i]] # "BatchJob" /\ prefs[Accels[i]] # "UserJob"}
<1>1. Flex!MoreUser(prefs) = IF some = {} THEN prefs ELSE [prefs EXCEPT ![Accels[Flex!Min(some)]] = "UserJob"]
  BY DEF Flex!MoreUser, Flex!First
<1>2. some \in SUBSET Nat /\ DOMAIN Accels = 1 .. Len(Accels)
  BY DEF Flex!FlexAssumption
<1>3. CASE some = {}
  BY <1>1, <1>3
<1>4. CASE some # {}
  <2>1. PICK i \in some : i = Flex!Min(some)
    BY <1>2, <1>4, LeastMember
  <2>2. Accels[i] \in Flex!Workers
    BY <1>2, <2>1 DEF Flex!FlexAssumption, Flex!Workers
  <2>3. Flex!MoreUser(prefs) = [prefs EXCEPT ![Accels[i]] = "UserJob"]
    BY <1>1, <1>4, <2>1
  <2> QED BY <2>1, <2>2, <2>3 DEF Flex!FlexAssumption
<1> QED BY <1>3, <1>4

LEMMA LessUserKeeps ==
  ASSUME Flex!FlexAssumption, NEW prefs \in [Flex!Workers -> {"UserJob", "BatchJob", "AnyJob"}]
  PROVE  /\ Flex!LessUser(prefs) \in [Flex!Workers -> {"UserJob", "BatchJob", "AnyJob"}]
         /\ \A a \in Flex!Workers :
              (Initial[a] # "AnyJob" => prefs[a] = Initial[a]) =>
                (Initial[a] # "AnyJob" => Flex!LessUser(prefs)[a] = Initial[a])
<1> DEFINE some == {i \in DOMAIN Accels : Initial[Accels[i]] # "UserJob" /\ prefs[Accels[i]] = "UserJob"}
<1>1. Flex!LessUser(prefs) = IF some = {} THEN prefs ELSE [prefs EXCEPT ![Accels[Flex!Min(some)]] = "BatchJob"]
  BY DEF Flex!LessUser, Flex!First
<1>2. some \in SUBSET Nat /\ DOMAIN Accels = 1 .. Len(Accels)
  BY DEF Flex!FlexAssumption
<1>3. CASE some = {}
  BY <1>1, <1>3
<1>4. CASE some # {}
  <2>1. PICK i \in some : i = Flex!Min(some)
    BY <1>2, <1>4, LeastMember
  <2>2. Accels[i] \in Flex!Workers
    BY <1>2, <2>1 DEF Flex!FlexAssumption, Flex!Workers
  <2>3. Flex!LessUser(prefs) = [prefs EXCEPT ![Accels[i]] = "BatchJob"]
    BY <1>1, <1>4, <2>1
  <2> QED BY <2>1, <2>2, <2>3 DEF Flex!FlexAssumption
<1> QED BY <1>3, <1>4

(* The reactive policy, whatever the metrics say.                          *)
LEMMA ReactiveKeeps ==
  ASSUME Flex!FlexAssumption, pref \in [Flex!Workers -> {"UserJob", "BatchJob", "AnyJob"}]
  PROVE  /\ Flex!flexPolicyReactive \in [Flex!Workers -> {"UserJob", "BatchJob", "AnyJob"}]
         /\ \A a \in Flex!Workers :
              (Initial[a] # "AnyJob" => pref[a] = Initial[a]) =>
                (Initial[a] # "AnyJob" => Flex!flexPolicyReactive[a] = Initial[a])
<1> DEFINE Kinds == {"UserJob", "BatchJob", "AnyJob"}
           Keeps(f) == \A a \in Flex!Workers :
                         (Initial[a] # "AnyJob" => pref[a] = Initial[a]) =>
                           (Initial[a] # "AnyJob" => f[a] = Initial[a])
<1>1. PICK first \in [Flex!Workers -> Kinds] :
        /\ Keeps(first)
        /\ \/ Flex!flexPolicyReactive = first
           \/ Flex!flexPolicyReactive = Flex!AllBatch(first)
  <2>1. Flex!MoreUser(pref) \in [Flex!Workers -> Kinds] /\ Keeps(Flex!MoreUser(pref))
    BY MoreUserKeeps
  <2>2. Flex!LessUser(pref) \in [Flex!Workers -> Kinds] /\ Keeps(Flex!LessUser(pref))
    BY LessUserKeeps
  <2>3. Keeps(pref)
    OBVIOUS
  <2>4. PICK first \in {Flex!MoreUser(pref), Flex!LessUser(pref), pref} :
          \/ Flex!flexPolicyReactive = first
          \/ Flex!flexPolicyReactive = Flex!AllBatch(first)
    BY DEF Flex!flexPolicyReactive
  <2> HIDE DEF Keeps
  <2> QED BY <2>1, <2>2, <2>3, <2>4
<1>2. CASE Flex!flexPolicyReactive = first
  BY <1>1, <1>2
<1>3. CASE Flex!flexPolicyReactive = Flex!AllBatch(first)
  BY <1>1, <1>3 DEF Flex!AllBatch, Flex!FlexAssumption
<1> QED BY <1>1, <1>2, <1>3

(* The proactive policy never asks for no accelerator at all.              *)
LEMMA SomeRequired ==
  ASSUME Flex!FlexAssumption
  PROVE  Flex!req_accels # 0
<1>1. Len(Accels) # 0
  BY DEF Flex!FlexAssumption
<1> DEFINE n == -((-Flex!MapThenSumSet(Flex!Load2, Flex!Range(UserVaqs))) \div (2 * Sla))
<1>2. Flex!req_accels = CASE n = 0 -> 1 [] n > Len(Accels) -> Len(Accels) [] OTHER -> n
  BY DEF Flex!req_accels
<1> HIDE DEF n
<1> QED BY <1>1, <1>2

LEMMA PrefInit ==
  ASSUME Flex!FlexAssumption, Flex!FlexInit
  PROVE  Flex!PrefInv
<1>1. /\ pref \in [Flex!Workers -> {"UserJob", "BatchJob", "AnyJob"}]
      /\ req = [w \in Flex!Workers |-> req[w]] /\ Flex!UsersKeepOne /\ Flex!DedicatedStay
  BY DEF Flex!FlexAssumption, Flex!FlexInit, Flex!UsersKeepOne, Flex!DedicatedStay
<1>2. ASSUME NEW w \in Flex!Workers PROVE Flex!SetOK(w)
  BY DEF Flex!FlexInit, Flex!SetOK
<1> QED BY <1>1, <1>2 DEF Flex!PrefInv

(* A step that concerns neither preferences nor the loop that sets them.   *)
LEMMA PrefQuiet ==
  ASSUME Flex!PrefInv, UNCHANGED <<policy, pref, req>>,
         \A x \in Flex!Workers :
           \/ wpc'[x] = wpc[x] /\ pos'[x] = pos[x]
           \/ wpc'[x] \in {"reactive", "proactive"} /\ policy = wpc'[x]
           \/ wpc'[x] \notin {"reactive", "proactive", "set"}
           \/ wpc'[x] = wpc[x] /\ wpc[x] # "set"
  PROVE  Flex!PrefInv'
<1>1. ASSUME NEW x \in Flex!Workers PROVE Flex!SetOK(x)'
  <2>1. Flex!SetOK(x)
    BY DEF Flex!PrefInv
  <2> QED BY <2>1 DEF Flex!SetOK
<1> QED BY <1>1 DEF Flex!PrefInv, Flex!UsersKeepOne, Flex!DedicatedStay

(* The steps of a worker outside of the policies.                          *)
LEMMA PrefControl ==
  ASSUME Flex!FlexAssumption, Flex!ServeInv, Flex!PrefInv, NEW w \in Flex!Workers,
         \/ Flex!Wait(w) \/ Flex!AskUser(w) \/ Flex!AskBatch(w)
         \/ Flex!Pick(w, "user", UserVaqs, "batch?") \/ Flex!Pick(w, "batch", BatchVaqs, "wait")
         \/ Flex!postTaskExecution(w) \/ Flex!ReadSum(w) \/ Flex!Subtract(w) \/ Flex!Add(w)
  PROVE  Flex!PrefInv'
<1>0. /\ policy \in {"none", "proactive", "reactive"}
      /\ wpc \in [Flex!Workers -> Flex!Labels] /\ pos \in [Flex!Workers -> Nat]
  BY DEF Flex!ServeInv, Flex!ServeTyped
<1>1. CASE Flex!Wait(w)
  <2>1. /\ UNCHANGED <<policy, pref, req, pos>>
        /\ wpc' = [wpc EXCEPT ![w] = IF policy = "none" THEN "user?" ELSE policy]
    BY <1>1 DEF Flex!Wait, Flex!Goto
  <2>2. /\ \A x \in Flex!Workers : x # w => wpc'[x] = wpc[x]
        /\ wpc'[w] = "user?" \/ (wpc'[w] \in {"reactive", "proactive"} /\ policy = wpc'[w])
    BY <1>0, <2>1
  <2> QED BY <2>1, <2>2, PrefQuiet
<1>2. CASE \/ Flex!AskUser(w) \/ Flex!AskBatch(w) \/ Flex!postTaskExecution(w)
           \/ Flex!ReadSum(w) \/ Flex!Subtract(w) \/ Flex!Add(w)
  <2>1. /\ UNCHANGED <<policy, pref, req, pos>>
        /\ \E l \in {"user", "batch?", "batch", "wait", "read", "subtract", "add"} : wpc' = [wpc EXCEPT ![w] = l]
    BY <1>2 DEF Flex!AskUser, Flex!AskBatch, Flex!postTaskExecution, Flex!ReadSum, Flex!Subtract,
                Flex!Add, Flex!Goto
  <2>2. /\ \A x \in Flex!Workers : x # w => wpc'[x] = wpc[x]
        /\ wpc'[w] \in {"user", "batch?", "batch", "wait", "read", "subtract", "add"}
    BY <1>0, <2>1
  <2> QED BY <2>1, <2>2, PrefQuiet
<1>3. ASSUME NEW kind \in {"user", "batch"}, NEW vaqs, NEW otherwise \in {"batch?", "wait"},
             Flex!Pick(w, kind, vaqs, otherwise)
      PROVE  Flex!PrefInv'
  <2>1. /\ wpc[w] = kind /\ UNCHANGED <<policy, pref, req>>
        /\ \E n : pos' = [pos EXCEPT ![w] = n]
        /\ wpc' = wpc \/ \E l \in {"batch?", "wait", "run"} : wpc' = [wpc EXCEPT ![w] = l]
    BY <1>3 DEF Flex!Pick, Flex!Goto
  <2>2. /\ \A x \in Flex!Workers : x # w => wpc'[x] = wpc[x] /\ pos'[x] = pos[x]
        /\ wpc'[w] \in {"user", "batch", "batch?", "wait", "run"}
    BY <1>0, <2>1
  <2> QED BY <2>1, <2>2, PrefQuiet
<1>4. CASE Flex!Pick(w, "user", UserVaqs, "batch?")
  BY <1>3, <1>4
<1>5. CASE Flex!Pick(w, "batch", BatchVaqs, "wait")
  BY <1>3, <1>5
<1> QED BY <1>1, <1>2, <1>4, <1>5

LEMMA PrefReactive ==
  ASSUME Flex!FlexAssumption, Flex!ServeInv, Flex!PrefInv, NEW w \in Flex!Workers, Flex!Reactive(w)
  PROVE  Flex!PrefInv'
<1>0. /\ wpc[w] = "reactive" /\ pref' = Flex!flexPolicyReactive /\ UNCHANGED <<policy, req, pos>>
      /\ wpc' = [wpc EXCEPT ![w] = "user?"] /\ wpc \in [Flex!Workers -> Flex!Labels]
      /\ pref \in [Flex!Workers -> {"UserJob", "BatchJob", "AnyJob"}]
  BY DEF Flex!Reactive, Flex!Goto, Flex!ServeInv, Flex!ServeTyped, Flex!PrefInv
<1>1. policy = "reactive"
  BY <1>0 DEF Flex!PrefInv, Flex!SetOK
<1>2. /\ pref' \in [Flex!Workers -> {"UserJob", "BatchJob", "AnyJob"}]
      /\ \A a \in Flex!Workers :
           (Initial[a] # "AnyJob" => pref[a] = Initial[a]) =>
             (Initial[a] # "AnyJob" => pref'[a] = Initial[a])
  BY <1>0, ReactiveKeeps
<1>3. Flex!UsersKeepOne' /\ Flex!DedicatedStay'
  BY <1>0, <1>1, <1>2 DEF Flex!PrefInv, Flex!UsersKeepOne, Flex!DedicatedStay
<1>4. ASSUME NEW x \in Flex!Workers PROVE Flex!SetOK(x)'
  <2>1. Flex!SetOK(x)
    BY DEF Flex!PrefInv
  <2>2. wpc'[x] = IF x = w THEN "user?" ELSE wpc[x]
    BY <1>0
  <2> QED BY <1>0, <1>1, <2>1, <2>2 DEF Flex!SetOK
<1> QED BY <1>0, <1>2, <1>3, <1>4 DEF Flex!PrefInv

LEMMA PrefProactive ==
  ASSUME Flex!FlexAssumption, Flex!ServeInv, Flex!PrefInv, NEW w \in Flex!Workers, Flex!Proactive(w)
  PROVE  Flex!PrefInv'
<1>0. /\ wpc[w] = "proactive" /\ UNCHANGED <<policy, pref>>
      /\ req' = [req EXCEPT ![w] = Flex!req_accels] /\ pos' = [pos EXCEPT ![w] = 1]
      /\ wpc' = [wpc EXCEPT ![w] = "set"]
      /\ wpc \in [Flex!Workers -> Flex!Labels] /\ pos \in [Flex!Workers -> Nat]
  BY DEF Flex!Proactive, Flex!Goto, Flex!ServeInv, Flex!ServeTyped
<1>1. req = [x \in Flex!Workers |-> req[x]] /\ policy = "proactive"
  BY <1>0 DEF Flex!PrefInv, Flex!SetOK
<1> DEFINE n == Flex!req_accels
<1>2. n # 0 /\ req' = [req EXCEPT ![w] = n]
  BY <1>0, SomeRequired
<1> HIDE DEF n
<1>3. /\ req' = [x \in Flex!Workers |-> req'[x]] /\ req'[w] = n
      /\ \A x \in Flex!Workers : x # w => req'[x] = req[x]
  BY <1>1, <1>2
<1>4. ASSUME NEW x \in Flex!Workers PROVE Flex!SetOK(x)'
  <2>1. Flex!SetOK(x) /\ Len(Accels) \in Nat
    BY DEF Flex!PrefInv, Flex!FlexAssumption
  <2>2. CASE x = w
    <3>1. wpc'[x] = "set" /\ pos'[x] = 1 /\ req'[x] # 0
      BY <1>0, <1>2, <1>3, <2>2
    <3> QED BY <1>0, <1>1, <2>1, <3>1 DEF Flex!SetOK
  <2>3. CASE x # w
    <3>1. wpc'[x] = wpc[x] /\ pos'[x] = pos[x] /\ req'[x] = req[x]
      BY <1>0, <1>3, <2>3
    <3> QED BY <1>0, <2>1, <3>1 DEF Flex!SetOK
  <2> QED BY <2>2, <2>3
<1> QED BY <1>0, <1>3, <1>4 DEF Flex!PrefInv, Flex!UsersKeepOne, Flex!DedicatedStay

(* One accelerator of the loop, in which other workers may be too.         *)
LEMMA PrefSet ==
  ASSUME Flex!FlexAssumption, Flex!ServeInv, Flex!PrefInv, NEW w \in Flex!Workers, Flex!SetPreference(w)
  PROVE  Flex!PrefInv'
<1>0. /\ wpc[w] = "set" /\ UNCHANGED policy
      /\ wpc \in [Flex!Workers -> Flex!Labels] /\ pos \in [Flex!Workers -> Nat]
      /\ pref \in [Flex!Workers -> {"UserJob", "BatchJob", "AnyJob"}]
      /\ req = [x \in Flex!Workers |-> req[x]]
  BY DEF Flex!SetPreference, Flex!ServeInv, Flex!ServeTyped, Flex!PrefInv
<1>1. /\ policy = "proactive" /\ pos[w] \in 1 .. Len(Accels) + 1 /\ Len(Accels) \in Nat
      /\ IF pos[w] = 1 THEN req[w] # 0 ELSE pref[Accels[1]] = "UserJob"
  BY <1>0 DEF Flex!PrefInv, Flex!SetOK, Flex!FlexAssumption
<1>2. Accels[1] \in Flex!Workers /\ 1 \in DOMAIN Accels /\ DOMAIN Accels = 1 .. Len(Accels)
  <2>1. Accels \in Seq(Flex!Workers) /\ Accels # <<>>
    BY DEF Flex!FlexAssumption
  <2> QED BY <2>1
<1>3. CASE pos[w] <= Len(Accels)
  <2> DEFINE a == Accels[pos[w]]
             p == IF req[w] # 0 THEN "UserJob" ELSE "BatchJob"
             n == IF req[w] # 0 THEN req[w] - 1 ELSE req[w]
  <2>1. /\ pref' = [pref EXCEPT ![a] = p] /\ req' = [req EXCEPT ![w] = n]
        /\ pos' = [pos EXCEPT ![w] = pos[w] + 1] /\ wpc' = wpc
    BY <1>3 DEF Flex!SetPreference
  <2>2. a \in Flex!Workers /\ pos[w] \in DOMAIN Accels /\ (a = Accels[1] => pos[w] = 1)
    <3>1. pos[w] \in DOMAIN Accels
      BY <1>1, <1>2, <1>3
    <3> QED BY <1>2, <3>1 DEF Flex!FlexAssumption, Flex!Workers
  <2>3. p \in {"UserJob", "BatchJob", "AnyJob"} /\ (pos[w] = 1 => p = "UserJob")
    BY <1>1
  <2>3a. pos[w] = 1 => a = Accels[1]
    OBVIOUS
  <2> HIDE DEF a, p, n
  <2>4. pref' \in [Flex!Workers -> {"UserJob", "BatchJob", "AnyJob"}]
    BY <1>0, <2>1, <2>3
  <2>5. pref'[Accels[1]] = "UserJob"
    BY <1>0, <1>1, <1>2, <2>1, <2>2, <2>3, <2>3a
  <2>6. req' = [x \in Flex!Workers |-> req'[x]] /\ \A x \in Flex!Workers : x # w => req'[x] = req[x]
    BY <1>0, <2>1
  <2>7. Flex!UsersKeepOne' /\ Flex!DedicatedStay'
    BY <1>0, <1>1, <2>5 DEF Flex!UsersKeepOne, Flex!DedicatedStay
  <2>8. ASSUME NEW x \in Flex!Workers PROVE Flex!SetOK(x)'
    <3>1. Flex!SetOK(x)
      BY DEF Flex!PrefInv
    <3>2. CASE x = w
      <4>1. pos'[x] \in 1 .. Len(Accels) + 1 /\ pos'[x] # 1 /\ wpc'[x] = "set"
        BY <1>0, <1>1, <1>3, <2>1, <3>2
      <4> QED BY <1>0, <1>1, <2>5, <4>1 DEF Flex!SetOK
    <3>3. CASE x # w
      <4>1. wpc'[x] = wpc[x] /\ pos'[x] = pos[x] /\ req'[x] = req[x]
        BY <1>0, <2>1, <2>6, <3>3
      <4> QED BY <1>0, <2>5, <3>1, <4>1 DEF Flex!SetOK
    <3> QED BY <3>2, <3>3
  <2> QED BY <2>4, <2>6, <2>7, <2>8 DEF Flex!PrefInv
<1>4. CASE ~(pos[w] <= Len(Accels))
  <2>1. /\ req' = [req EXCEPT ![w] = 0] /\ pos' = [pos EXCEPT ![w] = 0]
        /\ wpc' = [wpc EXCEPT ![w] = "user?"] /\ UNCHANGED pref
    BY <1>4 DEF Flex!SetPreference, Flex!Goto
  <2>2. req' = [x \in Flex!Workers |-> req'[x]] /\ \A x \in Flex!Workers : x # w => req'[x] = req[x]
    BY <1>0, <2>1
  <2>3. ASSUME NEW x \in Flex!Workers PROVE Flex!SetOK(x)'
    <3>1. Flex!SetOK(x)
      BY DEF Flex!PrefInv
    <3>2. CASE x = w
      BY <1>0, <2>1, <3>2 DEF Flex!SetOK
    <3>3. CASE x # w
      <4>1. wpc'[x] = wpc[x] /\ pos'[x] = pos[x] /\ req'[x] = req[x]
        BY <1>0, <2>1, <2>2, <3>3
      <4> QED BY <1>0, <2>1, <3>1, <4>1 DEF Flex!SetOK
    <3> QED BY <3>2, <3>3
  <2> QED BY <1>0, <2>1, <2>2, <2>3 DEF Flex!PrefInv, Flex!UsersKeepOne, Flex!DedicatedStay
<1> QED BY <1>3, <1>4

LEMMA PrefStep ==
  ASSUME Flex!FlexAssumption, Flex!ServeInv, Flex!PrefInv, [Flex!FlexNext]_(Flex!flexvars)
  PROVE  Flex!PrefInv'
<1>1. CASE UNCHANGED Flex!flexvars
  BY <1>1, PrefQuiet DEF Flex!flexvars
<1>2. CASE Flex!IssueSignal
  BY <1>2, PrefQuiet DEF Flex!IssueSignal
<1>3. CASE \E v \in Flex!AllVaqs : Flex!IssuePush(v)
  BY <1>3, PrefQuiet DEF Flex!IssuePush
<1>4. ASSUME NEW w \in Flex!Workers, Flex!Worker(w) PROVE Flex!PrefInv'
  BY <1>4, PrefControl, PrefReactive, PrefProactive, PrefSet DEF Flex!Worker
<1> QED BY <1>1, <1>2, <1>3, <1>4 DEF Flex!FlexNext

(* The preferences of accelerators: flexPolicyProactive leaves the first   *)
(* one to the users although workers are in its loop at the same time and  *)
(* the sums it judges by may have lost updates, and flexPolicyReactive     *)
(* leaves an accelerator to the jobs it is for.                            *)
THEOREM FlexyPolicyKept ==
  ASSUME Flex!FlexAssumption
  PROVE  Flex!FlexSpec => []Flex!PolicyKept
<1>1. Flex!FlexInit => Flex!ServeInv /\ Flex!PrefInv
  BY ServeInit, PrefInit
<1>2. Flex!ServeInv /\ Flex!PrefInv /\ [Flex!FlexNext]_(Flex!flexvars) => (Flex!ServeInv /\ Flex!PrefInv)'
  BY ServeStep, PrefStep
<1>3. Flex!PrefInv => Flex!PolicyKept
  BY DEF Flex!PrefInv, Flex!PolicyKept
<1> QED BY <1>1, <1>2, <1>3, PTL DEF Flex!FlexSpec

-----------------------------------------------------------------------------
(* WeightedRR *)

(* A VAQ that is pushed is in the control queue, once if it was not in it. *)
LEMMA Pushed ==
  ASSUME NEW T, NEW s \in Seq(T), NEW v \in T
  PROVE  /\ Append(s, v) \in Seq(T)
         /\ \A u : Wrr!In(Append(s, v), u) <=> Wrr!In(s, u) \/ u = v
         /\ \A u : Wrr!Once(s, u) /\ (u = v => ~Wrr!In(s, v)) => Wrr!Once(Append(s, v), u)
<1> DEFINE t == Append(s, v)
<1>1. /\ t \in Seq(T) /\ Len(t) = Len(s) + 1 /\ Len(s) \in Nat /\ t[Len(s) + 1] = v
      /\ \A i \in 1 .. Len(s) : t[i] = s[i]
  OBVIOUS
<1> HIDE DEF t
<1>2. ASSUME NEW u PROVE Wrr!In(t, u) <=> Wrr!In(s, u) \/ u = v
  <2>1. ASSUME NEW i \in 1 .. Len(t), t[i] = u PROVE Wrr!In(s, u) \/ u = v
    <3>1. i \in 1 .. Len(s) \/ i = Len(s) + 1
      BY <1>1
    <3> QED BY <1>1, <2>1, <3>1 DEF Wrr!In
  <2>2. ASSUME NEW i \in 1 .. Len(s), s[i] = u PROVE Wrr!In(t, u)
    <3>1. i \in 1 .. Len(t) /\ t[i] = u
      BY <1>1, <2>2
    <3> QED BY <3>1 DEF Wrr!In
  <2>3. ASSUME u = v PROVE Wrr!In(t, u)
    <3>1. Len(s) + 1 \in 1 .. Len(t) /\ t[Len(s) + 1] = u
      BY <1>1, <2>3
    <3> QED BY <3>1 DEF Wrr!In
  <2>4. Wrr!In(t, u) => Wrr!In(s, u) \/ u = v
    BY <2>1 DEF Wrr!In
  <2>5. Wrr!In(s, u) => Wrr!In(t, u)
    BY <2>2 DEF Wrr!In
  <2> QED BY <2>3, <2>4, <2>5
<1>3. ASSUME NEW u, Wrr!Once(s, u), u = v => ~Wrr!In(s, v) PROVE Wrr!Once(t, u)
  <2>1. SUFFICES ASSUME NEW i \in 1 .. Len(t), NEW j \in 1 .. Len(t), t[i] = u, t[j] = u PROVE i = j
    BY DEF Wrr!Once
  <2>2. /\ i \in 1 .. Len(s) \/ i = Len(s) + 1
        /\ j \in 1 .. Len(s) \/ j = Len(s) + 1
    BY <1>1, <2>1
  <2> QED BY <1>1, <1>3, <2>1, <2>2 DEF Wrr!Once, Wrr!In
<1> QED BY <1>1, <1>2, <1>3 DEF t

(* A VAQ that is popped is no longer in the control queue.                 *)
LEMMA Popped ==
  ASSUME NEW T, NEW s \in Seq(T), s # <<>>, Wrr!Once(s, Head(s))
  PROVE  /\ Tail(s) \in Seq(T) /\ Head(s) \in T /\ Wrr!In(s, Head(s))
         /\ \A u : Wrr!In(Tail(s), u) <=> Wrr!In(s, u) /\ u # Head(s)
         /\ \A u : Wrr!Once(s, u) => Wrr!Once(Tail(s), u)
<1> DEFINE t == Tail(s)
           h == Head(s)
<1>1. /\ t \in Seq(T) /\ Len(t) = Len(s) - 1 /\ Len(s) \in Nat /\ Len(s) > 0 /\ h = s[1] /\ h \in T
      /\ \A i \in 1 .. Len(t) : t[i] = s[i + 1]
  OBVIOUS
<1> HIDE DEF t, h
<1>1a. Wrr!Once(s, h) /\ 1 \in 1 .. Len(s)
  BY <1>1 DEF h
<1>2. Wrr!In(s, h)
  BY <1>1, <1>1a DEF Wrr!In
<1>3. ASSUME NEW u PROVE Wrr!In(t, u) <=> Wrr!In(s, u) /\ u # h
  <2>1. ASSUME NEW i \in 1 .. Len(t), t[i] = u PROVE Wrr!In(s, u) /\ u # h
    <3>1. i + 1 \in 1 .. Len(s) /\ s[i + 1] = u /\ i + 1 # 1
      BY <1>1, <2>1
    <3> QED BY <1>1, <1>1a, <3>1 DEF Wrr!In, Wrr!Once
  <2>2. ASSUME NEW i \in 1 .. Len(s), s[i] = u, u # h PROVE Wrr!In(t, u)
    <3>1. i # 1
      BY <1>1, <2>2
    <3>2. i - 1 \in 1 .. Len(t) /\ t[i - 1] = u
      BY <1>1, <2>2, <3>1
    <3> QED BY <3>2 DEF Wrr!In
  <2>3. Wrr!In(t, u) => Wrr!In(s, u) /\ u # h
    BY <2>1 DEF Wrr!In
  <2>4. Wrr!In(s, u) /\ u # h => Wrr!In(t, u)
    BY <2>2 DEF Wrr!In
  <2> QED BY <2>3, <2>4
<1>4. ASSUME NEW u, Wrr!Once(s, u) PROVE Wrr!Once(t, u)
  <2>1. SUFFICES ASSUME NEW i \in 1 .. Len(t), NEW j \in 1 .. Len(t), t[i] = u, t[j] = u PROVE i = j
    BY DEF Wrr!Once
  <2>2. i + 1 \in 1 .. Len(s) /\ s[i + 1] = u /\ j + 1 \in 1 .. Len(s) /\ s[j + 1] = u
    BY <1>1, <2>1
  <2>3. i + 1 = j + 1
    BY <1>4, <2>2 DEF Wrr!Once
  <2> QED BY <2>3
<1> QED BY <1>1, <1>2, <1>3, <1>4 DEF t, h

LEMMA TrackInit ==
  ASSUME Wrr!WeightedAssumption, Wrr!Init
  PROVE  Wrr!TrackInv
<1>1. Wrr!TrackTyped
  BY DEF Wrr!Init, Wrr!TrackTyped, Wrr!WeightedAssumption
<1>2. ASSUME NEW w \in Workers PROVE Wrr!HandOK(w) /\ Wrr!Tested(w)
  BY DEF Wrr!Init, Wrr!HandOK, Wrr!Tested
<1>3. ASSUME NEW v \in Wrr!VaqSet PROVE Wrr!OnceOK(v)
  <2>1. meta[v] = NULL /\ high = <<>> /\ low = <<>> /\ \A w \in Workers : sel[w] = NULL
    BY DEF Wrr!Init
  <2>2. meta[v] # TRUE
    BY <2>1 DEF Wrr!WeightedAssumption
  <2>3. ~Wrr!In(high, v) /\ ~Wrr!In(low, v) /\ Wrr!Once(high, v) /\ Wrr!Once(low, v)
    BY <2>1 DEF Wrr!In, Wrr!Once
  <2>4. ~Wrr!InHands(v) /\ Wrr!OneHand(v)
    BY <2>1 DEF Wrr!InHands, Wrr!OneHand, Wrr!WeightedAssumption
  <2> QED BY <2>2, <2>3, <2>4 DEF Wrr!OnceOK
<1> QED BY <1>1, <1>2, <1>3 DEF Wrr!TrackInv

(* A VAQ that a worker inserts is one of the array.                        *)
LEMMA InsertsVaq ==
  ASSUME Wrr!WeightedAssumption, Wrr!TrackInv, NEW x \in Workers, wpc[x] = "insert"
  PROVE  pos[x] \in 1 .. Len(Vaqs) /\ Vaqs[pos[x]] \in Wrr!VaqSet
<1>1. pos[x] \in 1 .. Len(Vaqs)
  BY DEF Wrr!TrackInv, Wrr!TrackTyped, Wrr!HandOK, Wrr!WeightedAssumption
<1> QED BY <1>1 DEF Wrr!WeightedAssumption

(* What a worker found out of the group stays out while others take VAQs   *)
(* out of it.                                                              *)
LEMMA TestedKept ==
  ASSUME Wrr!WeightedAssumption, Wrr!TrackInv, NEW x \in Workers,
         wpc'[x] = "insert" => wpc[x] = "insert" /\ pos'[x] = pos[x],
         \A u \in Wrr!VaqSet : meta'[u] = meta[u] \/ meta'[u] # TRUE
  PROVE  Wrr!Tested(x)'
<1>1. SUFFICES ASSUME wpc'[x] = "insert" PROVE meta'[Vaqs[pos'[x]]] # TRUE
  BY DEF Wrr!Tested
<1>2. Vaqs[pos[x]] \in Wrr!VaqSet /\ pos'[x] = pos[x]
  BY <1>1, InsertsVaq
<1>3. meta[Vaqs[pos[x]]] # TRUE
  BY <1>1 DEF Wrr!TrackInv, Wrr!Tested
<1> QED BY <1>2, <1>3

(* A step of one worker, or of none, that moves no VAQ.                    *)
LEMMA TrackQuiet ==
  ASSUME Wrr!TrackInv, UNCHANGED <<high, low, meta, sel>>,
         num' \in 0 .. Len(Vaqs), num' >= num,
         wpc' \in [Workers -> {"wait", "lock", "scan", "insert", "choose", "free", "pop", "requeue",
                               "unlock"}],
         seen' \in [Workers -> Nat], pos' \in [Workers -> Nat],
         \A w \in Workers : Wrr!HandOK(w)' /\ Wrr!Tested(w)'
  PROVE  Wrr!TrackInv'
<1>1. Wrr!TrackTyped'
  BY DEF Wrr!TrackInv, Wrr!TrackTyped
<1>2. ASSUME NEW v \in Wrr!VaqSet PROVE Wrr!OnceOK(v)'
  BY DEF Wrr!TrackInv, Wrr!OnceOK, Wrr!InHands, Wrr!OneHand
<1> QED BY <1>1, <1>2 DEF Wrr!TrackInv

(* The steps of a worker around its choice.                                *)
LEMMA TrackControl ==
  ASSUME Wrr!WeightedAssumption, Wrr!TrackInv, NEW w \in Workers,
         \/ Wrr!Wait(w) \/ Wrr!Lock(w) \/ Wrr!AddToken(w) \/ Wrr!Free(w) \/ Wrr!Pop(w) \/ Wrr!Unlock(w)
  PROVE  Wrr!TrackInv'
<1> DEFINE Labels == {"wait", "lock", "scan", "insert", "choose", "free", "pop", "requeue", "unlock"}
<1>0. /\ wpc \in [Workers -> Labels] /\ seen \in [Workers -> Nat] /\ pos \in [Workers -> Nat]
      /\ num \in 0 .. Len(Vaqs) /\ Len(Vaqs) \in Nat /\ \A x \in Workers : Wrr!HandOK(x)
  BY DEF Wrr!TrackInv, Wrr!TrackTyped, Wrr!WeightedAssumption
<1>1. UNCHANGED <<num, high, low, meta, sel>>
  BY DEF Wrr!Wait, Wrr!Lock, Wrr!AddToken, Wrr!Free, Wrr!Pop, Wrr!Unlock, Wrr!env, Wrr!shared
<1>2. ASSUME NEW l \in Labels, l # "insert", NEW n \in Nat, NEW p \in Nat,
             wpc' = [wpc EXCEPT ![w] = l], seen' = [seen EXCEPT ![w] = n], pos' = [pos EXCEPT ![w] = p],
             n <= num, l = "scan" => p >= 1,
             l \in {"wait", "lock", "scan", "choose", "unlock"} => sel[w] = NULL,
             l \in {"pop", "requeue"} => sel[w] # NULL
      PROVE  Wrr!TrackInv'
  <2>1. /\ wpc' \in [Workers -> Labels] /\ seen' \in [Workers -> Nat] /\ pos' \in [Workers -> Nat]
        /\ wpc'[w] = l /\ seen'[w] = n /\ pos'[w] = p
        /\ \A x \in Workers : x # w => wpc'[x] = wpc[x] /\ seen'[x] = seen[x] /\ pos'[x] = pos[x]
    BY <1>0, <1>2
  <2>2. ASSUME NEW x \in Workers PROVE Wrr!HandOK(x)'
    <3>1. CASE x = w
      BY <1>1, <1>2, <2>1, <3>1 DEF Wrr!HandOK
    <3>2. CASE x # w
      <4>1. Wrr!HandOK(x)
        BY <1>0
      <4> QED BY <1>1, <2>1, <3>2, <4>1 DEF Wrr!HandOK
    <3> QED BY <3>1, <3>2
  <2>3. ASSUME NEW x \in Workers PROVE Wrr!Tested(x)'
    BY <1>1, <1>2, <2>1, TestedKept
  <2> QED BY <1>0, <1>1, <2>1, <2>2, <2>3, TrackQuiet
<1>3. Wrr!HandOK(w) /\ seen[w] \in Nat /\ pos[w] \in Nat /\ num \in Nat
  BY <1>0
<1>4. seen = [seen EXCEPT ![w] = seen[w]] /\ pos = [pos EXCEPT ![w] = pos[w]]
  BY <1>0
<1>5. CASE Wrr!Wait(w)
  <2>1. /\ wpc[w] = "wait" /\ wpc' = [wpc EXCEPT ![w] = "lock"] /\ seen' = [seen EXCEPT ![w] = num]
        /\ UNCHANGED pos
    BY <1>5 DEF Wrr!Wait, Wrr!Goto
  <2>2. sel[w] = NULL /\ num <= num
    BY <1>3, <2>1 DEF Wrr!HandOK
  <2> QED BY <1>2, <1>3, <1>4, <2>1, <2>2
<1>6. CASE Wrr!Lock(w)
  <2>1. /\ wpc[w] = "lock" /\ wpc' = [wpc EXCEPT ![w] = "scan"] /\ pos' = [pos EXCEPT ![w] = 1]
        /\ UNCHANGED seen
    BY <1>6 DEF Wrr!Lock, Wrr!Goto
  <2>2. sel[w] = NULL /\ seen[w] <= num /\ "scan" \in Labels /\ 1 \in Nat /\ 1 >= 1
    BY <1>3, <2>1 DEF Wrr!HandOK
  <2>3. seen' = [seen EXCEPT ![w] = seen[w]]
    BY <1>4, <2>1
  <2> HIDE DEF Labels
  <2> QED BY <1>2, <1>3, <2>1, <2>2, <2>3
<1>7. CASE Wrr!AddToken(w)
  <2>1. /\ wpc[w] = "scan" /\ wpc' = [wpc EXCEPT ![w] = "choose"] /\ pos' = [pos EXCEPT ![w] = 0]
        /\ seen' = [seen EXCEPT ![w] = 0]
    BY <1>7 DEF Wrr!AddToken, Wrr!Goto
  <2>2. sel[w] = NULL /\ 0 <= num
    BY <1>3, <2>1 DEF Wrr!HandOK
  <2> QED BY <1>2, <1>3, <2>1, <2>2
<1>8. CASE Wrr!Free(w)
  <2>1. /\ wpc' = [wpc EXCEPT ![w] = IF sel[w] = NULL THEN "unlock" ELSE "pop"] /\ UNCHANGED <<seen, pos>>
    BY <1>8 DEF Wrr!Free, Wrr!Goto
  <2>2. seen[w] <= num
    BY <1>3 DEF Wrr!HandOK
  <2>3. CASE sel[w] = NULL
    <3>1. wpc' = [wpc EXCEPT ![w] = "unlock"]
      BY <2>1, <2>3
    <3> QED BY <1>2, <1>3, <1>4, <2>1, <2>2, <2>3, <3>1
  <2>4. CASE sel[w] # NULL
    <3>1. wpc' = [wpc EXCEPT ![w] = "pop"]
      BY <2>1, <2>4
    <3> QED BY <1>2, <1>3, <1>4, <2>1, <2>2, <2>4, <3>1
  <2> QED BY <2>3, <2>4
<1>9. CASE Wrr!Pop(w)
  <2>1. wpc[w] = "pop" /\ wpc' = [wpc EXCEPT ![w] = "requeue"] /\ UNCHANGED <<seen, pos>>
    BY <1>9 DEF Wrr!Pop, Wrr!Goto
  <2>2. sel[w] # NULL /\ seen[w] <= num
    BY <1>3, <2>1 DEF Wrr!HandOK
  <2> QED BY <1>2, <1>3, <1>4, <2>1, <2>2
<1>10. CASE Wrr!Unlock(w)
  <2>1. wpc[w] = "unlock" /\ wpc' = [wpc EXCEPT ![w] = "wait"] /\ UNCHANGED <<seen, pos>>
    BY <1>10 DEF Wrr!Unlock, Wrr!Goto
  <2>2. sel[w] = NULL /\ seen[w] <= num
    BY <1>3, <2>1 DEF Wrr!HandOK
  <2> QED BY <1>2, <1>3, <1>4, <2>1, <2>2
<1> QED BY <1>5, <1>6, <1>7, <1>8, <1>9, <1>10

(* A VAQ goes to the back of high or of low, where it was not.             *)
LEMMA PushesVaq ==
  ASSUME Wrr!TrackTyped, NEW v \in Wrr!VaqSet, NEW c, Wrr!PushVaq(v, c),
         \A u \in Wrr!VaqSet : Wrr!Once(high, u) /\ Wrr!Once(low, u),
         ~Wrr!In(high, v), ~Wrr!In(low, v)
  PROVE  /\ high' \in Seq(Wrr!VaqSet) /\ low' \in Seq(Wrr!VaqSet)
         /\ \A u \in Wrr!VaqSet :
              /\ Wrr!Once(high', u) /\ Wrr!Once(low', u)
              /\ u # v => (Wrr!In(high', u) <=> Wrr!In(high, u)) /\ (Wrr!In(low', u) <=> Wrr!In(low, u))
         /\ (Wrr!In(high', v) /\ ~Wrr!In(low', v)) \/ (~Wrr!In(high', v) /\ Wrr!In(low', v))
<1>0. high \in Seq(Wrr!VaqSet) /\ low \in Seq(Wrr!VaqSet)
  BY DEF Wrr!TrackTyped
<1>1. CASE high' = Append(high, v) /\ low' = low
  BY <1>0, <1>1, Pushed
<1>2. CASE low' = Append(low, v) /\ high' = high
  BY <1>0, <1>2, Pushed
<1> QED BY <1>1, <1>2 DEF Wrr!PushVaq

(* The scan tests a VAQ.                                                   *)
LEMMA TrackScan ==
  ASSUME Wrr!WeightedAssumption, Wrr!TrackInv, NEW w \in Workers, Wrr!Scan(w)
  PROVE  Wrr!TrackInv'
<1>0. /\ Wrr!TrackTyped /\ Wrr!HandOK(w) /\ wpc[w] = "scan" /\ pos[w] <= seen[w]
      /\ UNCHANGED <<num, seen, sel, meta, high, low>>
  BY DEF Wrr!TrackInv, Wrr!Scan, Wrr!env, Wrr!shared
<1>1. \/ pos' = [pos EXCEPT ![w] = @ + 1] /\ UNCHANGED wpc
      \/ wpc' = [wpc EXCEPT ![w] = "insert"] /\ UNCHANGED pos /\ meta[Vaqs[pos[w]]] # TRUE
  BY DEF Wrr!Scan, Wrr!Goto
<1>2. /\ \A x \in Workers : x # w => wpc'[x] = wpc[x] /\ pos'[x] = pos[x]
      /\ \/ wpc'[w] = "scan" /\ pos'[w] = pos[w] + 1
         \/ wpc'[w] = "insert" /\ pos'[w] = pos[w] /\ meta[Vaqs[pos[w]]] # TRUE
      /\ wpc' \in [Workers -> {"wait", "lock", "scan", "insert", "choose", "free", "pop", "requeue",
                            "unlock"}]
      /\ pos' \in [Workers -> Nat] /\ pos[w] \in Nat
  <2> DEFINE L == {"wait", "lock", "scan", "insert", "choose", "free", "pop", "requeue", "unlock"}
  <2>1. /\ wpc \in [Workers -> L] /\ pos \in [Workers -> Nat] /\ "insert" \in L
    BY <1>0 DEF Wrr!TrackTyped
  <2> HIDE DEF L
  <2>2. CASE pos' = [pos EXCEPT ![w] = @ + 1] /\ UNCHANGED wpc
    <3>1. /\ \A x \in Workers : x # w => wpc'[x] = wpc[x] /\ pos'[x] = pos[x]
          /\ wpc'[w] = "scan" /\ pos'[w] = pos[w] + 1
          /\ wpc' \in [Workers -> L] /\ pos' \in [Workers -> Nat] /\ pos[w] \in Nat
      BY <1>0, <2>1, <2>2
    <3> QED BY <3>1 DEF L
  <2>3. CASE wpc' = [wpc EXCEPT ![w] = "insert"] /\ UNCHANGED pos /\ meta[Vaqs[pos[w]]] # TRUE
    <3>1. /\ \A x \in Workers : x # w => wpc'[x] = wpc[x] /\ pos'[x] = pos[x]
          /\ wpc'[w] = "insert" /\ pos'[w] = pos[w] /\ meta[Vaqs[pos[w]]] # TRUE
          /\ wpc' \in [Workers -> L] /\ pos' \in [Workers -> Nat] /\ pos[w] \in Nat
      BY <1>0, <2>1, <2>3
    <3> QED BY <3>1 DEF L
  <2> QED BY <1>1, <2>2, <2>3
<1>3. ASSUME NEW x \in Workers PROVE Wrr!HandOK(x)'
  <2>1. Wrr!HandOK(x)
    BY DEF Wrr!TrackInv
  <2>2. CASE x = w
    <3>1. /\ seen'[w] = seen[w] /\ num' = num /\ sel'[w] = NULL /\ seen[w] <= num
          /\ pos[w] >= 1 /\ pos[w] <= seen[w] /\ pos[w] \in Nat
      BY <1>0, <1>2 DEF Wrr!HandOK
    <3>2. CASE wpc'[w] = "scan" /\ pos'[w] = pos[w] + 1
      BY <2>2, <3>1, <3>2 DEF Wrr!HandOK
    <3>3. CASE wpc'[w] = "insert" /\ pos'[w] = pos[w]
      BY <2>2, <3>1, <3>3 DEF Wrr!HandOK
    <3> QED BY <1>2, <3>2, <3>3
  <2>3. CASE x # w
    BY <1>0, <1>2, <2>1, <2>3 DEF Wrr!HandOK
  <2> QED BY <2>2, <2>3
<1>4. ASSUME NEW x \in Workers PROVE Wrr!Tested(x)'
  <2>1. CASE x = w
    BY <1>0, <1>2, <2>1 DEF Wrr!Tested
  <2>2. CASE x # w
    BY <1>0, <1>2, <2>2, TestedKept
  <2> QED BY <2>1, <2>2
<1>5. num' \in 0 .. Len(Vaqs) /\ num' >= num /\ seen' \in [Workers -> Nat]
  BY <1>0 DEF Wrr!TrackTyped
<1> QED BY <1>0, <1>2, <1>3, <1>4, <1>5, TrackQuiet

(* A VAQ with tasks that is in no control queue is put into one.           *)
LEMMA TrackInsert ==
  ASSUME Wrr!WeightedAssumption, Wrr!TrackInv, Wrr!OneInserts, NEW w \in Workers, Wrr!Insert(w)
  PROVE  Wrr!TrackInv'
<1> DEFINE v == Vaqs[pos[w]]
<1>0. /\ Wrr!TrackTyped /\ Wrr!HandOK(w) /\ wpc[w] = "insert"
      /\ UNCHANGED <<num, seen, sel>> /\ pos' = [pos EXCEPT ![w] = pos[w] + 1]
      /\ wpc' = [wpc EXCEPT ![w] = "scan"]
  BY DEF Wrr!TrackInv, Wrr!Insert, Wrr!Goto, Wrr!env
<1>1. pos[w] \in 1 .. Len(Vaqs) /\ v \in Wrr!VaqSet
  BY <1>0, InsertsVaq
<1>2. \/ meta[v] # TRUE /\ meta' = [meta EXCEPT ![v] = TRUE] /\ \E c : Wrr!PushVaq(v, c)
      \/ meta[v] # TRUE /\ meta' = [meta EXCEPT ![v] = NULL] /\ UNCHANGED <<high, low>>
  BY <1>0 DEF Wrr!Insert, Wrr!InsertVaq, Wrr!TrackInv, Wrr!Tested
<1> HIDE DEF v
<1>3. /\ pos' \in [Workers -> Nat] /\ wpc'[w] = "scan"
      /\ wpc' \in [Workers -> {"wait", "lock", "scan", "insert", "choose", "free", "pop", "requeue",
                            "unlock"}]
      /\ \A x \in Workers : x # w => wpc'[x] = wpc[x] /\ pos'[x] = pos[x]
  BY <1>0, <1>1 DEF Wrr!TrackTyped
<1>4. ASSUME NEW x \in Workers PROVE Wrr!HandOK(x)'
  <2>1. Wrr!HandOK(x)
    BY DEF Wrr!TrackInv
  <2>2. pos'[x] = (IF x = w THEN pos[w] + 1 ELSE pos[x]) /\ pos[w] \in Nat /\ pos[w] >= 1
    BY <1>0, <1>1 DEF Wrr!TrackTyped
  <2> QED BY <1>0, <1>3, <2>1, <2>2 DEF Wrr!HandOK
<1>5. ASSUME NEW x \in Workers PROVE Wrr!Tested(x)'
  <2>1. SUFFICES ASSUME wpc'[x] = "insert" PROVE meta'[Vaqs[pos'[x]]] # TRUE
    BY DEF Wrr!Tested
  <2>2. x # w /\ wpc[x] = "insert" /\ pos'[x] = pos[x]
    BY <1>3, <2>1
  <2>3. Vaqs[pos[x]] \in Wrr!VaqSet /\ meta[Vaqs[pos[x]]] # TRUE
    BY <2>2, InsertsVaq DEF Wrr!TrackInv, Wrr!Tested
  <2>4. Vaqs[pos[x]] # v
    BY <1>0, <2>2 DEF Wrr!OneInserts, v
  <2>5. meta'[Vaqs[pos[x]]] = meta[Vaqs[pos[x]]]
    BY <1>0, <1>1, <1>2, <2>3, <2>4 DEF Wrr!TrackTyped
  <2> QED BY <2>2, <2>3, <2>5
<1>6. meta[v] # TRUE => ~Wrr!In(high, v) /\ ~Wrr!In(low, v) /\ ~Wrr!InHands(v)
  BY <1>1 DEF Wrr!TrackInv, Wrr!OnceOK
<1>7. ASSUME NEW u PROVE (Wrr!InHands(u)' <=> Wrr!InHands(u)) /\ (Wrr!OneHand(u)' <=> Wrr!OneHand(u))
  BY <1>0 DEF Wrr!InHands, Wrr!OneHand
<1>8. CASE meta[v] # TRUE /\ meta' = [meta EXCEPT ![v] = TRUE] /\ \E c : Wrr!PushVaq(v, c)
  <2>1. /\ high' \in Seq(Wrr!VaqSet) /\ low' \in Seq(Wrr!VaqSet)
        /\ \A u \in Wrr!VaqSet :
              /\ Wrr!Once(high', u) /\ Wrr!Once(low', u)
              /\ u # v => (Wrr!In(high', u) <=> Wrr!In(high, u)) /\ (Wrr!In(low', u) <=> Wrr!In(low, u))
        /\ (Wrr!In(high', v) /\ ~Wrr!In(low', v)) \/ (~Wrr!In(high', v) /\ Wrr!In(low', v))
    <3>1. \A u \in Wrr!VaqSet : Wrr!Once(high, u) /\ Wrr!Once(low, u)
      BY DEF Wrr!TrackInv, Wrr!OnceOK
    <3> QED BY <1>0, <1>1, <1>6, <1>8, <3>1, PushesVaq
  <2>2. /\ meta' \in [Wrr!VaqSet -> {NULL, TRUE, FALSE}] /\ meta'[v] = TRUE
        /\ \A u \in Wrr!VaqSet : u # v => meta'[u] = meta[u]
    BY <1>0, <1>1, <1>8 DEF Wrr!TrackTyped
  <2>3. ASSUME NEW u \in Wrr!VaqSet PROVE Wrr!OnceOK(u)'
    <3>1. Wrr!OnceOK(u)
      BY DEF Wrr!TrackInv
    <3> QED BY <1>6, <1>7, <1>8, <2>1, <2>2, <3>1 DEF Wrr!OnceOK
  <2>4. Wrr!TrackTyped'
    BY <1>0, <1>3, <2>1, <2>2 DEF Wrr!TrackTyped
  <2> QED BY <1>4, <1>5, <2>3, <2>4 DEF Wrr!TrackInv
<1>9. CASE meta[v] # TRUE /\ meta' = [meta EXCEPT ![v] = NULL] /\ UNCHANGED <<high, low>>
  <2>1. /\ meta' \in [Wrr!VaqSet -> {NULL, TRUE, FALSE}] /\ meta'[v] = NULL
        /\ \A u \in Wrr!VaqSet : u # v => meta'[u] = meta[u]
    BY <1>0, <1>1, <1>9 DEF Wrr!TrackTyped
  <2>2. meta'[v] # TRUE
    BY <2>1 DEF Wrr!WeightedAssumption
  <2>3. ASSUME NEW u \in Wrr!VaqSet PROVE Wrr!OnceOK(u)'
    <3>1. Wrr!OnceOK(u)
      BY DEF Wrr!TrackInv
    <3> QED BY <1>6, <1>7, <1>9, <2>1, <2>2, <3>1 DEF Wrr!OnceOK
  <2>4. Wrr!TrackTyped'
    BY <1>0, <1>3, <1>9, <2>1 DEF Wrr!TrackTyped
  <2> QED BY <1>4, <1>5, <2>3, <2>4 DEF Wrr!TrackInv
<1> QED BY <1>2, <1>8, <1>9

(* A VAQ leaves its control queue for the hands of a worker, or the group. *)
LEMMA TrackTake ==
  ASSUME Wrr!WeightedAssumption, Wrr!TrackInv, NEW w \in Workers, wpc[w] = "choose", NEW v \in Wrr!VaqSet,
         Wrr!In(high, v) \/ Wrr!In(low, v),
         high' \in Seq(Wrr!VaqSet), low' \in Seq(Wrr!VaqSet),
         \A u \in Wrr!VaqSet :
           /\ Wrr!In(high', u) <=> Wrr!In(high, u) /\ u # v
           /\ Wrr!In(low', u) <=> Wrr!In(low, u) /\ u # v
           /\ Wrr!Once(high', u) /\ Wrr!Once(low', u),
         \/ meta' = meta /\ sel' = [sel EXCEPT ![w] = v]
         \/ meta' = [meta EXCEPT ![v] = FALSE] /\ sel' = sel,
         wpc' = [wpc EXCEPT ![w] = "free"], UNCHANGED <<num, seen, pos>>
  PROVE  Wrr!TrackInv'
<1>0. Wrr!TrackTyped /\ \A x \in Workers : Wrr!HandOK(x)
  BY DEF Wrr!TrackInv
<1>1. /\ wpc'[w] = "free" /\ \A x \in Workers : x # w => wpc'[x] = wpc[x] /\ sel'[x] = sel[x]
      /\ wpc' \in [Workers -> {"wait", "lock", "scan", "insert", "choose", "free", "pop", "requeue",
                            "unlock"}]
      /\ sel' \in [Workers -> Wrr!VaqSet \cup {NULL}]
  BY <1>0 DEF Wrr!TrackTyped
<1>2. meta' \in [Wrr!VaqSet -> {NULL, TRUE, FALSE}] /\ \A u \in Wrr!VaqSet : u # v => meta'[u] = meta[u]
  BY <1>0 DEF Wrr!TrackTyped
<1>3. Wrr!TrackTyped'
  BY <1>0, <1>1, <1>2 DEF Wrr!TrackTyped
<1>4. ASSUME NEW x \in Workers PROVE Wrr!HandOK(x)'
  BY <1>0, <1>1 DEF Wrr!HandOK
<1>5. Wrr!OnceOK(v) /\ ~Wrr!InHands(v) /\ sel[w] = NULL
  BY <1>0 DEF Wrr!TrackInv, Wrr!OnceOK, Wrr!HandOK
<1>6. \A x \in Workers : sel[x] # v
  BY <1>5 DEF Wrr!InHands
<1>7. ASSUME NEW u \in Wrr!VaqSet, u # v PROVE Wrr!OnceOK(u)'
  <2>1. Wrr!OnceOK(u) /\ u # NULL
    BY DEF Wrr!TrackInv, Wrr!WeightedAssumption
  <2>2. \A x \in Workers : sel'[x] = u <=> sel[x] = u
    BY <1>0, <1>1, <1>5, <1>7, <2>1 DEF Wrr!TrackTyped
  <2>3. (Wrr!InHands(u)' <=> Wrr!InHands(u)) /\ (Wrr!OneHand(u)' <=> Wrr!OneHand(u))
    BY <2>2 DEF Wrr!InHands, Wrr!OneHand
  <2> QED BY <1>2, <1>7, <2>1, <2>3 DEF Wrr!OnceOK
<1>8. Wrr!OnceOK(v)'
  <2>1. CASE meta' = meta /\ sel' = [sel EXCEPT ![w] = v]
    <3>1. sel'[w] = v /\ \A x \in Workers : x # w => sel'[x] # v
      BY <1>0, <1>1, <1>6, <2>1 DEF Wrr!TrackTyped
    <3>2. Wrr!InHands(v)' /\ Wrr!OneHand(v)'
      BY <3>1 DEF Wrr!InHands, Wrr!OneHand
    <3> QED BY <1>5, <2>1, <3>2 DEF Wrr!OnceOK
  <2>2. CASE meta' = [meta EXCEPT ![v] = FALSE] /\ sel' = sel
    <3>1. ~Wrr!InHands(v)' /\ Wrr!OneHand(v)'
      BY <1>6, <2>2 DEF Wrr!InHands, Wrr!OneHand
    <3>2. meta'[v] # TRUE
      BY <1>0, <2>2 DEF Wrr!TrackTyped
    <3> QED BY <3>1, <3>2 DEF Wrr!OnceOK
  <2> QED BY <2>1, <2>2
<1>9. ASSUME NEW x \in Workers PROVE Wrr!Tested(x)'
  <2>1. meta'[v] = meta[v] \/ meta'[v] # TRUE
    BY <1>0 DEF Wrr!TrackTyped
  <2>2. \A u \in Wrr!VaqSet : meta'[u] = meta[u] \/ meta'[u] # TRUE
    BY <1>2, <2>1
  <2> QED BY <1>1, <2>2, TestedKept
<1> QED BY <1>3, <1>4, <1>7, <1>8, <1>9 DEF Wrr!TrackInv

LEMMA TrackChoose ==
  ASSUME Wrr!WeightedAssumption, Wrr!TrackInv, NEW w \in Workers, Wrr!Choose(w)
  PROVE  Wrr!TrackInv'
<1>0. /\ wpc[w] = "choose" /\ wpc' = [wpc EXCEPT ![w] = "free"] /\ UNCHANGED <<num, seen, pos>>
      /\ high \in Seq(Wrr!VaqSet) /\ low \in Seq(Wrr!VaqSet) /\ Wrr!TrackTyped
  BY DEF Wrr!Choose, Wrr!Goto, Wrr!TrackInv, Wrr!TrackTyped
<1>1. \A u \in Wrr!VaqSet : Wrr!OnceOK(u)
  BY DEF Wrr!TrackInv
<1>2. ASSUME NEW v, NEW n, Wrr!Select(w, v, n)
      PROVE  \/ meta' = meta /\ sel' = [sel EXCEPT ![w] = v]
             \/ meta' = [meta EXCEPT ![v] = FALSE] /\ sel' = sel
  BY <1>2 DEF Wrr!Select
<1>3. CASE high # <<>> /\ Wrr!ChooseHigh(w) /\ high' = Tail(high) /\ UNCHANGED low
  <2> DEFINE v == Head(high)
  <2>1. v \in Wrr!VaqSet
    BY <1>0, <1>3
  <2>2. Wrr!Once(high, v)
    BY <1>1, <2>1 DEF Wrr!OnceOK
  <2>3. /\ high' \in Seq(Wrr!VaqSet) /\ Wrr!In(high, v)
        /\ \A u : Wrr!In(high', u) <=> Wrr!In(high, u) /\ u # v
        /\ \A u : Wrr!Once(high, u) => Wrr!Once(high', u)
    BY <1>0, <1>3, <2>2, Popped
  <2>4. \/ meta' = meta /\ sel' = [sel EXCEPT ![w] = v]
        \/ meta' = [meta EXCEPT ![v] = FALSE] /\ sel' = sel
    BY <1>2, <1>3 DEF Wrr!ChooseHigh
  <2> HIDE DEF v
  <2>5. ASSUME NEW u \in Wrr!VaqSet
        PROVE  /\ Wrr!In(high', u) <=> Wrr!In(high, u) /\ u # v
               /\ Wrr!In(low', u) <=> Wrr!In(low, u) /\ u # v
               /\ Wrr!Once(high', u) /\ Wrr!Once(low', u)
    BY <1>1, <1>3, <2>1, <2>3 DEF Wrr!OnceOK
  <2> QED BY <1>0, <1>3, <2>1, <2>3, <2>4, <2>5, TrackTake
<1>4. CASE high = <<>> /\ low # <<>> /\ Wrr!ChooseLow(w) /\ low' = Tail(low) /\ UNCHANGED high
  <2> DEFINE v == Head(low)
  <2>1. v \in Wrr!VaqSet
    BY <1>0, <1>4
  <2>2. Wrr!Once(low, v)
    BY <1>1, <2>1 DEF Wrr!OnceOK
  <2>3. /\ low' \in Seq(Wrr!VaqSet) /\ Wrr!In(low, v)
        /\ \A u : Wrr!In(low', u) <=> Wrr!In(low, u) /\ u # v
        /\ \A u : Wrr!Once(low, u) => Wrr!Once(low', u)
    BY <1>0, <1>4, <2>2, Popped
  <2>4. \/ meta' = meta /\ sel' = [sel EXCEPT ![w] = v]
        \/ meta' = [meta EXCEPT ![v] = FALSE] /\ sel' = sel
    BY <1>2, <1>4 DEF Wrr!ChooseLow
  <2> HIDE DEF v
  <2>5. ASSUME NEW u \in Wrr!VaqSet
        PROVE  /\ Wrr!In(high', u) <=> Wrr!In(high, u) /\ u # v
               /\ Wrr!In(low', u) <=> Wrr!In(low, u) /\ u # v
               /\ Wrr!Once(high', u) /\ Wrr!Once(low', u)
    BY <1>1, <1>4, <2>1, <2>3 DEF Wrr!OnceOK
  <2> QED BY <1>0, <1>4, <2>1, <2>3, <2>4, <2>5, TrackTake
<1>5. CASE UNCHANGED <<sel, meta, high, low>>
  <2>1. /\ wpc'[w] = "free" /\ \A x \in Workers : x # w => wpc'[x] = wpc[x]
        /\ wpc' \in [Workers -> {"wait", "lock", "scan", "insert", "choose", "free", "pop", "requeue",
                            "unlock"}]
    BY <1>0 DEF Wrr!TrackTyped
  <2>2. ASSUME NEW x \in Workers PROVE Wrr!HandOK(x)'
    <3>1. Wrr!HandOK(x)
      BY DEF Wrr!TrackInv
    <3> QED BY <1>0, <1>5, <2>1, <3>1 DEF Wrr!HandOK
  <2>3. num' \in 0 .. Len(Vaqs) /\ num' >= num /\ seen' \in [Workers -> Nat] /\ pos' \in [Workers -> Nat]
    BY <1>0 DEF Wrr!TrackTyped
  <2>4. ASSUME NEW x \in Workers PROVE Wrr!Tested(x)'
    BY <1>0, <1>5, <2>1, TestedKept
  <2> QED BY <1>5, <2>1, <2>2, <2>3, <2>4, TrackQuiet
<1> QED BY <1>3, <1>4, <1>5 DEF Wrr!Choose

(* A worker puts its VAQ back, or takes it out of the group.               *)
LEMMA TrackRequeue ==
  ASSUME Wrr!WeightedAssumption, Wrr!TrackInv, NEW w \in Workers, Wrr!Requeue(w)
  PROVE  Wrr!TrackInv'
<1>0. /\ wpc[w] = "requeue" /\ wpc' = [wpc EXCEPT ![w] = "unlock"] /\ sel' = [sel EXCEPT ![w] = NULL]
      /\ UNCHANGED <<num, seen, pos>> /\ Wrr!TrackTyped /\ \A x \in Workers : Wrr!HandOK(x)
  BY DEF Wrr!Requeue, Wrr!Goto, Wrr!TrackInv, Wrr!env
<1>1. PICK v \in Wrr!VaqSet : v = sel[w] /\ v # NULL
  BY <1>0 DEF Wrr!TrackTyped, Wrr!HandOK
<1>2. \/ meta' = meta /\ \E c : Wrr!PushVaq(v, c)
      \/ meta' = [meta EXCEPT ![v] = NULL] /\ UNCHANGED <<high, low>>
  BY <1>1 DEF Wrr!Requeue
<1>3. Wrr!OnceOK(v) /\ meta[v] = TRUE /\ ~Wrr!In(high, v) /\ ~Wrr!In(low, v) /\ Wrr!OneHand(v)
  <2>1. Wrr!InHands(v)
    BY <1>1 DEF Wrr!InHands
  <2> QED BY <2>1 DEF Wrr!TrackInv, Wrr!OnceOK
<1>4. /\ wpc'[w] = "unlock" /\ sel'[w] = NULL
      /\ \A x \in Workers : x # w => wpc'[x] = wpc[x] /\ sel'[x] = sel[x]
      /\ wpc' \in [Workers -> {"wait", "lock", "scan", "insert", "choose", "free", "pop", "requeue",
                            "unlock"}]
      /\ sel' \in [Workers -> Wrr!VaqSet \cup {NULL}]
  BY <1>0 DEF Wrr!TrackTyped
<1>5. ASSUME NEW x \in Workers PROVE Wrr!HandOK(x)'
  BY <1>0, <1>4 DEF Wrr!HandOK
<1>6. ~Wrr!InHands(v)' /\ Wrr!OneHand(v)'
  <2>1. \A x \in Workers : sel'[x] # v
    BY <1>1, <1>3, <1>4 DEF Wrr!OneHand
  <2> QED BY <2>1 DEF Wrr!InHands, Wrr!OneHand
<1>7. ASSUME NEW u \in Wrr!VaqSet, u # v
      PROVE  (Wrr!InHands(u)' <=> Wrr!InHands(u)) /\ (Wrr!OneHand(u)' <=> Wrr!OneHand(u))
  <2>1. \A x \in Workers : sel'[x] = u <=> sel[x] = u
    BY <1>1, <1>4, <1>7 DEF Wrr!WeightedAssumption
  <2> QED BY <2>1 DEF Wrr!InHands, Wrr!OneHand
<1>5a. ASSUME NEW x \in Workers PROVE Wrr!Tested(x)'
  <2>1. \A u \in Wrr!VaqSet : meta'[u] = meta[u] \/ meta'[u] # TRUE
    BY <1>0, <1>2 DEF Wrr!TrackTyped, Wrr!WeightedAssumption
  <2> QED BY <1>0, <1>4, <2>1, TestedKept
<1>8. CASE meta' = meta /\ \E c : Wrr!PushVaq(v, c)
  <2>1. /\ high' \in Seq(Wrr!VaqSet) /\ low' \in Seq(Wrr!VaqSet)
        /\ \A u \in Wrr!VaqSet :
              /\ Wrr!Once(high', u) /\ Wrr!Once(low', u)
              /\ u # v => (Wrr!In(high', u) <=> Wrr!In(high, u)) /\ (Wrr!In(low', u) <=> Wrr!In(low, u))
        /\ (Wrr!In(high', v) /\ ~Wrr!In(low', v)) \/ (~Wrr!In(high', v) /\ Wrr!In(low', v))
    <3>1. \A u \in Wrr!VaqSet : Wrr!Once(high, u) /\ Wrr!Once(low, u)
      BY DEF Wrr!TrackInv, Wrr!OnceOK
    <3> QED BY <1>0, <1>3, <1>8, <3>1, PushesVaq
  <2>2. ASSUME NEW u \in Wrr!VaqSet PROVE Wrr!OnceOK(u)'
    <3>1. Wrr!OnceOK(u)
      BY DEF Wrr!TrackInv
    <3>2. CASE u = v
      BY <1>3, <1>6, <1>8, <2>1, <3>2 DEF Wrr!OnceOK
    <3>3. CASE u # v
      BY <1>7, <1>8, <2>1, <3>1, <3>3 DEF Wrr!OnceOK
    <3> QED BY <3>2, <3>3
  <2>3. Wrr!TrackTyped'
    BY <1>0, <1>4, <1>8, <2>1 DEF Wrr!TrackTyped
  <2> QED BY <1>5, <1>5a, <2>2, <2>3 DEF Wrr!TrackInv
<1>9. CASE meta' = [meta EXCEPT ![v] = NULL] /\ UNCHANGED <<high, low>>
  <2>1. /\ meta' \in [Wrr!VaqSet -> {NULL, TRUE, FALSE}] /\ meta'[v] = NULL
        /\ \A u \in Wrr!VaqSet : u # v => meta'[u] = meta[u]
    BY <1>0, <1>9 DEF Wrr!TrackTyped
  <2>2. meta'[v] # TRUE
    BY <2>1 DEF Wrr!WeightedAssumption
  <2>3. ASSUME NEW u \in Wrr!VaqSet PROVE Wrr!OnceOK(u)'
    <3>1. Wrr!OnceOK(u)
      BY DEF Wrr!TrackInv
    <3>2. CASE u = v
      BY <1>3, <1>6, <1>9, <2>2, <3>1, <3>2 DEF Wrr!OnceOK
    <3>3. CASE u # v
      BY <1>7, <1>9, <2>1, <3>1, <3>3 DEF Wrr!OnceOK
    <3> QED BY <3>2, <3>3
  <2>4. Wrr!TrackTyped'
    BY <1>0, <1>4, <1>9, <2>1 DEF Wrr!TrackTyped
  <2> QED BY <1>5, <1>5a, <2>3, <2>4 DEF Wrr!TrackInv
<1> QED BY <1>2, <1>8, <1>9

(* What applications do.                                                   *)
LEMMA TrackOthers ==
  ASSUME Wrr!WeightedAssumption, Wrr!TrackInv,
         UNCHANGED <<high, low, meta, sel, wpc, seen, pos>>,
         num' = num \/ (num < Len(Vaqs) /\ num' = num + 1)
  PROVE  Wrr!TrackInv'
<1>1. Wrr!TrackTyped /\ Len(Vaqs) \in Nat
  BY DEF Wrr!TrackInv, Wrr!WeightedAssumption
<1>2. num' \in 0 .. Len(Vaqs) /\ num' >= num /\ num \in Nat
  BY <1>1 DEF Wrr!TrackTyped
<1>3. ASSUME NEW x \in Workers PROVE Wrr!HandOK(x)'
  <2>1. Wrr!HandOK(x) /\ seen[x] \in Nat
    BY <1>1 DEF Wrr!TrackInv, Wrr!TrackTyped
  <2> QED BY <1>2, <2>1 DEF Wrr!HandOK
<1>4. ASSUME NEW x \in Workers PROVE Wrr!Tested(x)'
  BY TestedKept
<1> QED BY <1>1, <1>2, <1>3, <1>4, TrackQuiet DEF Wrr!TrackTyped

LEMMA TrackStep ==
  ASSUME Wrr!WeightedAssumption, Wrr!TrackInv, Wrr!OneInserts, [Wrr!Next]_(Wrr!vars)
  PROVE  Wrr!TrackInv'
<1>1. CASE UNCHANGED Wrr!vars
  BY <1>1, TrackOthers DEF Wrr!vars, Wrr!env, Wrr!shared
<1>2. CASE Wrr!Acquire
  BY <1>2, TrackOthers DEF Wrr!Acquire, Wrr!shared
<1>3. CASE Wrr!IssueSignal \/ \E v \in Wrr!VaqSet : Wrr!SetCid(v) \/ \E p \in Procs : Wrr!IssuePush(v, p)
  <2>1. UNCHANGED <<num, high, low, meta, sel, wpc, seen, pos>>
    BY <1>3 DEF Wrr!IssueSignal, Wrr!SetCid, Wrr!IssuePush, Wrr!shared
  <2> QED BY <2>1, TrackOthers
<1>4. CASE \E w \in Workers : Wrr!Worker(w)
  BY <1>4, TrackControl, TrackScan, TrackInsert, TrackChoose, TrackRequeue DEF Wrr!Worker
<1> QED BY <1>1, <1>2, <1>3, <1>4 DEF Wrr!Next

(* The sets that Places counts are empty or singletons.                    *)
LEMMA CountedOnce ==
  ASSUME NEW S, \A x, y \in S : x = y
  PROVE  Wrr!Cardinality(S) = IF S = {} THEN 0 ELSE 1
<1>0. Wrr!Cardinality(S) = Cardinality(S)
  BY DEF Wrr!IsFiniteSet, Wrr!Cardinality, IsFiniteSet, Cardinality
<1>1. CASE S = {}
  BY <1>0, <1>1, FS_EmptySet
<1>2. CASE S # {}
  <2>1. PICK x \in S : S = {x}
    BY <1>2
  <2> QED BY <1>0, <1>2, <2>1, FS_Singleton
<1> QED BY <1>1, <1>2

(* With one worker a VAQ that the weighted scheduler tracks is in high, in *)
(* low or in the worker's hands, and there once; one that it does not      *)
(* track is in none.  With more it holds until two insert one VAQ          *)
(* (OneInserts in TrackStep), which the second unlock of myMutex permits.  *)
THEOREM WeightedTracked ==
  ASSUME Wrr!WeightedAssumption, \A w, x \in Workers : w = x
  PROVE  Wrr!Spec => []Wrr!TrackedOnce
<1>1. Wrr!Init => Wrr!TrackInv
  BY TrackInit
<1>2. Wrr!TrackInv /\ [Wrr!Next]_(Wrr!vars) => Wrr!TrackInv'
  <2>1. Wrr!OneInserts
    BY DEF Wrr!OneInserts
  <2> QED BY <2>1, TrackStep
<1>3. Wrr!TrackInv => Wrr!TrackedOnce
  <2>1. SUFFICES ASSUME Wrr!TrackInv, NEW v \in Wrr!VaqSet
                 PROVE  Wrr!Places(v) = IF meta[v] = TRUE THEN 1 ELSE 0
    BY DEF Wrr!TrackedOnce
  <2> DEFINE H == {i \in DOMAIN high : high[i] = v}
             L == {i \in DOMAIN low : low[i] = v}
             S == {w \in Workers : sel[w] = v}
  <2>2. DOMAIN high = 1 .. Len(high) /\ DOMAIN low = 1 .. Len(low)
    BY <2>1 DEF Wrr!TrackInv, Wrr!TrackTyped
  <2>3. Wrr!OnceOK(v)
    BY <2>1 DEF Wrr!TrackInv
  <2>4. (\A x, y \in H : x = y) /\ (H # {} <=> Wrr!In(high, v))
    BY <2>2, <2>3 DEF Wrr!OnceOK, Wrr!Once, Wrr!In
  <2>5. (\A x, y \in L : x = y) /\ (L # {} <=> Wrr!In(low, v))
    BY <2>2, <2>3 DEF Wrr!OnceOK, Wrr!Once, Wrr!In
  <2>6. (\A x, y \in S : x = y) /\ (S # {} <=> Wrr!InHands(v))
    BY <2>3 DEF Wrr!OnceOK, Wrr!OneHand, Wrr!InHands
  <2>7. Wrr!Places(v) = Wrr!Cardinality(H) + Wrr!Cardinality(L) + Wrr!Cardinality(S)
    BY DEF Wrr!Places
  <2> HIDE DEF H, L, S
  <2>8. /\ Wrr!Cardinality(H) = IF H = {} THEN 0 ELSE 1
        /\ Wrr!Cardinality(L) = IF L = {} THEN 0 ELSE 1
        /\ Wrr!Cardinality(S) = IF S = {} THEN 0 ELSE 1
    BY <2>4, <2>5, <2>6, CountedOnce
  <2> QED BY <2>3, <2>4, <2>5, <2>6, <2>7, <2>8 DEF Wrr!OnceOK
<1> QED BY <1>1, <1>2, <1>3, PTL DEF Wrr!Spec

(* What is in a control queue stays there when its head is popped, but for *)
(* the head.                                                               *)
LEMMA TailKeeps ==
  ASSUME NEW T, NEW s \in Seq(T), s # <<>>
  PROVE  /\ Tail(s) \in Seq(T) /\ Head(s) \in T
         /\ \A u : Wrr!In(s, u) /\ u # Head(s) => Wrr!In(Tail(s), u)
<1> DEFINE t == Tail(s)
           h == Head(s)
<1>1. /\ t \in Seq(T) /\ Len(t) = Len(s) - 1 /\ Len(s) \in Nat /\ Len(s) > 0 /\ h = s[1] /\ h \in T
      /\ \A i \in 1 .. Len(t) : t[i] = s[i + 1]
  OBVIOUS
<1> HIDE DEF t, h
<1>2. ASSUME NEW u, NEW i \in 1 .. Len(s), s[i] = u, u # h PROVE Wrr!In(t, u)
  <2>1. i # 1
    BY <1>1, <1>2
  <2>2. i - 1 \in 1 .. Len(t) /\ t[i - 1] = u
    BY <1>1, <1>2, <2>1
  <2> QED BY <2>2 DEF Wrr!In
<1>3. \A u : Wrr!In(s, u) /\ u # h => Wrr!In(t, u)
  BY <1>2 DEF Wrr!In
<1> QED BY <1>1, <1>3 DEF t, h

(* A worker goes on, whatever it does to the queues.                       *)
LEMMA HandsMove ==
  ASSUME Wrr!TrackTyped, \A x \in Workers : Wrr!HandOK(x), NEW w \in Workers,
         NEW l \in {"wait", "lock", "scan", "insert", "choose", "free", "pop", "requeue", "unlock"},
         NEW n \in Nat, NEW p \in Nat, NEW s \in Wrr!VaqSet \cup {NULL},
         wpc' = [wpc EXCEPT ![w] = l], seen' = [seen EXCEPT ![w] = n],
         pos' = [pos EXCEPT ![w] = p], sel' = [sel EXCEPT ![w] = s], num' = num,
         n <= num, l \in {"scan", "insert"} => p >= 1, l = "insert" => p <= n,
         l \in {"wait", "lock", "scan", "insert", "choose", "unlock"} => s = NULL,
         l \in {"pop", "requeue"} => s # NULL,
         high' \in Seq(Wrr!VaqSet), low' \in Seq(Wrr!VaqSet),
         meta' \in [Wrr!VaqSet -> {NULL, TRUE, FALSE}]
  PROVE  Wrr!TrackTyped' /\ \A x \in Workers : Wrr!HandOK(x)'
<1> DEFINE Labels == {"wait", "lock", "scan", "insert", "choose", "free", "pop", "requeue", "unlock"}
<1>0. wpc \in [Workers -> Labels] /\ l \in Labels
  BY DEF Wrr!TrackTyped
<1> HIDE DEF Labels
<1>1. /\ wpc' \in [Workers -> Labels] /\ wpc'[w] = l
      /\ \A x \in Workers : x # w => wpc'[x] = wpc[x]
  BY <1>0
<1>2. /\ seen' \in [Workers -> Nat] /\ pos' \in [Workers -> Nat]
      /\ sel' \in [Workers -> Wrr!VaqSet \cup {NULL}]
      /\ seen'[w] = n /\ pos'[w] = p /\ sel'[w] = s
      /\ \A x \in Workers : x # w => seen'[x] = seen[x] /\ pos'[x] = pos[x] /\ sel'[x] = sel[x]
  BY DEF Wrr!TrackTyped
<1>3. Wrr!TrackTyped'
  BY <1>1, <1>2 DEF Wrr!TrackTyped, Labels
<1>4. ASSUME NEW x \in Workers PROVE Wrr!HandOK(x)'
  <2>1. CASE x = w
    BY <1>1, <1>2, <2>1 DEF Wrr!HandOK
  <2>2. CASE x # w
    <3>1. Wrr!HandOK(x)
      OBVIOUS
    <3> QED BY <1>1, <1>2, <2>2, <3>1 DEF Wrr!HandOK
  <2> QED BY <2>1, <2>2
<1> QED BY <1>3, <1>4

(* The steps of a worker that move no VAQ.                                 *)
LEMMA KeptQuiet ==
  ASSUME Wrr!WeightedAssumption, Wrr!KeptInv, NEW w \in Workers,
         \/ Wrr!Wait(w) \/ Wrr!Lock(w) \/ Wrr!Scan(w) \/ Wrr!AddToken(w) \/ Wrr!Free(w)
         \/ Wrr!Pop(w) \/ Wrr!Unlock(w)
  PROVE  Wrr!KeptInv'
<1>a. Wrr!TrackTyped /\ \A x \in Workers : Wrr!HandOK(x)
  BY DEF Wrr!KeptInv
<1>b. Len(Vaqs) \in Nat
  BY DEF Wrr!WeightedAssumption
<1>0. /\ seen[w] \in Nat /\ pos[w] \in Nat /\ sel[w] \in Wrr!VaqSet \cup {NULL} /\ num \in Nat
  BY <1>a, <1>b DEF Wrr!TrackTyped
<1>1. UNCHANGED <<num, high, low, meta, sel>>
  BY DEF Wrr!Wait, Wrr!Lock, Wrr!Scan, Wrr!AddToken, Wrr!Free, Wrr!Pop, Wrr!Unlock, Wrr!env,
         Wrr!shared
<1>2. /\ seen = [seen EXCEPT ![w] = seen[w]] /\ pos = [pos EXCEPT ![w] = pos[w]]
      /\ wpc = [wpc EXCEPT ![w] = wpc[w]]
  BY <1>a DEF Wrr!TrackTyped
<1>2a. /\ high' \in Seq(Wrr!VaqSet) /\ low' \in Seq(Wrr!VaqSet)
       /\ meta' \in [Wrr!VaqSet -> {NULL, TRUE, FALSE}] /\ sel' = [sel EXCEPT ![w] = sel[w]]
  BY <1>a, <1>1 DEF Wrr!TrackTyped
<1>2b. ASSUME NEW l \in {"wait", "lock", "scan", "insert", "choose", "free", "pop", "requeue",
                         "unlock"},
              NEW n \in Nat, NEW p \in Nat,
              wpc' = [wpc EXCEPT ![w] = l], seen' = [seen EXCEPT ![w] = n],
              pos' = [pos EXCEPT ![w] = p],
              n <= num, l \in {"scan", "insert"} => p >= 1, l = "insert" => p <= n,
              l \in {"wait", "lock", "scan", "insert", "choose", "unlock"} => sel[w] = NULL,
              l \in {"pop", "requeue"} => sel[w] # NULL
       PROVE  Wrr!TrackTyped' /\ \A x \in Workers : Wrr!HandOK(x)'
  BY <1>a, <1>0, <1>1, <1>2a, <1>2b, HandsMove
<1>3. Wrr!TrackTyped' /\ \A x \in Workers : Wrr!HandOK(x)'
  <2>0. Wrr!HandOK(w)
    BY <1>a
  <2>1. CASE Wrr!Wait(w)
    <3>1. /\ wpc[w] = "wait" /\ wpc' = [wpc EXCEPT ![w] = "lock"]
          /\ seen' = [seen EXCEPT ![w] = num] /\ UNCHANGED pos
      BY <2>1 DEF Wrr!Wait, Wrr!Goto
    <3>2. sel[w] = NULL /\ num <= num /\ pos' = [pos EXCEPT ![w] = pos[w]]
      BY <1>0, <1>2, <2>0, <3>1 DEF Wrr!HandOK
    <3> QED BY <1>0, <1>2b, <3>1, <3>2
  <2>2. CASE Wrr!Lock(w)
    <3>1. /\ wpc[w] = "lock" /\ wpc' = [wpc EXCEPT ![w] = "scan"]
          /\ pos' = [pos EXCEPT ![w] = 1] /\ UNCHANGED seen
      BY <2>2 DEF Wrr!Lock, Wrr!Goto
    <3>2. sel[w] = NULL /\ seen[w] <= num /\ seen' = [seen EXCEPT ![w] = seen[w]]
      BY <1>2, <2>0, <3>1 DEF Wrr!HandOK
    <3>3. PICK p \in Nat : p = 1
      OBVIOUS
    <3>4. p >= 1 /\ pos' = [pos EXCEPT ![w] = p]
      BY <3>1, <3>3
    <3> QED BY <1>0, <1>2b, <3>1, <3>2, <3>4
  <2>3. CASE Wrr!Scan(w)
    <3>1. /\ wpc[w] = "scan" /\ UNCHANGED seen /\ pos[w] <= seen[w]
          /\ \/ pos' = [pos EXCEPT ![w] = pos[w] + 1] /\ UNCHANGED wpc
             \/ wpc' = [wpc EXCEPT ![w] = "insert"] /\ UNCHANGED pos
      BY <2>3 DEF Wrr!Scan, Wrr!Goto
    <3>2. sel[w] = NULL /\ seen[w] <= num /\ pos[w] >= 1
      BY <2>0, <3>1 DEF Wrr!HandOK
    <3>3. CASE pos' = [pos EXCEPT ![w] = pos[w] + 1] /\ UNCHANGED wpc
      <4>1. wpc' = [wpc EXCEPT ![w] = "scan"] /\ pos[w] + 1 \in Nat /\ pos[w] + 1 >= 1
        BY <1>0, <1>2, <3>1, <3>3
      <4> QED BY <1>0, <1>2, <1>2b, <3>1, <3>2, <3>3, <4>1
    <3>4. CASE wpc' = [wpc EXCEPT ![w] = "insert"] /\ UNCHANGED pos
      BY <1>0, <1>2, <1>2b, <3>1, <3>2, <3>4
    <3> QED BY <3>1, <3>3, <3>4
  <2>4. CASE Wrr!AddToken(w)
    <3>1. /\ wpc[w] = "scan" /\ wpc' = [wpc EXCEPT ![w] = "choose"]
          /\ pos' = [pos EXCEPT ![w] = 0] /\ seen' = [seen EXCEPT ![w] = 0]
      BY <2>4 DEF Wrr!AddToken, Wrr!Goto
    <3>2. sel[w] = NULL /\ 0 <= num /\ 0 \in Nat
      BY <1>0, <2>0, <3>1 DEF Wrr!HandOK
    <3> QED BY <1>2b, <3>1, <3>2
  <2>5. CASE Wrr!Free(w)
    <3>1. /\ wpc' = [wpc EXCEPT ![w] = IF sel[w] = NULL THEN "unlock" ELSE "pop"]
          /\ UNCHANGED <<seen, pos>> /\ seen[w] <= num
      BY <2>0, <2>5 DEF Wrr!Free, Wrr!Goto, Wrr!HandOK
    <3>2. CASE sel[w] = NULL
      BY <1>0, <1>2, <1>2b, <3>1, <3>2
    <3>3. CASE sel[w] # NULL
      BY <1>0, <1>2, <1>2b, <3>1, <3>3
    <3> QED BY <3>2, <3>3
  <2>6. CASE Wrr!Pop(w)
    <3>1. wpc[w] = "pop" /\ wpc' = [wpc EXCEPT ![w] = "requeue"] /\ UNCHANGED <<seen, pos>>
      BY <2>6 DEF Wrr!Pop, Wrr!Goto
    <3>2. sel[w] # NULL /\ seen[w] <= num
      BY <2>0, <3>1 DEF Wrr!HandOK
    <3> QED BY <1>0, <1>2, <1>2b, <3>1, <3>2
  <2>7. CASE Wrr!Unlock(w)
    <3>1. wpc[w] = "unlock" /\ wpc' = [wpc EXCEPT ![w] = "wait"] /\ UNCHANGED <<seen, pos>>
      BY <2>7 DEF Wrr!Unlock, Wrr!Goto
    <3>2. sel[w] = NULL /\ seen[w] <= num
      BY <2>0, <3>1 DEF Wrr!HandOK
    <3> QED BY <1>0, <1>2, <1>2b, <3>1, <3>2
  <2> QED BY <2>1, <2>2, <2>3, <2>4, <2>5, <2>6, <2>7
<1>4. Wrr!NotLost'
  BY <1>1 DEF Wrr!KeptInv, Wrr!NotLost, Wrr!InHands
<1> QED BY <1>3, <1>4 DEF Wrr!KeptInv

(* A VAQ that is pushed is in one of the queues, and the others stay.      *)
LEMMA PushKeeps ==
  ASSUME Wrr!TrackTyped, NEW v \in Wrr!VaqSet, NEW c, Wrr!PushVaq(v, c)
  PROVE  /\ high' \in Seq(Wrr!VaqSet) /\ low' \in Seq(Wrr!VaqSet)
         /\ Wrr!In(high', v) \/ Wrr!In(low', v)
         /\ \A u : Wrr!In(high, u) \/ Wrr!In(low, u) => Wrr!In(high', u) \/ Wrr!In(low', u)
<1>0. high \in Seq(Wrr!VaqSet) /\ low \in Seq(Wrr!VaqSet)
  BY DEF Wrr!TrackTyped
<1>1. CASE high' = Append(high, v) /\ low' = low
  BY <1>0, <1>1, Pushed
<1>2. CASE low' = Append(low, v) /\ high' = high
  BY <1>0, <1>2, Pushed
<1> QED BY <1>1, <1>2 DEF Wrr!PushVaq

LEMMA KeptInsert ==
  ASSUME Wrr!WeightedAssumption, Wrr!KeptInv, NEW w \in Workers, Wrr!Insert(w)
  PROVE  Wrr!KeptInv'
<1> DEFINE v == Vaqs[pos[w]]
<1>0. /\ Wrr!TrackTyped /\ (\A x \in Workers : Wrr!HandOK(x)) /\ Wrr!HandOK(w) /\ wpc[w] = "insert"
      /\ UNCHANGED <<num, seen, sel>> /\ pos' = [pos EXCEPT ![w] = pos[w] + 1]
      /\ wpc' = [wpc EXCEPT ![w] = "scan"]
  BY DEF Wrr!KeptInv, Wrr!Insert, Wrr!Goto, Wrr!env
<1>1. /\ pos[w] \in Nat /\ pos[w] >= 1 /\ seen[w] \in Nat /\ pos[w] <= seen[w] /\ seen[w] <= num
      /\ num \in 0 .. Len(Vaqs) /\ Len(Vaqs) \in Nat /\ sel[w] = NULL
  BY <1>0 DEF Wrr!TrackTyped, Wrr!HandOK, Wrr!WeightedAssumption
<1>2. v \in Wrr!VaqSet
  <2>1. pos[w] \in 1 .. Len(Vaqs)
    BY <1>1
  <2> QED BY <2>1 DEF Wrr!WeightedAssumption
<1>3. \/ meta' = [meta EXCEPT ![v] = TRUE] /\ \E c : Wrr!PushVaq(v, c)
      \/ meta' = [meta EXCEPT ![v] = NULL] /\ UNCHANGED <<high, low>>
  BY DEF Wrr!Insert, Wrr!InsertVaq
<1> HIDE DEF v
<1>4. /\ meta' \in [Wrr!VaqSet -> {NULL, TRUE, FALSE}]
      /\ \A u \in Wrr!VaqSet : u # v => meta'[u] = meta[u]
  BY <1>0, <1>2, <1>3 DEF Wrr!TrackTyped
<1>5. /\ high' \in Seq(Wrr!VaqSet) /\ low' \in Seq(Wrr!VaqSet)
      /\ meta'[v] = TRUE => Wrr!In(high', v) \/ Wrr!In(low', v)
      /\ \A u : Wrr!In(high, u) \/ Wrr!In(low, u) => Wrr!In(high', u) \/ Wrr!In(low', u)
  <2>1. CASE meta' = [meta EXCEPT ![v] = TRUE] /\ \E c : Wrr!PushVaq(v, c)
    BY <1>0, <1>2, <2>1, PushKeeps
  <2>2. CASE meta' = [meta EXCEPT ![v] = NULL] /\ UNCHANGED <<high, low>>
    BY <1>0, <1>2, <2>2 DEF Wrr!TrackTyped, Wrr!WeightedAssumption
  <2> QED BY <1>3, <2>1, <2>2
<1>6. Wrr!TrackTyped' /\ \A x \in Workers : Wrr!HandOK(x)'
  <2>1. /\ seen' = [seen EXCEPT ![w] = seen[w]] /\ sel' = [sel EXCEPT ![w] = NULL]
        /\ pos[w] + 1 \in Nat /\ pos[w] + 1 >= 1
    BY <1>0, <1>1 DEF Wrr!TrackTyped
  <2>2. NULL \in Wrr!VaqSet \cup {NULL} /\ seen[w] \in Nat /\ seen[w] <= num /\ num' = num
    BY <1>0, <1>1
  <2>3. PICK p \in Nat : p >= 1 /\ pos' = [pos EXCEPT ![w] = p]
    BY <1>0, <2>1
  <2> QED BY <1>0, <1>4, <1>5, <2>1, <2>2, <2>3, HandsMove
<1>7. ASSUME NEW u \in Wrr!VaqSet, meta'[u] = TRUE
      PROVE  Wrr!In(high', u) \/ Wrr!In(low', u) \/ Wrr!InHands(u)'
  <2>1. Wrr!InHands(u)' <=> Wrr!InHands(u)
    BY <1>0 DEF Wrr!InHands
  <2>2. CASE u = v
    BY <1>5, <1>7, <2>2
  <2>3. CASE u # v
    BY <1>4, <1>5, <1>7, <2>1, <2>3 DEF Wrr!KeptInv, Wrr!NotLost
  <2> QED BY <2>2, <2>3
<1>8. Wrr!NotLost'
  BY <1>7 DEF Wrr!NotLost
<1> QED BY <1>6, <1>8 DEF Wrr!KeptInv

(* Only the VAQ that is chosen leaves the queues.                          *)
LEMMA KeptTake ==
  ASSUME Wrr!WeightedAssumption, Wrr!KeptInv, NEW w \in Workers, wpc[w] = "choose",
         NEW v \in Wrr!VaqSet,
         high' \in Seq(Wrr!VaqSet), low' \in Seq(Wrr!VaqSet),
         \A u : u # v /\ (Wrr!In(high, u) \/ Wrr!In(low, u)) => Wrr!In(high', u) \/ Wrr!In(low', u),
         \/ meta' = meta /\ sel' = [sel EXCEPT ![w] = v]
         \/ meta' = [meta EXCEPT ![v] = FALSE] /\ sel' = sel,
         wpc' = [wpc EXCEPT ![w] = "free"], UNCHANGED <<num, seen, pos>>
  PROVE  Wrr!KeptInv'
<1>0. /\ Wrr!TrackTyped /\ (\A x \in Workers : Wrr!HandOK(x)) /\ Wrr!HandOK(w)
      /\ seen[w] \in Nat /\ pos[w] \in Nat
  BY DEF Wrr!KeptInv, Wrr!TrackTyped
<1>1. sel[w] = NULL /\ seen[w] <= num
  BY <1>0 DEF Wrr!HandOK
<1>2. /\ meta' \in [Wrr!VaqSet -> {NULL, TRUE, FALSE}]
      /\ \A u \in Wrr!VaqSet : u # v => meta'[u] = meta[u]
  BY <1>0 DEF Wrr!TrackTyped
<1>3. PICK s \in Wrr!VaqSet \cup {NULL} : sel' = [sel EXCEPT ![w] = s] /\ (meta'[v] = TRUE => s = v)
  <2>1. CASE meta' = meta /\ sel' = [sel EXCEPT ![w] = v]
    BY <2>1
  <2>2. CASE meta' = [meta EXCEPT ![v] = FALSE] /\ sel' = sel
    <3>1. sel' = [sel EXCEPT ![w] = NULL] /\ meta'[v] # TRUE
      BY <1>0, <1>1, <2>2 DEF Wrr!TrackTyped
    <3> QED BY <3>1
  <2> QED BY <2>1, <2>2
<1>4. Wrr!TrackTyped' /\ \A x \in Workers : Wrr!HandOK(x)'
  <2>1. seen' = [seen EXCEPT ![w] = seen[w]] /\ pos' = [pos EXCEPT ![w] = pos[w]]
    BY <1>0 DEF Wrr!TrackTyped
  <2> QED BY <1>0, <1>1, <1>2, <1>3, <2>1, HandsMove
<1>5. ASSUME NEW u \in Wrr!VaqSet, meta'[u] = TRUE
      PROVE  Wrr!In(high', u) \/ Wrr!In(low', u) \/ Wrr!InHands(u)'
  <2>1. CASE u = v
    <3>1. sel'[w] = u
      BY <1>0, <1>3, <1>5, <2>1 DEF Wrr!TrackTyped
    <3> QED BY <3>1 DEF Wrr!InHands
  <2>2. CASE u # v
    <3>1. Wrr!In(high, u) \/ Wrr!In(low, u) \/ Wrr!InHands(u)
      BY <1>2, <1>5, <2>2 DEF Wrr!KeptInv, Wrr!NotLost
    <3>2. ASSUME NEW x \in Workers, sel[x] = u PROVE sel'[x] = u
      <4>1. x # w
        BY <1>1, <3>2 DEF Wrr!WeightedAssumption
      <4> QED BY <1>0, <1>3, <3>2, <4>1 DEF Wrr!TrackTyped
    <3>3. Wrr!InHands(u) => Wrr!InHands(u)'
      BY <3>2 DEF Wrr!InHands
    <3> QED BY <2>2, <3>1, <3>3
  <2> QED BY <2>1, <2>2
<1>6. Wrr!NotLost'
  BY <1>5 DEF Wrr!NotLost
<1> QED BY <1>4, <1>6 DEF Wrr!KeptInv

LEMMA KeptChoose ==
  ASSUME Wrr!WeightedAssumption, Wrr!KeptInv, NEW w \in Workers, Wrr!Choose(w)
  PROVE  Wrr!KeptInv'
<1>0. /\ wpc[w] = "choose" /\ wpc' = [wpc EXCEPT ![w] = "free"] /\ UNCHANGED <<num, seen, pos>>
      /\ high \in Seq(Wrr!VaqSet) /\ low \in Seq(Wrr!VaqSet) /\ Wrr!TrackTyped
  BY DEF Wrr!Choose, Wrr!Goto, Wrr!KeptInv, Wrr!TrackTyped
<1>1. ASSUME NEW v, NEW n, Wrr!Select(w, v, n)
      PROVE  \/ meta' = meta /\ sel' = [sel EXCEPT ![w] = v]
             \/ meta' = [meta EXCEPT ![v] = FALSE] /\ sel' = sel
  BY <1>1 DEF Wrr!Select
<1>2. CASE high # <<>> /\ Wrr!ChooseHigh(w) /\ high' = Tail(high) /\ UNCHANGED low
  <2>1. /\ Head(high) \in Wrr!VaqSet /\ high' \in Seq(Wrr!VaqSet)
        /\ \A u : Wrr!In(high, u) /\ u # Head(high) => Wrr!In(high', u)
    BY <1>0, <1>2, TailKeeps
  <2>2. \/ meta' = meta /\ sel' = [sel EXCEPT ![w] = Head(high)]
        \/ meta' = [meta EXCEPT ![Head(high)] = FALSE] /\ sel' = sel
    BY <1>1, <1>2 DEF Wrr!ChooseHigh
  <2>3. low' \in Seq(Wrr!VaqSet) /\ low' = low
    BY <1>0, <1>2
  <2> QED BY <1>0, <2>1, <2>2, <2>3, KeptTake
<1>3. CASE high = <<>> /\ low # <<>> /\ Wrr!ChooseLow(w) /\ low' = Tail(low) /\ UNCHANGED high
  <2>1. /\ Head(low) \in Wrr!VaqSet /\ low' \in Seq(Wrr!VaqSet)
        /\ \A u : Wrr!In(low, u) /\ u # Head(low) => Wrr!In(low', u)
    BY <1>0, <1>3, TailKeeps
  <2>2. \/ meta' = meta /\ sel' = [sel EXCEPT ![w] = Head(low)]
        \/ meta' = [meta EXCEPT ![Head(low)] = FALSE] /\ sel' = sel
    BY <1>1, <1>3 DEF Wrr!ChooseLow
  <2>3. high' \in Seq(Wrr!VaqSet) /\ high' = high
    BY <1>0, <1>3
  <2> QED BY <1>0, <2>1, <2>2, <2>3, KeptTake
<1>4. CASE UNCHANGED <<sel, meta, high, low>>
  <2>0. /\ \A x \in Workers : Wrr!HandOK(x)
        /\ seen[w] \in Nat /\ pos[w] \in Nat /\ Wrr!HandOK(w)
    BY DEF Wrr!KeptInv, Wrr!TrackTyped
  <2>1. /\ seen' = [seen EXCEPT ![w] = seen[w]] /\ pos' = [pos EXCEPT ![w] = pos[w]]
        /\ sel' = [sel EXCEPT ![w] = NULL] /\ seen[w] <= num
        /\ high' \in Seq(Wrr!VaqSet) /\ low' \in Seq(Wrr!VaqSet)
        /\ meta' \in [Wrr!VaqSet -> {NULL, TRUE, FALSE}]
    BY <1>0, <1>4, <2>0 DEF Wrr!TrackTyped, Wrr!HandOK
  <2>2. Wrr!TrackTyped' /\ \A x \in Workers : Wrr!HandOK(x)'
    BY <1>0, <2>0, <2>1, HandsMove
  <2>3. Wrr!NotLost'
    BY <1>4 DEF Wrr!KeptInv, Wrr!NotLost, Wrr!InHands
  <2> QED BY <2>2, <2>3 DEF Wrr!KeptInv
<1> QED BY <1>2, <1>3, <1>4 DEF Wrr!Choose

LEMMA KeptRequeue ==
  ASSUME Wrr!WeightedAssumption, Wrr!KeptInv, NEW w \in Workers, Wrr!Requeue(w)
  PROVE  Wrr!KeptInv'
<1>0. /\ wpc[w] = "requeue" /\ wpc' = [wpc EXCEPT ![w] = "unlock"] /\ sel' = [sel EXCEPT ![w] = NULL]
      /\ UNCHANGED <<num, seen, pos>> /\ Wrr!TrackTyped /\ (\A x \in Workers : Wrr!HandOK(x))
      /\ Wrr!HandOK(w) /\ seen[w] \in Nat /\ pos[w] \in Nat
  BY DEF Wrr!Requeue, Wrr!Goto, Wrr!KeptInv, Wrr!env, Wrr!TrackTyped
<1>1. PICK v \in Wrr!VaqSet : v = sel[w]
  BY <1>0 DEF Wrr!TrackTyped, Wrr!HandOK
<1>2. \/ meta' = meta /\ \E c : Wrr!PushVaq(v, c)
      \/ meta' = [meta EXCEPT ![v] = NULL] /\ UNCHANGED <<high, low>>
  BY <1>1 DEF Wrr!Requeue
<1>3. /\ meta' \in [Wrr!VaqSet -> {NULL, TRUE, FALSE}]
      /\ \A u \in Wrr!VaqSet : u # v => meta'[u] = meta[u]
  BY <1>0, <1>1, <1>2 DEF Wrr!TrackTyped
<1>4. /\ high' \in Seq(Wrr!VaqSet) /\ low' \in Seq(Wrr!VaqSet)
      /\ meta'[v] = TRUE => Wrr!In(high', v) \/ Wrr!In(low', v)
      /\ \A u : Wrr!In(high, u) \/ Wrr!In(low, u) => Wrr!In(high', u) \/ Wrr!In(low', u)
  <2>1. CASE meta' = meta /\ \E c : Wrr!PushVaq(v, c)
    BY <1>0, <1>1, <2>1, PushKeeps
  <2>2. CASE meta' = [meta EXCEPT ![v] = NULL] /\ UNCHANGED <<high, low>>
    BY <1>0, <1>1, <2>2 DEF Wrr!TrackTyped, Wrr!WeightedAssumption
  <2> QED BY <1>2, <2>1, <2>2
<1>5. Wrr!TrackTyped' /\ \A x \in Workers : Wrr!HandOK(x)'
  <2>1. /\ seen' = [seen EXCEPT ![w] = seen[w]] /\ pos' = [pos EXCEPT ![w] = pos[w]] /\ seen[w] <= num
    BY <1>0 DEF Wrr!TrackTyped, Wrr!HandOK
  <2> QED BY <1>0, <1>3, <1>4, <2>1, HandsMove
<1>6. ASSUME NEW u \in Wrr!VaqSet, meta'[u] = TRUE
      PROVE  Wrr!In(high', u) \/ Wrr!In(low', u) \/ Wrr!InHands(u)'
  <2>1. CASE u = v
    BY <1>4, <1>6, <2>1
  <2>2. CASE u # v
    <3>1. Wrr!In(high, u) \/ Wrr!In(low, u) \/ Wrr!InHands(u)
      BY <1>3, <1>6, <2>2 DEF Wrr!KeptInv, Wrr!NotLost
    <3>2. ASSUME NEW x \in Workers, sel[x] = u PROVE sel'[x] = u
      BY <1>0, <1>1, <2>2, <3>2 DEF Wrr!TrackTyped
    <3>3. Wrr!InHands(u) => Wrr!InHands(u)'
      BY <3>2 DEF Wrr!InHands
    <3> QED BY <1>4, <3>1, <3>3
  <2> QED BY <2>1, <2>2
<1>7. Wrr!NotLost'
  BY <1>6 DEF Wrr!NotLost
<1> QED BY <1>5, <1>7 DEF Wrr!KeptInv

LEMMA KeptStep ==
  ASSUME Wrr!WeightedAssumption, Wrr!KeptInv, [Wrr!Next]_(Wrr!vars)
  PROVE  Wrr!KeptInv'
<1>0. \A x \in Workers : Wrr!HandOK(x) /\ seen[x] \in Nat
  BY DEF Wrr!KeptInv, Wrr!TrackTyped
<1>1. ASSUME UNCHANGED <<high, low, meta, sel, wpc, seen, pos>>,
             num' = num \/ (num < Len(Vaqs) /\ num' = num + 1)
      PROVE  Wrr!KeptInv'
  <2>1. num' \in 0 .. Len(Vaqs) /\ num' >= num /\ num \in Nat
    BY <1>1 DEF Wrr!KeptInv, Wrr!TrackTyped, Wrr!WeightedAssumption
  <2>2. Wrr!TrackTyped'
    BY <1>1, <2>1 DEF Wrr!KeptInv, Wrr!TrackTyped
  <2>3. \A x \in Workers : Wrr!HandOK(x)'
    BY <1>0, <1>1, <2>1 DEF Wrr!HandOK
  <2>4. Wrr!NotLost'
    BY <1>1 DEF Wrr!KeptInv, Wrr!NotLost, Wrr!InHands
  <2> QED BY <2>2, <2>3, <2>4 DEF Wrr!KeptInv
<1>2. CASE UNCHANGED Wrr!vars
  BY <1>1, <1>2 DEF Wrr!vars, Wrr!env, Wrr!shared
<1>3. CASE Wrr!Acquire
  BY <1>1, <1>3 DEF Wrr!Acquire, Wrr!shared
<1>4. CASE Wrr!IssueSignal \/ \E v \in Wrr!VaqSet : Wrr!SetCid(v) \/ \E p \in Procs : Wrr!IssuePush(v, p)
  <2>1. UNCHANGED <<num, high, low, meta, sel, wpc, seen, pos>>
    BY <1>4 DEF Wrr!IssueSignal, Wrr!SetCid, Wrr!IssuePush, Wrr!shared
  <2> QED BY <1>1, <2>1
<1>5. CASE \E w \in Workers : Wrr!Worker(w)
  BY <1>5, KeptQuiet, KeptInsert, KeptChoose, KeptRequeue DEF Wrr!Worker
<1> QED BY <1>2, <1>3, <1>4, <1>5 DEF Wrr!Next

(* NotLost, for any number of workers: though selectTask unlocks myMutex   *)
(* twice and two workers may insert one VAQ, none that is marked as in the *)
(* group is out of both control queues and every worker's hands, where no  *)
(* scan would look for it again.                                           *)
THEOREM WeightedKept ==
  ASSUME Wrr!WeightedAssumption
  PROVE  Wrr!Spec => []Wrr!NotLost
<1>1. Wrr!Init => Wrr!KeptInv
  <2>1. ASSUME Wrr!Init PROVE Wrr!TrackTyped /\ (\A x \in Workers : Wrr!HandOK(x)) /\ Wrr!NotLost
    <3>1. Wrr!TrackInv
      BY <2>1, TrackInit
    <3> QED BY <3>1 DEF Wrr!TrackInv, Wrr!OnceOK, Wrr!NotLost
  <2> QED BY <2>1 DEF Wrr!KeptInv
<1>2. Wrr!KeptInv /\ [Wrr!Next]_(Wrr!vars) => Wrr!KeptInv'
  BY KeptStep
<1>3. Wrr!KeptInv => Wrr!NotLost
  BY DEF Wrr!KeptInv
<1> QED BY <1>1, <1>2, <1>3, PTL DEF Wrr!Spec

=============================================================================
