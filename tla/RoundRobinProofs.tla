-------------------------- MODULE RoundRobinProofs --------------------------
(***************************************************************************)
(* The dispatch under the default scheduler, for any number of             *)
(* accelerators, virtual accelerators and tasks, any capacity of the queues*)
(* and any width of the counts: IInv is inductive.  First its part BaseInv *)
(* (types, hands and lists), then the order of tasks, the count of tokens  *)
(* and the search, which rest on each other.                               *)
(***************************************************************************)
EXTENDS RoundRobin, DispatchProofs, FiniteSetTheorems

USE DispatchAssumption

-----------------------------------------------------------------------------
(* Types, hands and lists *)

(* ListsConsistent of the next state, in terms of the next state.          *)
LEMMA ListsNext ==
  ASSUME OnePlaceNext({bvac'})
  PROVE  ListsConsistent'
BY DEF OnePlaceNext, ListsConsistent, OnePlace, In, NoDuplicates

(* What assignVac looks for among the orphans is no longer there.          *)
LEMMA AssignedVaccel ==
  ASSUME BaseInv, bpc \in {"assign", "link"}
  PROVE  bvac \in Vaccels /\ bvac \in live /\ ~In(bvac, orphans)
BY DEF BaseInv, HandsInv, TypeOK, ListsConsistent, OnePlace

(* Every step keeps the types: assignVac, because of ListsConsistent,      *)
(* leaves the orphans alone, and because of HandsInv links something.      *)
LEMMA TypeStep ==
  ASSUME BaseInv, [Next]_vars
  PROVE  Typed'
<1>1. Typed
  BY DEF BaseInv, HandsInv, Typed
<1>2. ASSUME NEW a \in Accels, assignVac(a) PROVE Typed'
  <2>1. orphans' = orphans
    BY <1>2, AssignedVaccel DEF assignVac, RemoveOrphan
  <2> QED BY <1>1, <1>2, <2>1
    DEF assignVac, Typed, TypeOK, BalancerPC, issuers, workers, migration
<1>3. CASE assignVacLink
  <2>1. bacc \in Accels /\ bvac \in Vaccels /\ LinkVaccel(bacc, bvac)
    BY <1>3, AssignedVaccel DEF assignVacLink, BaseInv, HandsInv
  <2>2. /\ assigned' \in [Accels -> Seq(Vaccels)]
        /\ phys' \in [Vaccels -> Accels \cup {None}]
        /\ tasks' \in [Accels -> 0 .. SizeMod - 1]
        /\ wpc' \in [Accels -> WorkerPC]
        /\ \A b \in Accels : wpc'[b] = "run" => wpc[b] = "run"
    BY <1>1, <2>1, LinkTypes DEF Typed
  <2> QED BY <1>1, <1>3, <2>2
    DEF Typed, assignVacLink, TypeOK, BalancerPC, issuers, workers, migration
<1> QED BY <1>1, <1>2, <1>3, ApplicationTyped, LoopTyped, SelectTyped, OrphanTyped,
           TerminateTyped, SameTyped
    DEF Next, Worker, selectTask, Balancer, Stopped

(* The balancer holds what it pops until it links it.                      *)
LEMMA HandsStep ==
  ASSUME BaseInv, [Next]_vars
  PROVE  HandsInv'
<1>1. \A a \in Accels : wpc'[a] = "run" => cur'[a] \in Tasks
  BY TypeStep DEF Typed
<1> DEFINE Hands(pc, v, a) ==
             /\ pc \in {"get", "sleep", "woken", "null", "assign", "link"}
             /\ v = None <=> pc \notin {"assign", "link"}
             /\ pc = "link" => a \in Accels
<1> SUFFICES Hands(bpc', bvac', bacc')
  BY <1>1 DEF HandsInv
<1>2. Hands(bpc, bvac, bacc)
  BY DEF BaseInv, HandsInv
<1>3. ASSUME UNCHANGED <<bpc, bvac, bacc>> PROVE Hands(bpc', bvac', bacc')
  BY <1>2, <1>3
<1>4. ASSUME Application \/ Terminate \/ UNCHANGED vars PROVE Hands(bpc', bvac', bacc')
  <2>1. ASSUME NEW v \in Vaccels, AcquireType(v) PROVE Hands(bpc', bvac', bacc')
    BY <1>2, <2>1 DEF AcquireType, NotifyBalancer
  <2>2. ASSUME NEW v \in Vaccels, AcquirePhys(v) PROVE Hands(bpc', bvac', bacc')
    BY <1>3, <2>2 DEF AcquirePhys, balancer
  <2>3. ASSUME NEW k \in Tasks, AddTaskLock(k) \/ AddTaskPush(k) \/ AddTaskSignal(k)
        PROVE  Hands(bpc', bvac', bacc')
    BY <1>3, <2>3 DEF AddTaskLock, AddTaskPush, AddTaskSignal, balancer
  <2>4. CASE Terminate \/ UNCHANGED vars
    BY <1>3, <2>4 DEF Terminate, TerminateFlag, TerminateToken, vars, balancer
  <2> QED BY <1>4, <2>1, <2>2, <2>3, <2>4 DEF Application
<1>5. ASSUME NEW a \in Accels, Worker(a) \/ SpuriousWake(a) PROVE Hands(bpc', bvac', bacc')
  BY <1>3, <1>5 DEF Worker, WorkerLoop, SpuriousWake, CheckStop, arax_accel_wait_for_task,
                    updateVirtAccels, NotFound, Complete, selectTask, PopCandidate, balancer
<1>6. CASE GetOrphan \/ GetOrphanWoken
  <2>1. CASE orphans = <<>>
    BY <1>2, <1>6, <2>1 DEF GetOrphan, GetOrphanWoken
  <2>2. CASE orphans # <<>>
    <3>1. PopOrphan
      BY <1>6, <2>2 DEF GetOrphan, GetOrphanWoken
    <3>2. Head(orphans) \in Vaccels
      BY <2>2, PopHead DEF BaseInv, TypeOK
    <3> QED BY <3>1, <3>2 DEF PopOrphan
  <2> QED BY <2>1, <2>2
<1>7. ASSUME NEW a \in Accels, assignVac(a) PROVE Hands(bpc', bvac', bacc')
  BY <1>2, <1>7 DEF assignVac
<1>8. CASE assignVacLink \/ SpuriousWakeBalancer
  BY <1>2, <1>8 DEF assignVacLink, SpuriousWakeBalancer
<1> HIDE DEF Hands
<1> QED BY <1>4, <1>5, <1>6, <1>7, <1>8 DEF Next, Balancer, Stopped

(* Every step keeps each node in one place.                                *)
LEMMA ListsStep ==
  ASSUME BaseInv, [Next]_vars
  PROVE  ListsConsistent'
<1>1. TypeOK /\ OnePlace({bvac})
  BY DEF BaseInv, ListsConsistent
<1>2. CASE \/ Application \/ Terminate \/ SpuriousWakeBalancer \/ UNCHANGED vars
           \/ \E a \in Accels : WorkerLoop(a) \/ SpuriousWake(a) \/ PopCandidate(a)
  <2>1. OnePlaceNext({bvac}) /\ bvac' = bvac
    BY <1>1, <1>2, SharedPlace
  <2> QED BY <2>1, ListsNext
<1>3. CASE GetOrphan \/ GetOrphanWoken
  <2>1. bvac = None /\ UNCHANGED <<live, assigned, phys>>
    BY <1>3 DEF GetOrphan, GetOrphanWoken, BaseInv, HandsInv
  <2>2. CASE orphans = <<>>
    BY <1>1, <1>3, <2>1, <2>2, PlaceSame, ListsNext DEF GetOrphan, GetOrphanWoken
  <2>3. CASE orphans # <<>>
    <3>1. PopOrphan
      BY <1>3, <2>3 DEF GetOrphan, GetOrphanWoken
    <3>2. PICK v : v = bvac'
      OBVIOUS
    <3>3. \A w \in Vaccels : w \in {v} <=> (w \in {bvac} \/ w = bvac')
      BY <2>1, <3>2
    <3>4. OnePlaceNext({v})
      BY <1>1, <2>1, <2>3, <3>1, <3>3, PlacePop
    <3> QED BY <3>2, <3>4, ListsNext
  <2> QED BY <2>2, <2>3
<1>4. ASSUME NEW a \in Accels, assignVac(a) PROVE ListsConsistent'
  <2>1. UNCHANGED <<live, orphans, assigned, phys, bvac>>
    BY <1>4, AssignedVaccel DEF assignVac, RemoveOrphan
  <2> QED BY <1>1, <2>1, PlaceSame, ListsNext
<1>5. CASE assignVacLink
  <2>1. /\ bacc \in Accels /\ bvac \in Vaccels /\ bvac \in live /\ LinkVaccel(bacc, bvac)
        /\ UNCHANGED <<live, orphans>> /\ bvac' = None
    BY <1>5, AssignedVaccel DEF assignVacLink, BaseInv, HandsInv
  <2>2. \A w \in Vaccels : w \in {None} <=> (w \in {bvac} /\ w # bvac)
    OBVIOUS
  <2>3. live' = live \cup {bvac}
    BY <2>1
  <2>4. OnePlaceNext({None})
    BY <1>1, <2>1, <2>2, <2>3, PlaceLink
  <2> QED BY <2>1, <2>4, ListsNext
<1> QED BY <1>2, <1>3, <1>4, <1>5 DEF Next, Worker, selectTask, Balancer, Stopped

LEMMA BaseStep ==
  ASSUME BaseInv, [Next]_vars
  PROVE  BaseInv'
BY TypeStep, HandsStep, ListsStep DEF BaseInv, Typed

LEMMA InitBase == Init => BaseInv
<1> SUFFICES ASSUME Init PROVE BaseInv
  OBVIOUS
<1>1. TypeOK /\ HandsInv
  BY InitTyped DEF Typed, HandsInv, Init
<1>2. OnePlace({}) /\ bvac = None
  BY InitPlace DEF Init
<1>3. ListsConsistent
  BY <1>2 DEF ListsConsistent, OnePlace
<1> QED BY <1>1, <1>3 DEF BaseInv

(* The node of a virtual accelerator is always in exactly one place: no    *)
(* virtual accelerator is lost or linked twice by the default scheduler.   *)
(* BaseInv is the inductive invariant: types, hands and lists.             *)
THEOREM RoundRobinLists == Spec => []ListsConsistent
<1>1. BaseInv /\ [Next]_vars => BaseInv'
  BY BaseStep
<1>2. BaseInv => ListsConsistent
  BY DEF BaseInv
<1> QED BY InitBase, <1>1, <1>2, PTL DEF Spec

-----------------------------------------------------------------------------
(* Steps that touch no task *)

(* Virtual accelerators that nobody knows, and the one the balancer holds, *)
(* have no accelerator.                                                    *)
LEMMA Unassigned ==
  ASSUME BaseInv
  PROVE  /\ \A v \in Vaccels : v \notin live => phys[v] = None
         /\ bpc = "link" => bvac \in Vaccels /\ bacc \in Accels /\ phys[bvac] = None
<1>1. \A v \in Vaccels : v \notin live => phys[v] = None
  BY DEF BaseInv, ListsConsistent, OnePlace
<1>2. bpc = "link" => bvac \in Vaccels /\ bacc \in Accels
  BY DEF BaseInv, HandsInv, TypeOK
<1>3. bpc = "link" => phys[bvac] = None
  BY <1>2 DEF BaseInv, ListsConsistent, OnePlace
<1> QED BY <1>1, <1>2, <1>3

(* The steps of Next that are quiet.                                       *)
LEMMA QuietSteps ==
  ASSUME BaseInv,
         \/ \E v \in Vaccels : AcquireType(v) \/ AcquirePhys(v)
         \/ \E a \in Accels : CheckStop(a) \/ SpuriousWake(a)
         \/ Balancer \/ SpuriousWakeBalancer \/ Terminate \/ UNCHANGED vars
  PROVE  Quiet
<1>1. TypeOK /\ OnePlace({bvac})
  BY DEF BaseInv, ListsConsistent
<1>2. ASSUME NEW a \in Accels, assignVac(a) PROVE Quiet
  BY <1>2 DEF assignVac, Quiet, issuers, workers
<1>3. CASE assignVacLink
  <2>1. bvac \in Vaccels /\ bacc \in Accels /\ phys[bvac] = None
    BY <1>3, Unassigned DEF assignVacLink
  <2> QED BY <1>1, <1>3, <2>1, LinkFrame DEF assignVacLink, Quiet, issuers, workers
<1> QED BY <1>1, <1>2, <1>3, QuietShared DEF Balancer

-----------------------------------------------------------------------------
(* The order of tasks *)

(* A worker that pops a task runs nothing and owns the virtual accelerator *)
(* it pops it from.                                                        *)
LEMMA OwnCandidate ==
  ASSUME TypeOK, CopyInv, OrderInv, NEW a \in Accels, wpc[a] = "select", idx[a] < Len(VACs[a])
  PROVE  Candidate(a) \in Vaccels /\ phys[Candidate(a)] = a /\ cur[a] = None
<1>1. VACs[a] \in Seq(Vaccels) /\ Len(VACs[a]) \in Nat \ {0} /\ idx[a] \in Nat /\ rr[a] \in Nat
  BY DEF TypeOK
<1>2. Candidate(a) \in Vaccels
  BY CandidateType
<1>3. Position(a) + 1 \in DOMAIN VACs[a]
  <2>1. \A x \in Nat : x % Len(VACs[a]) \in Nat /\ x % Len(VACs[a]) < Len(VACs[a])
    BY <1>1, ModNat
  <2>2. ((rr[a] + 1) % Len(VACs[a])) + idx[a] \in Nat
    <3>1. rr[a] + 1 \in Nat
      BY <1>1
    <3>2. (rr[a] + 1) % Len(VACs[a]) \in Nat
      BY <2>1, <3>1, Zenon
    <3> QED BY <1>1, <3>2
  <2>3. Position(a) \in Nat /\ Position(a) < Len(VACs[a])
    BY <2>1, <2>2, Zenon DEF Position, Turn
  <2> QED BY <1>1, <2>3
<1>4. cur[a] = None
  BY DEF OrderInv, TakenInv
<1> QED BY <1>2, <1>3, <1>4 DEF CopyInv, Candidate

(* Every step keeps the tasks in order.                                    *)
LEMMA OrderStep ==
  ASSUME IInv, [Next]_vars
  PROVE  OrderInv'
<1>1. TypeOK /\ HandsInv /\ OrderInv /\ CopyInv /\ BaseInv
  BY DEF IInv, BaseInv
<1>2. ASSUME NEW a \in Accels, selectTask(a) PROVE OrderInv'
  <2>1. Candidate(a) \in Vaccels /\ phys[Candidate(a)] = a /\ cur[a] = None
    BY <1>1, <1>2, OwnCandidate DEF selectTask, PopCandidate
  <2>2. UNCHANGED <<live, log, tpc, vlock, phys, done>>
    BY <1>2 DEF selectTask, PopCandidate, issuers
  <2>3. CASE queue[Candidate(a)] = <<>>
    <3>1. UNCHANGED <<queue, cur, wpc>>
      BY <1>2, <2>3 DEF selectTask, PopCandidate
    <3>2. \A b \in Accels : cur[b] # None => wpc'[b] = "run"
      BY <1>1, <3>1 DEF OrderInv, TakenInv
    <3> QED BY <1>1, <2>2, <3>1, <3>2, OrderFrame
  <2>4. CASE queue[Candidate(a)] # <<>>
    <3>1. /\ queue' = [queue EXCEPT ![Candidate(a)] = Tail(@)]
          /\ cur' = [cur EXCEPT ![a] = Head(queue[Candidate(a)])]
          /\ wpc' = [wpc EXCEPT ![a] = "run"]
      BY <1>2, <2>4 DEF selectTask, PopCandidate, Found, Goto
    <3> QED BY <1>1, <2>1, <2>2, <2>4, <3>1, OrderPop
  <2> QED BY <2>3, <2>4
<1>3. CASE Quiet
  BY <1>1, <1>3, OrderShared DEF Typed, HandsInv
<1> QED BY <1>1, <1>2, <1>3, QuietSteps, OrderShared
    DEF Typed, HandsInv, Next, Application, Worker, WorkerLoop, Stopped

-----------------------------------------------------------------------------
(* The wake-ups of the balancer, and the copies of the workers *)

(* A wake-up that an orphan explains finds it: only the balancer removes   *)
(* orphans.                                                                *)
LEMMA WakeStep ==
  ASSUME IInv, [Next]_vars
  PROVE  WakeInv'
<1>0. TypeOK /\ WakeInv /\ HandsInv /\ BaseInv
  BY DEF IInv, BaseInv
<1>1. TypeOK /\ WakeInv /\ HandsInv /\ BaseInv /\ spurious \in Nat
  <2>1. spurious \in 0 .. MaxSpurious
    BY <1>0 DEF TypeOK
  <2> QED BY <1>0, <2>1
<1>2. ASSUME UNCHANGED <<bpc, retry, spurious, orphans>> PROVE WakeInv'
  BY <1>1, <1>2 DEF WakeInv
<1>3. ASSUME NEW v \in Vaccels, AcquireType(v) PROVE WakeInv'
  <2>1. orphans' # <<>> /\ UNCHANGED <<retry, spurious>> /\ (bpc' = "null" => bpc = "null")
    <3>1. orphans' = <<v>> \o orphans /\ orphans \in Seq(Vaccels)
      BY <1>1, <1>3 DEF AcquireType, TypeOK
    <3>2. Len(orphans') = Len(orphans) + 1 /\ Len(orphans) \in Nat
      BY <3>1
    <3> QED BY <1>3, <3>2 DEF AcquireType, NotifyBalancer
  <2> QED BY <1>1, <2>1 DEF WakeInv
<1>4. CASE GetOrphan \/ GetOrphanWoken
  BY <1>1, <1>4 DEF GetOrphan, GetOrphanWoken, PopOrphan, WakeInv, TypeOK
<1>5. ASSUME NEW a \in Accels, assignVac(a) PROVE WakeInv'
  BY <1>1, <1>5 DEF assignVac, WakeInv
<1>6. CASE assignVacLink
  BY <1>1, <1>6 DEF assignVacLink, WakeInv
<1>7. CASE SpuriousWakeBalancer
  BY <1>1, <1>7 DEF SpuriousWakeBalancer, WakeInv, lists
<1>8. ASSUME NEW v \in Vaccels, AcquirePhys(v) PROVE WakeInv'
  BY <1>2, <1>8 DEF AcquirePhys, balancer
<1>9. ASSUME NEW k \in Tasks, AddTaskLock(k) \/ AddTaskPush(k) \/ AddTaskSignal(k)
      PROVE  WakeInv'
  BY <1>2, <1>9 DEF AddTaskLock, AddTaskPush, AddTaskSignal, lists, balancer
<1>10. ASSUME NEW a \in Accels, Worker(a) \/ SpuriousWake(a) PROVE WakeInv'
  BY <1>2, <1>10
  DEF Worker, WorkerLoop, SpuriousWake, CheckStop, arax_accel_wait_for_task, updateVirtAccels,
      NotFound, Complete, selectTask, PopCandidate, lists, balancer
<1>11. CASE Terminate \/ UNCHANGED vars
  BY <1>2, <1>11 DEF Terminate, TerminateFlag, TerminateToken, vars, lists, balancer
<1> QED BY <1>3, <1>4, <1>5, <1>6, <1>7, <1>8, <1>9, <1>10, <1>11
    DEF Next, Application, Balancer, Stopped

(* A virtual accelerator stays with the accelerator it is assigned to.     *)
LEMMA PhysStep ==
  ASSUME IInv, [Next]_vars
  PROVE  \A v \in Vaccels : phys'[v] = phys[v] \/ phys[v] = None
<1>1. BaseInv
  BY DEF IInv
<1>2. ASSUME NEW a \in Accels,
             arax_accel_wait_for_task(a) \/ updateVirtAccels(a) \/ NotFound(a) \/ Complete(a)
               \/ selectTask(a)
      PROVE  phys' = phys
  BY <1>2 DEF arax_accel_wait_for_task, updateVirtAccels, NotFound, Complete, selectTask,
              PopCandidate
<1>3. ASSUME NEW k \in Tasks, AddTaskLock(k) \/ AddTaskPush(k) \/ AddTaskSignal(k)
      PROVE  phys' = phys
  BY <1>3 DEF AddTaskLock, AddTaskPush, AddTaskSignal
<1>4. CASE Quiet
  BY <1>4 DEF Quiet
<1> QED BY <1>1, <1>2, <1>3, <1>4, QuietSteps
    DEF Next, Application, Worker, WorkerLoop, Stopped

(* So the copies that the workers took remain theirs.                      *)
LEMMA CopyStep ==
  ASSUME IInv, [Next]_vars
  PROVE  CopyInv'
<1>1. TypeOK /\ CopyInv /\ BaseInv
  BY DEF IInv, BaseInv
<1>2. \A v \in Vaccels : phys'[v] = phys[v] \/ phys[v] = None
  BY PhysStep
<1>3. ASSUME UNCHANGED VACs PROVE CopyInv'
  <2> SUFFICES ASSUME NEW a \in Accels, NEW i \in DOMAIN VACs[a]
               PROVE  phys'[VACs[a][i]] = a
    BY <1>3 DEF CopyInv
  <2>1. VACs[a][i] \in Vaccels /\ phys[VACs[a][i]] = a
    BY <1>1 DEF CopyInv, TypeOK
  <2> QED BY <1>2, <2>1
<1>4. ASSUME NEW a \in Accels, updateVirtAccels(a) PROVE CopyInv'
  <2> SUFFICES ASSUME NEW b \in Accels, NEW i \in DOMAIN VACs'[b]
               PROVE  phys[VACs'[b][i]] = b
    BY <1>4 DEF CopyInv, updateVirtAccels
  <2>1. CASE b = a
    <3>1. VACs'[b] = assigned[b] /\ assigned[b] \in Seq(Vaccels)
      BY <1>1, <1>4, <2>1 DEF updateVirtAccels, TypeOK
    <3>2. VACs'[b][i] \in Vaccels /\ In(VACs'[b][i], assigned[b])
      BY <3>1 DEF In
    <3> QED BY <1>1, <3>2 DEF BaseInv, ListsConsistent, OnePlace
  <2>2. CASE b # a
    <3>1. VACs'[b] = VACs[b]
      BY <1>1, <1>4, <2>2 DEF updateVirtAccels, TypeOK
    <3> QED BY <1>1, <3>1 DEF CopyInv
  <2> QED BY <2>1, <2>2
<1>5. ASSUME NEW a \in Accels,
             arax_accel_wait_for_task(a) \/ NotFound(a) \/ Complete(a) \/ selectTask(a)
      PROVE  UNCHANGED VACs
  BY <1>5 DEF arax_accel_wait_for_task, NotFound, Complete, selectTask, PopCandidate, workers
<1>6. ASSUME NEW k \in Tasks, AddTaskLock(k) \/ AddTaskPush(k) \/ AddTaskSignal(k)
      PROVE  UNCHANGED VACs
  BY <1>6 DEF AddTaskLock, AddTaskPush, AddTaskSignal, workers
<1>7. CASE Quiet
  BY <1>3, <1>7 DEF Quiet
<1> QED BY <1>1, <1>3, <1>4, <1>5, <1>6, <1>7, QuietSteps
    DEF Next, Application, Worker, WorkerLoop, Stopped

-----------------------------------------------------------------------------
(* Counting *)

(* selectTask's turns visit every position.                                *)
LEMMA Rotation ==
  ASSUME NEW n \in Nat \ {0}, NEW c \in 0 .. n - 1, NEW p \in 0 .. n - 1
  PROVE  \E j \in 0 .. n - 1 : (c + j) % n = p
<1>1. CASE p >= c
  <2>1. p - c \in 0 .. n - 1 /\ c + (p - c) = p
    BY <1>1
  <2>2. p % n = p
    BY ModSmall
  <2> QED BY <2>1, <2>2
<1>2. CASE p < c
  <2>1. p - c + n \in 0 .. n - 1 /\ c + (p - c + n) = p + n
    BY <1>2
  <2>2. (p + n) % n = p
    BY ModSmall
  <2> QED BY <2>1, <2>2
<1> QED BY <1>1, <1>2

(* A queue without duplicates has as many tasks as it is long.             *)
LEMMA QueueCard ==
  ASSUME NEW S, NEW q \in Seq(S), NoDuplicates(q)
  PROVE  /\ IsFiniteSet({k \in S : In(k, q)})
         /\ Cardinality({k \in S : In(k, q)}) = Len(q)
<1> DEFINE R == {k \in S : In(k, q)}
<1>1. Len(q) \in Nat /\ DOMAIN q = 1 .. Len(q) /\ q \in [1 .. Len(q) -> R]
  BY DEF In
<1>2. q \in Bijection(1 .. Len(q), R)
  BY <1>1 DEF Bijection, Injection, Surjection, IsInjective, NoDuplicates, In
<1>3. IsFiniteSet(1 .. Len(q)) /\ Cardinality(1 .. Len(q)) = Len(q)
  <2>1. /\ IsFiniteSet(1 .. Len(q))
        /\ Cardinality(1 .. Len(q)) = IF 1 > Len(q) THEN 0 ELSE Len(q) - 1 + 1
    BY <1>1, FS_Interval
  <2> QED BY <1>1, <2>1
<1>4. ExistsBijection(1 .. Len(q), R)
  BY <1>2 DEF ExistsBijection
<1> HIDE DEF R
<1>5. IsFiniteSet(R) /\ Cardinality(R) = Len(q)
  BY <1>3, <1>4, FS_Bijection
<1> QED BY <1>5 DEF R

(* Tasks are fewer than a size_t can count.                                *)
LEMMA Counts ==
  ASSUME NEW T \in SUBSET Tasks
  PROVE  IsFiniteSet(T) /\ Cardinality(T) \in Nat /\ Cardinality(T) < SizeMod
<1>1. IsFiniteSet(Tasks) /\ Cardinality(Tasks) < SizeMod /\ Cardinality(Tasks) \in Nat
  BY TasksAssumption, FS_CardinalityType
<1>2. IsFiniteSet(T) /\ Cardinality(T) <= Cardinality(Tasks)
  BY <1>1, FS_Subset
<1>3. Cardinality(T) \in Nat
  BY <1>2, FS_CardinalityType
<1> QED BY <1>1, <1>2, <1>3

(* What is in a queue was pushed there, once.                              *)
LEMMA QueueFacts ==
  ASSUME TypeOK, OrderInv, NEW v \in Vaccels
  PROVE  /\ queue[v] \in Seq(Tasks) /\ NoDuplicates(queue[v])
         /\ \A k : In(k, queue[v]) => k \in Tasks /\ Vaq[k] = v /\ tpc[k] \in {"signal", "issued"}
<1>1. /\ log[v] \in Seq(Tasks) /\ queue[v] \in Seq(Tasks) /\ IsRest(queue[v], log[v])
      /\ NoDuplicates(log[v])
      /\ \A i \in DOMAIN log[v] : Vaq[log[v][i]] = v /\ tpc[log[v][i]] \in {"signal", "issued"}
  BY DEF TypeOK, OrderInv, QueueInv, LogInv
<1>2. PICK l, q : l = log[v] /\ q = queue[v]
  OBVIOUS
<1>3. /\ l \in Seq(Tasks) /\ q \in Seq(Tasks) /\ Len(q) <= Len(l) /\ NoDuplicates(l)
      /\ \A i \in DOMAIN l : Vaq[l[i]] = v /\ tpc[l[i]] \in {"signal", "issued"}
      /\ \A i \in DOMAIN q : q[i] = l[Len(l) - Len(q) + i]
  BY <1>1, <1>2 DEF IsRest
<1>4. PICK d \in Nat : d = Len(l) - Len(q)
  <2>1. Len(l) \in Nat /\ Len(q) \in Nat /\ Len(q) <= Len(l)
    BY <1>3
  <2>2. Len(l) - Len(q) \in Nat
    BY <2>1
  <2> QED BY <2>2, Zenon
<1>5. \A i \in DOMAIN q : d + i \in DOMAIN l /\ q[i] = l[d + i] /\ i \in Nat /\ q[i] \in Tasks
  BY <1>3, <1>4
<1>6. NoDuplicates(q)
  <2> SUFFICES ASSUME NEW i \in DOMAIN q, NEW j \in DOMAIN q, q[i] = q[j] PROVE i = j
    BY DEF NoDuplicates
  <2>1. d + i = d + j
    BY <1>3, <1>5 DEF NoDuplicates
  <2> QED BY <1>5, <2>1
<1> QED BY <1>1, <1>2, <1>3, <1>5, <1>6 DEF In

-----------------------------------------------------------------------------
(* The count of tasks *)

(* The sets and the token of TokenAccounting, of given states.             *)
QueuedOn(p, q, a) == {k \in Tasks : p[Vaq[k]] = a /\ In(k, q[Vaq[k]])}
UnsignalledOn(p, t, a) == {k \in Tasks : p[Vaq[k]] = a /\ t[k] = "signal"}
HoldingAt(w) == IF w \in {"snapshot", "select", "pop", "del", "orphan"} THEN 1 ELSE 0

(* TokenAccounting of this state, and of the next.                         *)
LEMMA TokensNow ==
  TokenAccounting <=>
    \A a \in Accels : term[a] # "stopped" =>
      tasks[a] + HoldingAt(wpc[a]) + Cardinality(UnsignalledOn(phys, tpc, a))
        = Cardinality(QueuedOn(phys, queue, a))
BY Zenon
DEF TokenAccounting, Queued, Unsignalled, Holding, QueuedOn, UnsignalledOn, HoldingAt

LEMMA TokensNext ==
  TokenAccounting' <=>
    \A a \in Accels : term'[a] # "stopped" =>
      tasks'[a] + HoldingAt(wpc'[a]) + Cardinality(UnsignalledOn(phys', tpc', a))
        = Cardinality(QueuedOn(phys', queue', a))
BY Zenon
DEF TokenAccounting, Queued, Unsignalled, Holding, QueuedOn, UnsignalledOn, HoldingAt, In

(* What is counted is counted in natural numbers.                          *)
LEMMA TokenTypes ==
  ASSUME TypeOK, NEW a \in Accels
  PROVE  /\ tasks[a] \in Nat /\ HoldingAt(wpc[a]) \in {0, 1}
         /\ IsFiniteSet(UnsignalledOn(phys, tpc, a)) /\ IsFiniteSet(QueuedOn(phys, queue, a))
         /\ Cardinality(UnsignalledOn(phys, tpc, a)) \in Nat
         /\ Cardinality(QueuedOn(phys, queue, a)) \in Nat
         /\ Cardinality(QueuedOn(phys, queue, a)) < SizeMod
<1>1. UnsignalledOn(phys, tpc, a) \in SUBSET Tasks /\ QueuedOn(phys, queue, a) \in SUBSET Tasks
  BY DEF UnsignalledOn, QueuedOn
<1>2. tasks[a] \in Nat
  BY DEF TypeOK
<1> QED BY <1>1, <1>2, Counts DEF HoldingAt

(* LinkVaccel: the tasks of v become tasks of a, and each gets a token.    *)
LEMMA LinkTokens ==
  ASSUME IInv, NEW a \in Accels, NEW v \in Vaccels, phys[v] = None, LinkVaccel(a, v),
         UNCHANGED <<queue, tpc, term>>
  PROVE  TokenAccounting'
<1>1. TypeOK /\ OrderInv /\ TokenAccounting
  BY DEF IInv, BaseInv
<1>2. /\ phys'[v] = a /\ (\A w \in Vaccels : w # v => phys'[w] = phys[w])
      /\ \A b \in Accels : wpc'[b] = wpc[b] \/ (wpc[b] = "sleep" /\ wpc'[b] = "wait")
  BY <1>1, LinkFrame
<1>3. \A b \in Accels : HoldingAt(wpc'[b]) = HoldingAt(wpc[b])
  BY <1>2 DEF HoldingAt
<1>4. \A b \in Accels : UnsignalledOn(phys', tpc', b) = UnsignalledOn(phys, tpc, b)
  <2>1. \A k \in Tasks : Vaq[k] = v => tpc[k] # "signal"
    BY <1>1 DEF OrderInv, IssueInv, LinkVaccel
  <2> QED BY <1>2, <2>1 DEF UnsignalledOn
<1>5. PICK S : S = {k \in Tasks : In(k, queue[v])}
  OBVIOUS
<1>6. IsFiniteSet(S) /\ Cardinality(S) = Len(queue[v]) /\ (\A k \in S : Vaq[k] = v)
  <2>1. /\ queue[v] \in Seq(Tasks) /\ NoDuplicates(queue[v])
        /\ \A k : In(k, queue[v]) => k \in Tasks /\ Vaq[k] = v
    BY <1>1, QueueFacts
  <2>2. /\ IsFiniteSet({k \in Tasks : In(k, queue[v])})
        /\ Cardinality({k \in Tasks : In(k, queue[v])}) = Len(queue[v])
    <3> HIDE DEF In, NoDuplicates
    <3> QED BY <2>1, QueueCard
  <2>3. IsFiniteSet(S) /\ Cardinality(S) = Len(queue[v])
    BY <1>5, <2>2
  <2> QED BY <1>5, <2>1, <2>3
<1>7. \A b \in Accels : b # a => QueuedOn(phys', queue', b) = QueuedOn(phys, queue, b)
  BY <1>2 DEF QueuedOn
<1>8. /\ QueuedOn(phys', queue', a) = QueuedOn(phys, queue, a) \cup S
      /\ QueuedOn(phys, queue, a) \cap S = {}
  BY <1>2, <1>5, <1>6 DEF QueuedOn
<1>9. Cardinality(QueuedOn(phys', queue', a)) = Cardinality(QueuedOn(phys, queue, a)) + Len(queue[v])
  <2>1. IsFiniteSet(QueuedOn(phys, queue, a)) /\ Cardinality(QueuedOn(phys, queue, a)) \in Nat
    BY <1>1, TokenTypes
  <2>2. Cardinality(QueuedOn(phys, queue, a) \cup S) =
          Cardinality(QueuedOn(phys, queue, a)) + Cardinality(S) - Cardinality({})
    BY <1>6, <1>8, <2>1, FS_Union
  <2>3. Cardinality({}) = 0 /\ Len(queue[v]) \in Nat
    BY <1>1, FS_EmptySet DEF TypeOK
  <2> QED BY <1>6, <1>8, <2>1, <2>2, <2>3
<1>10. Cardinality(QueuedOn(phys', queue', a)) < SizeMod
  <2>1. QueuedOn(phys', queue', a) \in SUBSET Tasks
    BY DEF QueuedOn
  <2> QED BY <2>1, Counts
<1> SUFFICES ASSUME NEW b \in Accels, term[b] # "stopped"
             PROVE  tasks'[b] + HoldingAt(wpc'[b]) + Cardinality(UnsignalledOn(phys', tpc', b))
                      = Cardinality(QueuedOn(phys', queue', b))
  BY TokensNext
<1>11. tasks[b] + HoldingAt(wpc[b]) + Cardinality(UnsignalledOn(phys, tpc, b))
         = Cardinality(QueuedOn(phys, queue, b))
  BY <1>1, TokensNow
<1>12. /\ tasks[b] \in Nat /\ HoldingAt(wpc[b]) \in {0, 1}
       /\ Cardinality(UnsignalledOn(phys, tpc, b)) \in Nat
       /\ Cardinality(QueuedOn(phys, queue, b)) \in Nat /\ Len(queue[v]) \in Nat
  <2>1. Len(queue[v]) \in Nat
    BY <1>1 DEF TypeOK
  <2> QED BY <1>1, <2>1, TokenTypes
<1>13. CASE b = a
  <2>1. tasks[a] + Len(queue[v]) \in 0 .. SizeMod - 1
    <3>1. tasks[a] <= Cardinality(QueuedOn(phys, queue, a)) /\ tasks[a] \in Nat
      BY <1>11, <1>12, <1>13
    <3> QED BY <1>9, <1>10, <1>12, <1>13, <3>1, DispatchAssumption
  <2>2. (tasks[a] + Len(queue[v])) % SizeMod = tasks[a] + Len(queue[v])
    BY <2>1, ModSmall
  <2>3. tasks'[a] = tasks[a] + Len(queue[v])
    BY <1>1, <2>2 DEF LinkVaccel, AddTokens, TypeOK
  <2> QED BY <1>3, <1>4, <1>9, <1>11, <1>12, <1>13, <2>3
<1>14. CASE b # a
  <2>1. tasks'[b] = tasks[b]
    BY <1>1, <1>14 DEF LinkVaccel, AddTokens, TypeOK
  <2> QED BY <1>3, <1>4, <1>7, <1>11, <1>14, <2>1
<1> QED BY <1>13, <1>14

(* arax_vaccel_add_task: the task is pushed, and counted once it signals.  *)
LEMMA PushTokens ==
  ASSUME IInv, NEW k \in Tasks, AddTaskPush(k)
  PROVE  TokenAccounting'
<1>1. TypeOK /\ OrderInv /\ TokenAccounting
  BY DEF IInv, BaseInv
<1>2. PICK v \in Vaccels : v = Vaq[k]
  OBVIOUS
<1>3. /\ tpc[k] = "push" /\ queue'[v] = Append(queue[v], k) /\ tpc'[k] = "signal"
      /\ \A w \in Vaccels : w # v => queue'[w] = queue[w]
      /\ \A j \in Tasks : j # k => tpc'[j] = tpc[j]
      /\ UNCHANGED <<tasks, phys, wpc, term>>
      /\ queue[v] \in Seq(Tasks)
  BY <1>1, <1>2 DEF AddTaskPush, TypeOK
<1>4. ~In(k, queue[v])
  BY <1>1, <1>3, QueueFacts
<1>5. \A j : In(j, queue'[v]) <=> In(j, queue[v]) \/ j = k
  <2>1. PICK q \in Seq(Tasks) : q = queue[v]
    BY <1>3
  <2>2. /\ Len(q) \in Nat /\ DOMAIN q = 1 .. Len(q) /\ DOMAIN Append(q, k) = 1 .. Len(q) + 1
        /\ \A i \in 1 .. Len(q) : Append(q, k)[i] = q[i]
        /\ Append(q, k)[Len(q) + 1] = k
    BY AppendFacts
  <2>3. \A i \in DOMAIN q : i \in DOMAIN Append(q, k) /\ Append(q, k)[i] = q[i]
    BY <2>2
  <2>4. \A i \in DOMAIN Append(q, k) : i \in DOMAIN q \/ i = Len(q) + 1
    BY <2>2
  <2>5. Len(q) + 1 \in DOMAIN Append(q, k)
    BY <2>2
  <2> QED BY <1>3, <2>1, <2>2, <2>3, <2>4, <2>5 DEF In
<1> SUFFICES ASSUME NEW b \in Accels, term[b] # "stopped"
             PROVE  tasks[b] + HoldingAt(wpc[b]) + Cardinality(UnsignalledOn(phys', tpc', b))
                      = Cardinality(QueuedOn(phys', queue', b))
  BY <1>3, TokensNext
<1>6. tasks[b] + HoldingAt(wpc[b]) + Cardinality(UnsignalledOn(phys, tpc, b))
        = Cardinality(QueuedOn(phys, queue, b))
  BY <1>1, TokensNow
<1>7. CASE phys[v] = b
  <2>1. /\ UnsignalledOn(phys', tpc', b) = UnsignalledOn(phys, tpc, b) \cup {k}
        /\ k \notin UnsignalledOn(phys, tpc, b)
    BY <1>2, <1>3, <1>7 DEF UnsignalledOn
  <2>2. /\ QueuedOn(phys', queue', b) = QueuedOn(phys, queue, b) \cup {k}
        /\ k \notin QueuedOn(phys, queue, b)
    <3>1. k \notin QueuedOn(phys, queue, b)
      BY <1>2, <1>4 DEF QueuedOn
    <3>2. ASSUME NEW j \in Tasks
          PROVE  j \in QueuedOn(phys', queue', b) <=> j \in QueuedOn(phys, queue, b) \/ j = k
      <4>1. CASE Vaq[j] = v
        BY <1>2, <1>3, <1>5, <1>7, <4>1 DEF QueuedOn
      <4>2. CASE Vaq[j] # v
        <5>1. queue'[Vaq[j]] = queue[Vaq[j]] /\ j # k
          BY <1>2, <1>3, <4>2
        <5> QED BY <1>3, <5>1 DEF QueuedOn
      <4> QED BY <4>1, <4>2
    <3>3. QueuedOn(phys', queue', b) \subseteq Tasks /\ QueuedOn(phys, queue, b) \subseteq Tasks
      BY DEF QueuedOn
    <3> QED BY <3>1, <3>2, <3>3
  <2>3. /\ Cardinality(UnsignalledOn(phys', tpc', b)) = Cardinality(UnsignalledOn(phys, tpc, b)) + 1
        /\ Cardinality(QueuedOn(phys', queue', b)) = Cardinality(QueuedOn(phys, queue, b)) + 1
    BY <1>1, <2>1, <2>2, TokenTypes, FS_AddElement
  <2>4. /\ tasks[b] \in Nat /\ HoldingAt(wpc[b]) \in {0, 1}
        /\ Cardinality(UnsignalledOn(phys, tpc, b)) \in Nat
        /\ Cardinality(QueuedOn(phys, queue, b)) \in Nat
    BY <1>1, TokenTypes
  <2> QED BY <1>6, <2>3, <2>4
<1>8. CASE phys[v] # b
  <2>1. UnsignalledOn(phys', tpc', b) = UnsignalledOn(phys, tpc, b)
    BY <1>2, <1>3, <1>8 DEF UnsignalledOn
  <2>2. QueuedOn(phys', queue', b) = QueuedOn(phys, queue, b)
    BY <1>2, <1>3, <1>8 DEF QueuedOn
  <2> QED BY <1>6, <2>1, <2>2
<1> QED BY <1>7, <1>8

(* Taking one task out of a set of tasks.                                  *)
LEMMA OneLess ==
  ASSUME NEW T, NEW U, NEW k \in T, IsFiniteSet(T), U = T \ {k}
  PROVE  Cardinality(U) = Cardinality(T) - 1
<1>1. Cardinality(T \ {k}) = IF k \in T THEN Cardinality(T) - 1 ELSE Cardinality(T)
  BY FS_RemoveElement, Zenon
<1> QED BY <1>1

(* It signals: the task is counted, and the count does not wrap.           *)
LEMMA SignalTokens ==
  ASSUME IInv, NEW k \in Tasks, AddTaskSignal(k)
  PROVE  TokenAccounting'
<1>1. TypeOK /\ OrderInv /\ TokenAccounting
  BY DEF IInv, BaseInv
<1>2. PICK v \in Vaccels : v = Vaq[k]
  OBVIOUS
<1>3. /\ tpc[k] = "signal" /\ tpc'[k] = "issued"
      /\ \A j \in Tasks : j # k => tpc'[j] = tpc[j]
      /\ UNCHANGED <<queue, phys, term>>
  BY <1>1 DEF AddTaskSignal, TypeOK
<1>4. CASE phys[v] = None
  <2>1. UNCHANGED <<tasks, wpc>>
    BY <1>2, <1>4 DEF AddTaskSignal
  <2>2. \A b \in Accels : UnsignalledOn(phys', tpc', b) = UnsignalledOn(phys, tpc, b)
    BY <1>2, <1>3, <1>4 DEF UnsignalledOn
  <2> QED BY <1>1, <1>3, <2>1, <2>2, TokensNow, TokensNext
<1>5. CASE phys[v] # None
  <2>1. PICK a \in Accels : a = phys[v] /\ arax_accel_add_task(a)
    BY <1>1, <1>2, <1>5 DEF AddTaskSignal, TypeOK
  <2>2. \A b \in Accels : HoldingAt(wpc'[b]) = HoldingAt(wpc[b])
    BY <1>1, <2>1, NotifyFrame DEF HoldingAt
  <2> SUFFICES ASSUME NEW b \in Accels, term[b] # "stopped"
               PROVE  tasks'[b] + HoldingAt(wpc[b]) + Cardinality(UnsignalledOn(phys', tpc', b))
                        = Cardinality(QueuedOn(phys, queue, b))
    BY <1>3, <2>2, TokensNext
  <2>3. tasks[b] + HoldingAt(wpc[b]) + Cardinality(UnsignalledOn(phys, tpc, b))
          = Cardinality(QueuedOn(phys, queue, b))
    BY <1>1, TokensNow
  <2>4. CASE b # a
    <3>1. tasks'[b] = tasks[b]
      BY <1>1, <2>1, <2>4 DEF arax_accel_add_task, AddTokens, TypeOK
    <3>2. UnsignalledOn(phys', tpc', b) = UnsignalledOn(phys, tpc, b)
      BY <1>2, <1>3, <2>1, <2>4 DEF UnsignalledOn
    <3> QED BY <2>3, <3>1, <3>2
  <2>5. CASE b = a
    <3>1. /\ UnsignalledOn(phys', tpc', b) = UnsignalledOn(phys, tpc, b) \ {k}
          /\ k \in UnsignalledOn(phys, tpc, b)
      BY <1>2, <1>3, <2>1, <2>5 DEF UnsignalledOn
    <3>2. /\ tasks[b] \in Nat /\ HoldingAt(wpc[b]) \in {0, 1}
          /\ IsFiniteSet(UnsignalledOn(phys, tpc, b))
          /\ Cardinality(UnsignalledOn(phys, tpc, b)) \in Nat
          /\ Cardinality(QueuedOn(phys, queue, b)) \in Nat
          /\ Cardinality(QueuedOn(phys, queue, b)) < SizeMod
      BY <1>1, TokenTypes
    <3>3. Cardinality(UnsignalledOn(phys', tpc', b)) = Cardinality(UnsignalledOn(phys, tpc, b)) - 1
      BY <3>1, <3>2, OneLess
    <3>4. Cardinality(UnsignalledOn(phys, tpc, b)) # 0
      BY <3>1, <3>2, FS_EmptySet
    <3>5. tasks[b] + 1 \in 0 .. SizeMod - 1
      BY <2>3, <3>2, <3>4
    <3>6. (tasks[b] + 1) % SizeMod = tasks[b] + 1
      BY <3>5, ModSmall
    <3>7. tasks'[b] = tasks[b] + 1
      BY <1>1, <2>1, <2>5, <3>6 DEF arax_accel_add_task, AddTokens, TypeOK
    <3> QED BY <2>3, <3>2, <3>3, <3>7
  <2> QED BY <2>4, <2>5
<1> QED BY <1>4, <1>5

(* A step of the worker of a that leaves the tasks where they are and the  *)
(* sum of its tokens as it is.                                             *)
LEMMA WorkerTokens ==
  ASSUME IInv, NEW a \in Accels, UNCHANGED <<queue, phys, tpc, term>>,
         \A b \in Accels : b # a => tasks'[b] = tasks[b] /\ wpc'[b] = wpc[b],
         term[a] # "stopped" => tasks'[a] + HoldingAt(wpc'[a]) = tasks[a] + HoldingAt(wpc[a])
  PROVE  TokenAccounting'
<1>1. TokenAccounting
  BY DEF IInv
<1> SUFFICES ASSUME NEW b \in Accels, term[b] # "stopped"
             PROVE  tasks'[b] + HoldingAt(wpc'[b]) + Cardinality(UnsignalledOn(phys, tpc, b))
                      = Cardinality(QueuedOn(phys, queue, b))
  BY TokensNext
<1>2. tasks[b] + HoldingAt(wpc[b]) + Cardinality(UnsignalledOn(phys, tpc, b))
        = Cardinality(QueuedOn(phys, queue, b))
  BY <1>1, TokensNow
<1>3. CASE b = a
  <2>1. tasks'[b] + HoldingAt(wpc'[b]) = tasks[b] + HoldingAt(wpc[b])
    BY <1>3
  <2> QED BY <1>2, <2>1
<1>4. CASE b # a
  BY <1>2, <1>4
<1> QED BY <1>3, <1>4

(* selectTask pops: the token is spent, and the task is gone.              *)
LEMMA PopTokens ==
  ASSUME IInv, NEW a \in Accels, selectTask(a), queue[Candidate(a)] # <<>>
  PROVE  TokenAccounting'
<1>1. TypeOK /\ OrderInv /\ TokenAccounting /\ CopyInv
  BY DEF IInv, BaseInv
<1>2. PICK v \in Vaccels : v = Candidate(a) /\ phys[v] = a
  BY <1>1, OwnCandidate DEF selectTask, PopCandidate
<1>3. /\ queue'[v] = Tail(queue[v])
      /\ \A w \in Vaccels : w # v => queue'[w] = queue[w]
      /\ wpc[a] = "select" /\ wpc'[a] = "run"
      /\ \A b \in Accels : b # a => wpc'[b] = wpc[b]
      /\ UNCHANGED <<tasks, phys, tpc, term>>
  <2>1. queue' = [queue EXCEPT ![v] = Tail(queue[v])] /\ queue \in [Vaccels -> Seq(Tasks)]
    BY <1>1, <1>2 DEF selectTask, PopCandidate, TypeOK
  <2>2. wpc[a] = "select" /\ wpc' = [wpc EXCEPT ![a] = "run"] /\ wpc \in [Accels -> WorkerPC]
    BY <1>1, <1>2 DEF selectTask, PopCandidate, Found, Goto, TypeOK
  <2>3. UNCHANGED <<tasks, phys, tpc, term>>
    BY <1>2 DEF selectTask, PopCandidate, Found, issuers
  <2> QED BY <2>1, <2>2, <2>3
<1>4. PICK k \in Tasks : k = Head(queue[v]) /\ Vaq[k] = v
  <2>1. /\ queue[v] \in Seq(Tasks)
        /\ \A j : In(j, queue[v]) => j \in Tasks /\ Vaq[j] = v
    BY <1>1, QueueFacts
  <2>2. In(Head(queue[v]), queue[v])
    BY <1>2, <2>1, PopHead
  <2> QED BY <2>1, <2>2
<1>5. /\ \A j : In(j, queue[v]) <=> (j = k \/ In(j, queue'[v]))
      /\ ~In(k, queue'[v])
  <2>1. queue[v] \in Seq(Tasks) /\ NoDuplicates(queue[v]) /\ queue[v] # <<>>
    BY <1>1, <1>2, QueueFacts
  <2> QED BY <1>3, <1>4, <2>1, PopHead
<1> SUFFICES ASSUME NEW b \in Accels, term[b] # "stopped"
             PROVE  tasks[b] + HoldingAt(wpc'[b]) + Cardinality(UnsignalledOn(phys, tpc, b))
                      = Cardinality(QueuedOn(phys, queue', b))
  BY <1>3, TokensNext
<1>6. tasks[b] + HoldingAt(wpc[b]) + Cardinality(UnsignalledOn(phys, tpc, b))
        = Cardinality(QueuedOn(phys, queue, b))
  BY <1>1, TokensNow
<1>7. CASE b # a
  <2>1. \A j \in Tasks : phys[Vaq[j]] = b => Vaq[j] # v /\ queue'[Vaq[j]] = queue[Vaq[j]]
    BY <1>2, <1>3, <1>7
  <2>2. QueuedOn(phys, queue', b) = QueuedOn(phys, queue, b)
    BY <2>1 DEF QueuedOn
  <2> QED BY <1>3, <1>6, <1>7, <2>2
<1>8. CASE b = a
  <2>1. HoldingAt(wpc[b]) = 1 /\ HoldingAt(wpc'[b]) = 0
    BY <1>3, <1>8 DEF HoldingAt
  <2>2. k \in QueuedOn(phys, queue, b)
    BY <1>2, <1>4, <1>5, <1>8 DEF QueuedOn
  <2>3. QueuedOn(phys, queue', b) = QueuedOn(phys, queue, b) \ {k}
    <3>1. ASSUME NEW j \in Tasks
          PROVE  j \in QueuedOn(phys, queue', b) <=> j \in QueuedOn(phys, queue, b) /\ j # k
      <4>1. CASE Vaq[j] = v
        BY <1>5, <4>1 DEF QueuedOn
      <4>2. CASE Vaq[j] # v
        BY <1>3, <1>4, <4>2 DEF QueuedOn
      <4> QED BY <4>1, <4>2
    <3>2. QueuedOn(phys, queue', b) \subseteq Tasks /\ QueuedOn(phys, queue, b) \subseteq Tasks
      BY DEF QueuedOn
    <3> QED BY <3>1, <3>2
  <2>4. /\ tasks[b] \in Nat
        /\ IsFiniteSet(QueuedOn(phys, queue, b))
        /\ Cardinality(UnsignalledOn(phys, tpc, b)) \in Nat
        /\ Cardinality(QueuedOn(phys, queue, b)) \in Nat
    BY <1>1, TokenTypes
  <2>5. Cardinality(QueuedOn(phys, queue', b)) = Cardinality(QueuedOn(phys, queue, b)) - 1
    BY <2>2, <2>3, <2>4, OneLess
  <2> QED BY <1>6, <2>1, <2>4, <2>5
<1> QED BY <1>7, <1>8

(* A worker that has tried every virtual accelerator was stopped.          *)
LEMMA Searched ==
  ASSUME IInv
  PROVE  TokenFindsTask
<1>1. SearchInv /\ TypeOK
  BY DEF IInv, BaseInv
<1> SUFFICES ASSUME NEW a \in Accels, wpc[a] = "select", idx[a] = Len(VACs[a])
             PROVE  term[a] = "stopped"
  BY DEF TokenFindsTask
<1>2. idx[a] \in Nat
  BY <1>1 DEF TypeOK
<1>3. idx[a] .. Len(VACs[a]) - 1 = {}
  BY <1>2
<1> QED BY <1>1, <1>3 DEF SearchInv

(* Every step keeps the count.                                             *)
LEMMA TokenStep ==
  ASSUME IInv, [Next]_vars
  PROVE  TokenAccounting'
<1>1. TypeOK /\ HandsInv /\ OrderInv /\ TokenAccounting /\ BaseInv
  BY DEF IInv, BaseInv
<1>2. ASSUME UNCHANGED <<queue, phys, tpc, term, tasks, wpc>> PROVE TokenAccounting'
  BY <1>1, <1>2, TokensNow, TokensNext
<1>3. ASSUME NEW v \in Vaccels, AcquirePhys(v) PROVE TokenAccounting'
  <2>1. phys[v] = None /\ Acquired[v] \in Accels /\ LinkVaccel(Acquired[v], v)
    BY <1>1, <1>3, Unassigned DEF AcquirePhys
  <2>2. UNCHANGED <<queue, tpc, term>>
    BY <1>3 DEF AcquirePhys, issuers
  <2> QED BY <2>1, <2>2, LinkTokens
<1>4. CASE assignVacLink
  <2>1. bvac \in Vaccels /\ bacc \in Accels /\ phys[bvac] = None /\ LinkVaccel(bacc, bvac)
    BY <1>1, <1>4, Unassigned DEF assignVacLink
  <2>2. UNCHANGED <<queue, tpc, term>>
    BY <1>4 DEF assignVacLink, issuers
  <2> QED BY <2>1, <2>2, LinkTokens
<1>5. ASSUME NEW k \in Tasks, AddTaskLock(k) PROVE TokenAccounting'
  <2>1. /\ UNCHANGED <<queue, phys, term, tasks, wpc>>
        /\ \A j \in Tasks : tpc'[j] = "signal" <=> tpc[j] = "signal"
    BY <1>1, <1>5 DEF AddTaskLock, TypeOK
  <2>2. \A b \in Accels : UnsignalledOn(phys', tpc', b) = UnsignalledOn(phys, tpc, b)
    BY <2>1 DEF UnsignalledOn
  <2> QED BY <1>1, <2>1, <2>2, TokensNow, TokensNext
<1>6. ASSUME NEW a \in Accels, CheckStop(a) \/ SpuriousWake(a) \/ updateVirtAccels(a) \/ Complete(a)
      PROVE  TokenAccounting'
  <2>1. /\ UNCHANGED <<queue, phys, tpc, term, tasks>>
        /\ \A b \in Accels : b # a => wpc'[b] = wpc[b]
    BY <1>1, <1>6 DEF CheckStop, SpuriousWake, updateVirtAccels, Complete, Goto, TypeOK, issuers
  <2>2. HoldingAt(wpc'[a]) = HoldingAt(wpc[a])
    BY <1>1, <1>6 DEF CheckStop, SpuriousWake, updateVirtAccels, Complete, Goto, TypeOK, HoldingAt
  <2> QED BY <2>1, <2>2, WorkerTokens
<1>7. ASSUME NEW a \in Accels, arax_accel_wait_for_task(a) PROVE TokenAccounting'
  <2>1. /\ UNCHANGED <<queue, phys, tpc, term>>
        /\ \A b \in Accels : b # a => tasks'[b] = tasks[b] /\ wpc'[b] = wpc[b]
    BY <1>1, <1>7 DEF arax_accel_wait_for_task, Goto, TypeOK, issuers
  <2>2. tasks'[a] + HoldingAt(wpc'[a]) = tasks[a] + HoldingAt(wpc[a])
    <3>1. tasks[a] \in Nat
      BY <1>1 DEF TypeOK
    <3>2. CASE tasks[a] = 0
      BY <1>1, <1>7, <3>2 DEF arax_accel_wait_for_task, Goto, TypeOK, HoldingAt
    <3>3. CASE tasks[a] # 0
      <4>1. wpc[a] = "wait" /\ wpc'[a] = "snapshot" /\ tasks'[a] = tasks[a] - 1
        BY <1>1, <1>7, <3>3 DEF arax_accel_wait_for_task, Goto, TypeOK
      <4> QED BY <3>1, <4>1 DEF HoldingAt
    <3> QED BY <3>2, <3>3
  <2> QED BY <2>1, <2>2, WorkerTokens
<1>8. ASSUME NEW a \in Accels, NotFound(a) PROVE TokenAccounting'
  <2>1. /\ UNCHANGED <<queue, phys, tpc, term, tasks>>
        /\ \A b \in Accels : b # a => wpc'[b] = wpc[b]
    BY <1>1, <1>8 DEF NotFound, Goto, TypeOK, issuers
  <2>2. term[a] = "stopped"
    BY <1>8, Searched DEF NotFound, TokenFindsTask
  <2> QED BY <2>1, <2>2, WorkerTokens
<1>9. ASSUME NEW a \in Accels, selectTask(a) PROVE TokenAccounting'
  <2>1. CASE queue[Candidate(a)] = <<>>
    BY <1>2, <1>9, <2>1 DEF selectTask, PopCandidate, issuers
  <2> QED BY <1>9, <2>1, PopTokens
<1>10. ASSUME NEW a \in Accels, TerminateFlag(a) PROVE TokenAccounting'
  <2>1. /\ UNCHANGED <<queue, phys, tpc, tasks, wpc>>
        /\ \A b \in Accels : term'[b] # "stopped" => term[b] # "stopped"
    BY <1>1, <1>10 DEF TerminateFlag, TypeOK, issuers
  <2> QED BY <1>1, <2>1, TokensNow, TokensNext
<1>11. ASSUME NEW a \in Accels, TerminateToken(a) PROVE TokenAccounting'
  <2>1. /\ UNCHANGED <<queue, phys, tpc>>
        /\ term'[a] = "stopped" /\ arax_accel_add_task(a)
        /\ \A b \in Accels : b # a => term'[b] = term[b] /\ tasks'[b] = tasks[b] /\ wpc'[b] = wpc[b]
    BY <1>1, <1>11 DEF TerminateToken, arax_accel_add_task, AddTokens, Notify, TypeOK, issuers
  <2> QED BY <1>1, <2>1, TokensNow, TokensNext
<1>12. ASSUME \/ \E v \in Vaccels : AcquireType(v)
              \/ GetOrphan \/ GetOrphanWoken \/ SpuriousWakeBalancer
              \/ \E a \in Accels : assignVac(a)
              \/ UNCHANGED vars
       PROVE  TokenAccounting'
  BY <1>2, <1>12
  DEF AcquireType, GetOrphan, GetOrphanWoken, SpuriousWakeBalancer, assignVac, vars, issuers
<1> QED BY <1>3, <1>4, <1>5, <1>6, <1>7, <1>8, <1>9, <1>10, <1>11, <1>12, PushTokens, SignalTokens
    DEF Next, Application, Worker, WorkerLoop, Balancer, Terminate, Stopped

-----------------------------------------------------------------------------
(* The search *)

(* Turn of given states, and SearchInv of this state and of the next.      *)
TurnOf(c, n, j) == (((c + 1) % n) + j) % n

LEMMA SearchNow ==
  SearchInv <=>
    \A a \in Accels :
      wpc[a] = "select" =>
        /\ idx[a] <= Len(VACs[a])
        /\ term[a] # "stopped" =>
             \E j \in idx[a] .. Len(VACs[a]) - 1 :
               queue[VACs[a][TurnOf(rr[a], Len(VACs[a]), j) + 1]] # <<>>
BY Zenon DEF SearchInv, Turn, TurnOf

LEMMA SearchNext ==
  SearchInv' <=>
    \A a \in Accels :
      wpc'[a] = "select" =>
        /\ idx'[a] <= Len(VACs'[a])
        /\ term'[a] # "stopped" =>
             \E j \in idx'[a] .. Len(VACs'[a]) - 1 :
               queue'[VACs'[a][TurnOf(rr'[a], Len(VACs'[a]), j) + 1]] # <<>>
BY Zenon DEF SearchInv, Turn, TurnOf

(* Turns are positions of the copy.                                        *)
LEMMA TurnRange ==
  ASSUME NEW n \in Nat \ {0}, NEW c \in Nat, NEW j \in Nat
  PROVE  TurnOf(c, n, j) \in 0 .. n - 1
<1>1. \A x \in Nat : x % n \in 0 .. n - 1
  BY ModRange
<1>2. (c + 1) % n \in Nat
  <2>1. c + 1 \in Nat
    OBVIOUS
  <2>2. (c + 1) % n \in 0 .. n - 1
    BY <1>1, <2>1, Zenon
  <2> QED BY <2>2
<1>3. ((c + 1) % n) + j \in Nat
  BY <1>2
<1> QED BY <1>1, <1>3, Zenon DEF TurnOf

(* A search goes on while nobody else takes the tasks of the copy.         *)
LEMMA SearchFrame ==
  ASSUME TypeOK, SearchInv, NEW a \in Accels, wpc[a] = "select",
         idx'[a] = idx[a], VACs'[a] = VACs[a], rr'[a] = rr[a],
         term'[a] # "stopped" => term[a] # "stopped",
         \A i \in DOMAIN VACs[a] : queue[VACs[a][i]] # <<>> => queue'[VACs[a][i]] # <<>>
  PROVE  /\ idx'[a] <= Len(VACs'[a])
         /\ term'[a] # "stopped" =>
              \E j \in idx'[a] .. Len(VACs'[a]) - 1 :
                queue'[VACs'[a][TurnOf(rr'[a], Len(VACs'[a]), j) + 1]] # <<>>
<1>1. idx[a] <= Len(VACs[a])
  BY SearchNow
<1>2. Len(VACs[a]) \in Nat /\ DOMAIN VACs[a] = 1 .. Len(VACs[a]) /\ idx[a] \in Nat /\ rr[a] \in Nat
  BY DEF TypeOK
<1>3. ASSUME term[a] # "stopped"
      PROVE  \E j \in idx[a] .. Len(VACs[a]) - 1 :
               queue'[VACs[a][TurnOf(rr[a], Len(VACs[a]), j) + 1]] # <<>>
  <2>1. PICK j \in idx[a] .. Len(VACs[a]) - 1 :
               queue[VACs[a][TurnOf(rr[a], Len(VACs[a]), j) + 1]] # <<>>
    BY <1>3, SearchNow
  <2>2. TurnOf(rr[a], Len(VACs[a]), j) \in 0 .. Len(VACs[a]) - 1
    <3>1. Len(VACs[a]) \in Nat \ {0} /\ j \in Nat
      BY <1>2
    <3> QED BY <1>2, <3>1, TurnRange
  <2>3. TurnOf(rr[a], Len(VACs[a]), j) + 1 \in DOMAIN VACs[a]
    BY <1>2, <2>2
  <2> QED BY <2>1, <2>3
<1> QED BY <1>1, <1>3

(* The copy of a worker with a token has a task: the count says that its   *)
(* accelerator has one, and the list has all that are assigned to it.      *)
LEMMA SnapshotSearch ==
  ASSUME IInv, NEW a \in Accels, updateVirtAccels(a), term[a] # "stopped"
  PROVE  \E j \in 0 .. Len(assigned[a]) - 1 :
           queue[assigned[a][TurnOf(rr[a], Len(assigned[a]), j) + 1]] # <<>>
<1>1. TypeOK /\ TokenAccounting /\ ListsConsistent
  BY DEF IInv, BaseInv
<1>2. PICK k \in Tasks : phys[Vaq[k]] = a /\ In(k, queue[Vaq[k]])
  <2>1. tasks[a] + HoldingAt(wpc[a]) + Cardinality(UnsignalledOn(phys, tpc, a))
          = Cardinality(QueuedOn(phys, queue, a))
    BY <1>1, TokensNow
  <2>2. HoldingAt(wpc[a]) = 1
    BY DEF updateVirtAccels, HoldingAt
  <2>3. /\ tasks[a] \in Nat /\ Cardinality(UnsignalledOn(phys, tpc, a)) \in Nat
        /\ Cardinality(QueuedOn(phys, queue, a)) \in Nat
    BY <1>1, TokenTypes
  <2>4. Cardinality(QueuedOn(phys, queue, a)) # 0
    BY <2>1, <2>2, <2>3
  <2>5. QueuedOn(phys, queue, a) # {}
    BY <2>4, FS_EmptySet
  <2> QED BY <2>5 DEF QueuedOn
<1>3. queue[Vaq[k]] # <<>>
  BY <1>2 DEF In
<1>4. PICK list \in Seq(Vaccels) : list = assigned[a]
  BY <1>1 DEF TypeOK
<1>5. PICK i \in DOMAIN list : list[i] = Vaq[k]
  BY <1>1, <1>2, <1>4 DEF ListsConsistent, OnePlace, In
<1>6. Len(list) \in Nat /\ DOMAIN list = 1 .. Len(list)
  OBVIOUS
<1>7. i - 1 \in 0 .. Len(list) - 1 /\ Len(list) \in Nat \ {0} /\ (i - 1) + 1 = i
  BY <1>5, <1>6
<1>8. (rr[a] + 1) % Len(list) \in 0 .. Len(list) - 1
  <2>1. rr[a] + 1 \in Int
    BY <1>1 DEF TypeOK
  <2> QED BY <1>7, <2>1, ModRange
<1>9. PICK j \in 0 .. Len(list) - 1 : (((rr[a] + 1) % Len(list)) + j) % Len(list) = i - 1
  BY <1>7, <1>8, Rotation
<1>10. TurnOf(rr[a], Len(list), j) + 1 = i
  <2>1. TurnOf(rr[a], Len(list), j) = i - 1
    BY <1>9, Zenon DEF TurnOf
  <2> QED BY <1>7, <2>1
<1> QED BY <1>3, <1>4, <1>5, <1>9, <1>10

(* Every step keeps the search.                                            *)
LEMMA SearchStep ==
  ASSUME IInv, [Next]_vars
  PROVE  SearchInv'
<1>1. TypeOK /\ OrderInv /\ CopyInv /\ SearchInv /\ BaseInv
  BY DEF IInv, BaseInv
<1>2. CASE Quiet
  <2> SUFFICES ASSUME NEW a \in Accels, wpc'[a] = "select"
               PROVE  /\ idx'[a] <= Len(VACs'[a])
                      /\ term'[a] # "stopped" =>
                           \E j \in idx'[a] .. Len(VACs'[a]) - 1 :
                             queue'[VACs'[a][TurnOf(rr'[a], Len(VACs'[a]), j) + 1]] # <<>>
    BY SearchNext
  <2>1. wpc[a] = "select"
    BY <1>2 DEF Quiet
  <2>2. term'[a] # "stopped" => term[a] # "stopped"
    BY <1>2 DEF Quiet
  <2> QED BY <1>1, <1>2, <2>1, <2>2, SearchFrame DEF Quiet
<1>3. ASSUME NEW a \in Accels,
             \A b \in Accels : b # a =>
               idx'[b] = idx[b] /\ VACs'[b] = VACs[b] /\ rr'[b] = rr[b] /\ wpc'[b] = wpc[b],
             UNCHANGED <<term, queue>>, wpc'[a] # "select"
      PROVE  SearchInv'
  <2> SUFFICES ASSUME NEW b \in Accels, wpc'[b] = "select"
               PROVE  /\ idx'[b] <= Len(VACs'[b])
                      /\ term'[b] # "stopped" =>
                           \E j \in idx'[b] .. Len(VACs'[b]) - 1 :
                             queue'[VACs'[b][TurnOf(rr'[b], Len(VACs'[b]), j) + 1]] # <<>>
    BY SearchNext
  <2> QED BY <1>1, <1>3, SearchFrame
<1>4. ASSUME NEW a \in Accels, arax_accel_wait_for_task(a) \/ NotFound(a) \/ Complete(a)
      PROVE  SearchInv'
  <2>1. \A b \in Accels : b # a =>
          idx'[b] = idx[b] /\ VACs'[b] = VACs[b] /\ rr'[b] = rr[b] /\ wpc'[b] = wpc[b]
    BY <1>1, <1>4 DEF arax_accel_wait_for_task, NotFound, Complete, Goto, TypeOK, workers
  <2>2. UNCHANGED <<term, queue>> /\ wpc'[a] # "select"
    BY <1>1, <1>4 DEF arax_accel_wait_for_task, NotFound, Complete, Goto, TypeOK
  <2> QED BY <1>3, <2>1, <2>2
<1>5. ASSUME NEW a \in Accels, updateVirtAccels(a) PROVE SearchInv'
  <2>1. /\ VACs'[a] = assigned[a] /\ idx'[a] = 0 /\ UNCHANGED <<rr, queue, term>>
        /\ \A b \in Accels : b # a =>
             idx'[b] = idx[b] /\ VACs'[b] = VACs[b] /\ rr'[b] = rr[b] /\ wpc'[b] = wpc[b]
    BY <1>1, <1>5 DEF updateVirtAccels, Goto, TypeOK
  <2> SUFFICES ASSUME NEW b \in Accels, wpc'[b] = "select"
               PROVE  /\ idx'[b] <= Len(VACs'[b])
                      /\ term'[b] # "stopped" =>
                           \E j \in idx'[b] .. Len(VACs'[b]) - 1 :
                             queue'[VACs'[b][TurnOf(rr'[b], Len(VACs'[b]), j) + 1]] # <<>>
    BY SearchNext
  <2>2. CASE b # a
    BY <1>1, <2>1, <2>2, SearchFrame
  <2>3. CASE b = a
    <3>1. Len(assigned[a]) \in Nat
      BY <1>1 DEF TypeOK
    <3>2. idx'[b] <= Len(VACs'[b])
      BY <2>1, <2>3, <3>1
    <3>3. ASSUME term[a] # "stopped"
          PROVE  \E j \in 0 .. Len(assigned[a]) - 1 :
                   queue[assigned[a][TurnOf(rr[a], Len(assigned[a]), j) + 1]] # <<>>
      BY <1>5, <3>3, SnapshotSearch
    <3> QED BY <2>1, <2>3, <3>2, <3>3
  <2> QED BY <2>2, <2>3
<1>6. ASSUME NEW a \in Accels, selectTask(a) PROVE SearchInv'
  <2>1. /\ idx[a] < Len(VACs[a]) /\ wpc[a] = "select" /\ UNCHANGED <<VACs, term>>
        /\ \A b \in Accels : b # a => idx'[b] = idx[b] /\ rr'[b] = rr[b] /\ wpc'[b] = wpc[b]
    BY <1>1, <1>6 DEF selectTask, PopCandidate, Found, Goto, TypeOK
  <2>2. PICK v \in Vaccels : v = Candidate(a) /\ phys[v] = a
    BY <1>1, <2>1, OwnCandidate
  <2>3. \A w \in Vaccels : w # v => queue'[w] = queue[w]
    BY <1>1, <1>6, <2>2 DEF selectTask, PopCandidate, TypeOK
  <2> SUFFICES ASSUME NEW b \in Accels, wpc'[b] = "select"
               PROVE  /\ idx'[b] <= Len(VACs'[b])
                      /\ term'[b] # "stopped" =>
                           \E j \in idx'[b] .. Len(VACs'[b]) - 1 :
                             queue'[VACs'[b][TurnOf(rr'[b], Len(VACs'[b]), j) + 1]] # <<>>
    BY SearchNext
  <2>4. CASE b # a
    <3>1. \A i \in DOMAIN VACs[b] : VACs[b][i] \in Vaccels /\ VACs[b][i] # v
      BY <1>1, <2>2, <2>4, SMTT(30) DEF CopyInv, TypeOK
    <3> QED BY <1>1, <2>1, <2>3, <2>4, <3>1, SearchFrame
  <2>5. CASE b = a
    <3>1. queue[v] = <<>> /\ idx'[a] = idx[a] + 1 /\ UNCHANGED <<queue, rr>>
      <4>1. CASE queue[v] = <<>>
        BY <1>1, <1>6, <2>2, <4>1 DEF selectTask, PopCandidate, TypeOK
      <4>2. CASE queue[v] # <<>>
        BY <1>1, <1>6, <2>2, <2>5, <4>2 DEF selectTask, PopCandidate, Found, Goto, TypeOK
      <4> QED BY <4>1, <4>2
    <3>2. Len(VACs[a]) \in Nat /\ idx[a] \in Nat
      BY <1>1 DEF TypeOK
    <3>3. idx[a] + 1 <= Len(VACs[a])
      BY <2>1, <3>2
    <3>4. ASSUME term[a] # "stopped"
          PROVE  \E j \in idx[a] + 1 .. Len(VACs[a]) - 1 :
                   queue[VACs[a][TurnOf(rr[a], Len(VACs[a]), j) + 1]] # <<>>
      <4>1. PICK j \in idx[a] .. Len(VACs[a]) - 1 :
                   queue[VACs[a][TurnOf(rr[a], Len(VACs[a]), j) + 1]] # <<>>
        BY <1>1, <2>1, <3>4, SearchNow
      <4>2. v = VACs[a][TurnOf(rr[a], Len(VACs[a]), idx[a]) + 1]
        BY <2>2, Zenon DEF Candidate, Position, Turn, TurnOf
      <4>3. j # idx[a]
        BY <3>1, <4>1, <4>2
      <4>4. j \in idx[a] + 1 .. Len(VACs[a]) - 1
        BY <3>2, <4>1, <4>3
      <4> QED BY <4>1, <4>4
    <3> QED BY <2>1, <2>5, <3>1, <3>3, <3>4
  <2> QED BY <2>4, <2>5
<1>7. ASSUME NEW k \in Tasks, AddTaskLock(k) \/ AddTaskPush(k) \/ AddTaskSignal(k)
      PROVE  SearchInv'
  <2>1. /\ UNCHANGED <<idx, VACs, rr, term>>
        /\ \A a \in Accels : wpc'[a] = wpc[a] \/ wpc'[a] = "wait"
    BY <1>1, <1>7 DEF AddTaskLock, AddTaskPush, AddTaskSignal, arax_accel_add_task, Notify, TypeOK,
                      workers
  <2>2. \A v \in Vaccels : queue[v] # <<>> => queue'[v] # <<>>
    <3>1. CASE AddTaskPush(k)
      <4>1. Append(queue[Vaq[k]], k) # <<>>
        <5>1. queue[Vaq[k]] \in Seq(Tasks)
          BY <1>1 DEF TypeOK
        <5> QED BY <5>1
      <4> QED BY <1>1, <3>1, <4>1 DEF AddTaskPush, TypeOK
    <3>2. CASE AddTaskLock(k) \/ AddTaskSignal(k)
      BY <3>2 DEF AddTaskLock, AddTaskSignal
    <3> QED BY <1>7, <3>1, <3>2
  <2> SUFFICES ASSUME NEW b \in Accels, wpc'[b] = "select"
               PROVE  /\ idx'[b] <= Len(VACs'[b])
                      /\ term'[b] # "stopped" =>
                           \E j \in idx'[b] .. Len(VACs'[b]) - 1 :
                             queue'[VACs'[b][TurnOf(rr'[b], Len(VACs'[b]), j) + 1]] # <<>>
    BY SearchNext
  <2>3. \A i \in DOMAIN VACs[b] : VACs[b][i] \in Vaccels
    BY <1>1 DEF TypeOK
  <2> QED BY <1>1, <2>1, <2>2, <2>3, SearchFrame
<1> QED BY <1>1, <1>2, <1>4, <1>5, <1>6, <1>7, QuietSteps
    DEF Next, Application, Worker, WorkerLoop, Stopped

-----------------------------------------------------------------------------
(* The theorems *)

(* Init satisfies the inductive invariant: nothing was issued.             *)
LEMMA InitTasks == Init => IInv
<1> SUFFICES ASSUME Init PROVE IInv
  OBVIOUS
<1>1. BaseInv
  BY InitBase
<1>2. OrderInv
  BY InitOrder
<1>3. CopyInv /\ SearchInv
  BY DEF Init, CopyInv, SearchInv
<1>4. WakeInv
  BY DEF Init, WakeInv
<1>5. TokenAccounting
  <2>1. \A k, v : v \in Vaccels => ~In(k, queue[v])
    BY DEF Init, In
  <2>2. ASSUME NEW a \in Accels
        PROVE  /\ UnsignalledOn(phys, tpc, a) = {} /\ QueuedOn(phys, queue, a) = {}
               /\ tasks[a] = 0 /\ HoldingAt(wpc[a]) = 0
    BY <2>1 DEF Init, UnsignalledOn, QueuedOn, HoldingAt
  <2>3. Cardinality({}) = 0
    BY FS_EmptySet
  <2>4. \A a \in Accels :
          tasks[a] + HoldingAt(wpc[a]) + Cardinality(UnsignalledOn(phys, tpc, a))
            = Cardinality(QueuedOn(phys, queue, a))
    BY <2>2, <2>3
  <2> QED BY <2>4, TokensNow
<1> QED BY <1>1, <1>2, <1>3, <1>4, <1>5 DEF IInv

(* The inductive invariant of the dispatch under the default scheduler:    *)
(* the lists, the order, the copies, the search, the count, the wake-ups.  *)
THEOREM RoundRobinInvariant == Spec => []IInv
<1>1. IInv /\ [Next]_vars => IInv'
  <2> SUFFICES ASSUME IInv, [Next]_vars PROVE IInv'
    OBVIOUS
  <2>1. BaseInv'
    BY BaseStep DEF IInv
  <2>2. OrderInv' /\ CopyInv' /\ SearchInv' /\ TokenAccounting' /\ WakeInv'
    BY OrderStep, CopyStep, SearchStep, TokenStep, WakeStep
  <2> QED BY <2>1, <2>2 DEF IInv
<1> QED BY <1>1, InitTasks, PTL DEF Spec

(* "Number of pending tasks": accel->tasks, the token in the worker's hands*)
(* and the pushes not yet signalled are together exactly the tasks queued, *)
(* whatever the interleaving, and the count never wraps.                   *)
THEOREM RoundRobinTokens == Spec => []TokenAccounting
<1>1. IInv => TokenAccounting
  BY DEF IInv
<1> QED BY <1>1, RoundRobinInvariant, PTL

(* A worker that arax_accel_wait_for_task let through finds a task: its    *)
(* search fails only after terminate().                                    *)
THEOREM RoundRobinFinds == Spec => []TokenFindsTask
<1>1. IInv => TokenFindsTask
  BY Searched
<1> QED BY <1>1, RoundRobinInvariant, PTL

(* SEQUENTIAL: the tasks of a virtual accelerator run one after the other, *)
(* in the order they were issued.                                          *)
THEOREM RoundRobinSequential == Spec => []Sequential
<1>1. IInv => Sequential
  BY OrderSequential DEF IInv, BaseInv
<1> QED BY <1>1, RoundRobinInvariant, PTL

(* The balancer calls assignVac without a virtual accelerator only after   *)
(* two spurious wake-ups in a row.                                         *)
THEOREM RoundRobinAssigns == Spec => []AssignsVaccel
<1>1. IInv => AssignsVaccel
  BY DEF IInv, WakeInv, AssignsVaccel
<1> QED BY <1>1, RoundRobinInvariant, PTL

=============================================================================
