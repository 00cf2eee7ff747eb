--------------------------- MODULE PlacementProofs --------------------------
(***************************************************************************)
(* The dispatch under the two schedulers that move virtual accelerators,   *)
(* for any number of accelerators, virtual accelerators and tasks.         *)
(*                                                                         *)
(* Elastic: what the balancer moves from one accelerator to another is     *)
(* neither lost nor linked twice.  Heterogeneous, for any assignment of    *)
(* functors: IInv is inductive, although workers give virtual accelerators *)
(* up with tasks in their queues while issuers push and the balancer links.*)
(***************************************************************************)
EXTENDS Heterogeneous, Elastic, DispatchProofs

USE DispatchAssumption

-----------------------------------------------------------------------------
(* Elastic *)

\* What is in the balancer's hands, now and in the next state.
ElasticHeld == {bvac} \cup IF bpc \in {"move", "movelink"} THEN {mig} ELSE {}
ElasticHeldNext(v) == v = bvac' \/ (bpc' \in {"move", "movelink"} /\ v = mig')

LEMMA ElasticListsNext ==
  ASSUME NEW G, OnePlaceNext(G), \A v \in Vaccels : v \in G <=> ElasticHeldNext(v)
  PROVE  MovedConsistent'
BY DEF OnePlaceNext, ElasticHeldNext, MovedConsistent, OnePlace, In, NoDuplicates

(* What the balancer holds is in no list: arax_pipe_remove_orphan_vaccel   *)
(* leaves the orphans alone.                                               *)
LEMMA HeldVaccels ==
  ASSUME ElasticInv
  PROVE  /\ bpc \in {"assign", "link", "del", "move", "movelink"} =>
              bvac \in Vaccels /\ bvac \in live /\ ~In(bvac, orphans)
         /\ bpc \in {"move", "movelink"} =>
              mig \in Vaccels /\ mig \in live /\ ~In(mig, orphans) /\ mig # bvac
<1>1. bpc \in {"assign", "link", "del", "move", "movelink"} => bvac \in Vaccels
  BY DEF ElasticInv, ElasticHands, TypeOK
<1>2. bpc \in {"move", "movelink"} => mig \in Vaccels /\ mig # bvac
  BY DEF ElasticInv, ElasticHands
<1>3. /\ \A v \in Vaccels : v \in ElasticHeld => v \in live /\ ~In(v, orphans)
  BY DEF ElasticInv, MovedConsistent, OnePlace, ElasticHeld
<1> QED BY <1>1, <1>2, <1>3 DEF ElasticHeld

(* Every step keeps the types.                                             *)
LEMMA ElasticTypeStep ==
  ASSUME ElasticInv, [ElasticNext]_vars
  PROVE  Typed'
<1>1. Typed /\ TypeOK /\ ElasticHands
  BY DEF ElasticInv, ElasticHands, Typed
<1> DEFINE Linked == /\ assigned' \in [Accels -> Seq(Vaccels)]
                     /\ phys' \in [Vaccels -> Accels \cup {None}]
                     /\ tasks' \in [Accels -> 0 .. SizeMod - 1]
                     /\ wpc' \in [Accels -> WorkerPC]
                     /\ \A b \in Accels : wpc'[b] = "run" => wpc[b] = "run"
<1>2. ASSUME NEW a \in Accels, NEW b \in Accels, elasticAssignVac(a, b) PROVE Typed'
  <2>1. orphans' = orphans
    BY <1>2, HeldVaccels DEF elasticAssignVac, RemoveOrphan
  <2>2. mig' \in Vaccels \cup {None} /\ target' \in Accels \cup {None} /\ bpc' \in BalancerPC
    BY <1>1, <1>2 DEF elasticAssignVac, Movable, TypeOK, migration, BalancerPC
  <2> QED BY <1>1, <1>2, <2>1, <2>2
    DEF elasticAssignVac, Typed, TypeOK, issuers, workers
<1>3. CASE assignVacDel
  <2>1. bpc' \in BalancerPC
    BY <1>3 DEF assignVacDel, BalancerPC
  <2>2. Linked
    <3>1. CASE phys[mig] # bacc
      BY <1>1, <1>3, <3>1 DEF assignVacDel, TypeOK
    <3>2. CASE phys[mig] = bacc
      <4>1. mig \in Vaccels /\ bacc \in Accels /\ UnlinkVaccel(bacc, mig)
        BY <1>1, <1>3, <3>2 DEF assignVacDel, ElasticHands
      <4>2. In(mig, assigned[bacc])
        BY <3>2, <4>1 DEF ElasticInv, MovedConsistent, OnePlace
      <4>3. /\ assigned' \in [Accels -> Seq(Vaccels)]
            /\ phys' \in [Vaccels -> Accels \cup {None}]
            /\ tasks' \in [Accels -> 0 .. SizeMod - 1]
        BY <1>1, <4>1, <4>2, UnlinkTypes
      <4>4. wpc' = IF queue[mig] = <<>> THEN wpc ELSE Notify(bacc)
        BY <1>3, <3>2 DEF assignVacDel
      <4>5. /\ wpc' \in [Accels -> WorkerPC]
            /\ \A b \in Accels : wpc'[b] = "run" => wpc[b] = "run"
        BY <1>1, <4>4 DEF Notify, TypeOK, WorkerPC
      <4> QED BY <4>3, <4>5
    <3> QED BY <3>1, <3>2
  <2> QED BY <1>1, <1>3, <2>1, <2>2
    DEF assignVacDel, Typed, TypeOK, issuers, workers, migration
<1>4. CASE assignVacMove
  <2>1. orphans' = orphans
    BY <1>4, HeldVaccels DEF assignVacMove, RemoveOrphan
  <2> QED BY <1>1, <1>4, <2>1
    DEF assignVacMove, Typed, TypeOK, BalancerPC, issuers, workers, migration
<1>5. CASE assignVacMoveLink
  <2>1. orphans' = orphans
    BY <1>5, HeldVaccels DEF assignVacMoveLink, RemoveOrphan
  <2>2. mig \in Vaccels /\ target \in Accels /\ LinkVaccel(target, mig)
    BY <1>1, <1>5 DEF assignVacMoveLink, ElasticHands
  <2>3. Linked
    BY <1>1, <2>2, LinkTypes
  <2> QED BY <1>1, <1>5, <2>1, <2>3
    DEF assignVacMoveLink, Typed, TypeOK, BalancerPC, issuers, workers
<1>6. CASE elasticAssignVacLink
  <2>1. bacc \in Accels /\ bvac \in Vaccels /\ LinkVaccel(bacc, bvac)
    BY <1>1, <1>6, HeldVaccels DEF elasticAssignVacLink, ElasticHands
  <2>2. Linked
    BY <1>1, <2>1, LinkTypes
  <2> QED BY <1>1, <1>6, <2>2
    DEF elasticAssignVacLink, Typed, TypeOK, BalancerPC, issuers, workers, migration
<1> HIDE DEF Linked
<1> QED BY <1>1, <1>2, <1>3, <1>4, <1>5, <1>6, ApplicationTyped, LoopTyped, SelectTyped,
           OrphanTyped, TerminateTyped, SameTyped
    DEF ElasticNext, ElasticWorker, elasticSelectTask, ElasticBalancer, Stopped

(* Every step keeps each node in one place, and the balancer holds one     *)
(* virtual accelerator while it assigns it, two while it moves another.    *)
LEMMA ElasticListsStep ==
  ASSUME ElasticInv, [ElasticNext]_vars
  PROVE  ElasticHands' /\ MovedConsistent'
<1>1. TypeOK /\ ElasticHands /\ OnePlace(ElasticHeld)
  BY DEF ElasticInv, MovedConsistent, ElasticHeld
<1>2. \A a \in Accels : wpc'[a] = "run" => cur'[a] \in Tasks
  BY ElasticTypeStep DEF Typed
<1>3. ASSUME \/ UNCHANGED <<bpc, bvac, bacc, mig, target>>
             \/ UNCHANGED <<bvac, bacc, mig, target>> /\ bpc = "sleep" /\ bpc' = "woken",
             OnePlaceNext(ElasticHeld)
      PROVE  ElasticHands' /\ MovedConsistent'
  <2>1. ElasticHands'
    BY <1>1, <1>2, <1>3 DEF ElasticHands
  <2>2. \A v \in Vaccels : v \in ElasticHeld <=> ElasticHeldNext(v)
    BY <1>3 DEF ElasticHeld, ElasticHeldNext
  <2> QED BY <1>3, <2>1, <2>2, ElasticListsNext
<1>4. CASE \/ Application \/ Terminate \/ SpuriousWakeBalancer \/ UNCHANGED vars
           \/ \E a \in Accels : WorkerLoop(a) \/ SpuriousWake(a) \/ PopCandidate(a)
  <2>1. OnePlaceNext(ElasticHeld)
    BY <1>1, <1>4, SharedPlace
  <2> DEFINE Hands == \/ UNCHANGED <<bpc, bvac, bacc, mig, target>>
                      \/ UNCHANGED <<bvac, bacc, mig, target>> /\ bpc = "sleep" /\ bpc' = "woken"
  <2>2. ASSUME NEW v \in Vaccels, AcquireType(v) PROVE Hands
    BY <2>2 DEF AcquireType, NotifyBalancer, migration
  <2>3. ASSUME NEW v \in Vaccels, AcquirePhys(v) PROVE Hands
    BY <2>3 DEF AcquirePhys, balancer, migration
  <2>4. ASSUME NEW k \in Tasks, AddTaskLock(k) \/ AddTaskPush(k) \/ AddTaskSignal(k) PROVE Hands
    BY <2>4 DEF AddTaskLock, AddTaskPush, AddTaskSignal, balancer, migration
  <2>5. ASSUME Terminate \/ SpuriousWakeBalancer \/ UNCHANGED vars PROVE Hands
    BY <2>5 DEF Terminate, TerminateFlag, TerminateToken, SpuriousWakeBalancer, vars, balancer,
                migration
  <2>6. ASSUME NEW a \in Accels, WorkerLoop(a) \/ SpuriousWake(a) \/ PopCandidate(a) PROVE Hands
    BY <2>6 DEF WorkerLoop, SpuriousWake, CheckStop, arax_accel_wait_for_task, updateVirtAccels,
                NotFound, Complete, PopCandidate, balancer, migration
  <2> HIDE DEF Hands
  <2>7. Hands
    BY <1>4, <2>2, <2>3, <2>4, <2>5, <2>6 DEF Application
  <2> QED BY <1>3, <2>1, <2>7 DEF Hands
<1>5. CASE GetOrphan \/ GetOrphanWoken
  <2>1. bvac = None /\ UNCHANGED <<live, assigned, phys, bacc, mig, target>>
    BY <1>1, <1>5 DEF GetOrphan, GetOrphanWoken, ElasticHands, migration
  <2>2. CASE orphans = <<>>
    <3>1. /\ UNCHANGED <<orphans, bvac>> /\ bpc \in {"get", "woken"}
          /\ bpc' \in {"sleep", "null", "get"}
      BY <1>5, <2>2 DEF GetOrphan, GetOrphanWoken
    <3>2. OnePlaceNext(ElasticHeld)
      BY <1>1, <2>1, <3>1, PlaceSame
    <3>3. ElasticHands'
      BY <1>1, <1>2, <2>1, <3>1 DEF ElasticHands
    <3>4. \A v \in Vaccels : v \in ElasticHeld <=> ElasticHeldNext(v)
      BY <3>1 DEF ElasticHeld, ElasticHeldNext
    <3> QED BY <3>2, <3>3, <3>4, ElasticListsNext
  <2>3. CASE orphans # <<>>
    <3>1. PopOrphan /\ bpc \in {"get", "woken"}
      BY <1>5, <2>3 DEF GetOrphan, GetOrphanWoken
    <3>2. PICK G : G = ElasticHeld \cup {bvac'}
      OBVIOUS
    <3>3. OnePlaceNext(G) /\ bvac' \in Vaccels
      <4>1. \A w \in Vaccels : w \in G <=> (w \in ElasticHeld \/ w = bvac')
        BY <3>2
      <4> QED BY <1>1, <2>1, <2>3, <3>1, <4>1, PlacePop
    <3>4. \A v \in Vaccels : v \in G <=> ElasticHeldNext(v)
      BY <2>1, <3>1, <3>2 DEF ElasticHeld, ElasticHeldNext, PopOrphan
    <3>5. ElasticHands'
      BY <1>2, <2>1, <3>1, <3>3 DEF ElasticHands, PopOrphan
    <3> QED BY <3>3, <3>4, <3>5, ElasticListsNext
  <2> QED BY <2>2, <2>3
<1>6. ASSUME NEW a \in Accels, NEW b \in Accels, elasticAssignVac(a, b) PROVE ElasticHands' /\ MovedConsistent'
  <2>1. UNCHANGED <<live, orphans, assigned, phys, bvac>> /\ bpc = "assign"
    BY <1>6, HeldVaccels DEF elasticAssignVac, RemoveOrphan
  <2>2. /\ bacc' = a
        /\ bpc' = "link" \/ (bpc' = "del" /\ mig' \in Vaccels /\ target' = b)
    BY <1>1, <1>6 DEF elasticAssignVac, Movable, TypeOK
  <2>3. OnePlaceNext(ElasticHeld)
    BY <1>1, <2>1, PlaceSame
  <2>4. \A v \in Vaccels : v \in ElasticHeld <=> ElasticHeldNext(v)
    BY <2>1, <2>2 DEF ElasticHeld, ElasticHeldNext
  <2>5. ElasticHands'
    BY <1>1, <1>2, <2>1, <2>2 DEF ElasticHands
  <2> QED BY <2>3, <2>4, <2>5, ElasticListsNext
<1>7. CASE assignVacDel
  <2>1. bpc = "del" /\ UNCHANGED <<live, orphans, bvac, bacc, mig, target>>
    BY <1>7 DEF assignVacDel, migration
  <2>2. mig \in Vaccels /\ bacc \in Accels /\ target \in Accels /\ bvac # None
    BY <1>1, <2>1 DEF ElasticHands
  <2>3. CASE phys[mig] # bacc
    <3>1. bpc' = "abort" /\ UNCHANGED <<assigned, phys>>
      BY <1>7, <2>3 DEF assignVacDel
    <3>2. OnePlaceNext(ElasticHeld)
      BY <1>1, <2>1, <3>1, PlaceSame
    <3>3. \A v \in Vaccels : v \in ElasticHeld <=> ElasticHeldNext(v)
      BY <2>1, <3>1 DEF ElasticHeld, ElasticHeldNext
    <3>4. ElasticHands'
      BY <1>2, <2>1, <2>2, <3>1 DEF ElasticHands
    <3> QED BY <3>2, <3>3, <3>4, ElasticListsNext
  <2>4. CASE phys[mig] = bacc
    <3>1. bpc' = "move" /\ UnlinkVaccel(bacc, mig)
      BY <1>7, <2>4 DEF assignVacDel
    <3>2. PICK G : G = ElasticHeld \cup {mig}
      OBVIOUS
    <3>3. OnePlaceNext(G) /\ mig \notin ElasticHeld
      <4>1. \A w \in Vaccels : w \in G <=> (w \in ElasticHeld \/ w = mig)
        BY <3>2
      <4> QED BY <1>1, <2>1, <2>2, <2>4, <3>1, <4>1, PlaceUnlink
    <3>4. \A v \in Vaccels : v \in G <=> ElasticHeldNext(v)
      BY <2>1, <3>1, <3>2 DEF ElasticHeld, ElasticHeldNext
    <3>5. mig # bvac
      BY <3>3 DEF ElasticHeld
    <3>6. ElasticHands'
      BY <1>2, <2>1, <2>2, <3>1, <3>5 DEF ElasticHands
    <3> QED BY <3>3, <3>4, <3>6, ElasticListsNext
  <2> QED BY <2>3, <2>4
<1>8. CASE assignVacMove
  <2>1. /\ bpc = "move" /\ bpc' = "movelink"
        /\ UNCHANGED <<live, orphans, assigned, phys, bvac, bacc, mig, target>>
    BY <1>8, HeldVaccels DEF assignVacMove, RemoveOrphan, migration
  <2>2. OnePlaceNext(ElasticHeld)
    BY <1>1, <2>1, PlaceSame
  <2>3. \A v \in Vaccels : v \in ElasticHeld <=> ElasticHeldNext(v)
    BY <2>1 DEF ElasticHeld, ElasticHeldNext
  <2>4. ElasticHands'
    BY <1>1, <1>2, <2>1 DEF ElasticHands
  <2> QED BY <2>2, <2>3, <2>4, ElasticListsNext
<1>9. CASE assignVacMoveLink
  <2>1. /\ bpc = "movelink" /\ bpc' = "link" /\ LinkVaccel(target, mig)
        /\ UNCHANGED <<live, orphans, bvac, bacc>>
    BY <1>9, HeldVaccels DEF assignVacMoveLink, RemoveOrphan
  <2>2. mig \in Vaccels /\ target \in Accels /\ bacc \in Accels /\ mig \in live /\ mig # bvac
    BY <1>1, <2>1, HeldVaccels DEF ElasticHands
  <2>3. PICK G : G = ElasticHeld \ {mig}
    OBVIOUS
  <2>4. OnePlaceNext(G)
    <3>1. /\ \A w \in Vaccels : w \in G <=> (w \in ElasticHeld /\ w # mig)
          /\ live' = live \cup {mig} /\ mig \in ElasticHeld
      BY <2>1, <2>2, <2>3 DEF ElasticHeld
    <3> QED BY <1>1, <2>1, <2>2, <3>1, PlaceLink
  <2>5. \A v \in Vaccels : v \in G <=> ElasticHeldNext(v)
    BY <2>1, <2>2, <2>3 DEF ElasticHeld, ElasticHeldNext
  <2>6. ElasticHands'
    BY <1>1, <1>2, <2>1, <2>2 DEF ElasticHands
  <2> QED BY <2>4, <2>5, <2>6, ElasticListsNext
<1>10. CASE elasticAssignVacLink
  <2>1. /\ bpc = "link" /\ bpc' = "get" /\ bvac' = None /\ LinkVaccel(bacc, bvac)
        /\ UNCHANGED <<live, orphans>>
    BY <1>10 DEF elasticAssignVacLink
  <2>2. bvac \in Vaccels /\ bvac \in live /\ bacc \in Accels
    BY <1>1, <2>1, HeldVaccels DEF ElasticHands
  <2>3. OnePlaceNext({})
    <3>1. /\ \A w \in Vaccels : w \in {} <=> (w \in ElasticHeld /\ w # bvac)
          /\ live' = live \cup {bvac} /\ bvac \in ElasticHeld
      BY <2>1, <2>2 DEF ElasticHeld
    <3> QED BY <1>1, <2>1, <2>2, <3>1, PlaceLink
  <2>4. \A v \in Vaccels : v \in {} <=> ElasticHeldNext(v)
    BY <2>1 DEF ElasticHeldNext
  <2>5. ElasticHands'
    BY <1>2, <2>1 DEF ElasticHands
  <2> QED BY <2>3, <2>4, <2>5, ElasticListsNext
<1> QED BY <1>4, <1>5, <1>6, <1>7, <1>8, <1>9, <1>10
    DEF ElasticNext, ElasticWorker, elasticSelectTask, ElasticBalancer, Stopped

(* A virtual accelerator that assignVac moves is in one list at any time,  *)
(* or in the balancer's hands between arax_accel_del_vaccel and            *)
(* arax_accel_add_vaccel; the assertion phys == 0 of the latter holds.     *)
THEOREM ElasticLists == ElasticSpec => []MovedConsistent
<1>1. Init => ElasticInv
  <2> SUFFICES ASSUME Init PROVE ElasticInv
    OBVIOUS
  <2>1. TypeOK /\ ElasticHands
    BY InitTyped DEF Typed, ElasticHands, Init
  <2>2. OnePlace({}) /\ bvac = None /\ bpc = "get"
    BY InitPlace DEF Init
  <2>3. MovedConsistent
    BY <2>2 DEF MovedConsistent, OnePlace
  <2> QED BY <2>1, <2>3 DEF ElasticInv
<1>2. ElasticInv /\ [ElasticNext]_vars => ElasticInv'
  BY ElasticTypeStep, ElasticListsStep DEF ElasticInv, Typed
<1>3. ElasticInv => MovedConsistent
  BY DEF ElasticInv
<1> QED BY <1>1, <1>2, <1>3, PTL DEF ElasticSpec

-----------------------------------------------------------------------------
(* Heterogeneous *)

USE HeterogeneousAssumption

-----------------------------------------------------------------------------
(* Turns *)

(* Two different turns of one search visit two different positions.        *)
LEMMA TurnsDiffer ==
  ASSUME NEW n \in Nat \ {0}, NEW c \in 0 .. n - 1, NEW i \in 0 .. n - 1, NEW j \in 0 .. n - 1,
         (c + i) % n = (c + j) % n
  PROVE  i = j
<1>1. ASSUME NEW k \in 0 .. n - 1
      PROVE  (c + k) % n = IF c + k < n THEN c + k ELSE c + k - n
  <2>1. CASE c + k < n
    <3>1. c + k \in 0 .. n - 1
      BY <2>1
    <3> QED BY <2>1, <3>1, ModSmall
  <2>2. CASE ~(c + k < n)
    <3>1. c + k - n \in 0 .. n - 1 /\ (c + k - n) + n = c + k
      BY <2>2
    <3>2. ((c + k - n) + n) % n = c + k - n
      BY <3>1, ModSmall
    <3> QED BY <2>2, <3>1, <3>2
  <2> QED BY <2>1, <2>2
<1>2. /\ (c + i) % n = IF c + i < n THEN c + i ELSE c + i - n
      /\ (c + j) % n = IF c + j < n THEN c + j ELSE c + j - n
  BY <1>1
<1> DEFINE x == (c + i) % n
           y == (c + j) % n
<1>3. x = y
  OBVIOUS
<1> HIDE DEF x, y
<1>4. /\ x = IF c + i < n THEN c + i ELSE c + i - n
      /\ y = IF c + j < n THEN c + j ELSE c + j - n
  BY <1>2 DEF x, y
<1> QED BY <1>3, <1>4

(* The positions of a search are positions of the copy, all different.     *)
LEMMA Turns ==
  ASSUME TypeOK, NEW a \in Accels
  PROVE  /\ VACs[a] \in Seq(Vaccels) /\ Len(VACs[a]) \in Nat /\ idx[a] \in Nat
         /\ \A j \in 0 .. Len(VACs[a]) - 1 :
              /\ Turn(a, j) \in Nat
              /\ Turn(a, j) + 1 \in DOMAIN VACs[a]
              /\ VACs[a][Turn(a, j) + 1] \in Vaccels
         /\ \A i, j \in 0 .. Len(VACs[a]) - 1 : Turn(a, i) = Turn(a, j) => i = j
<1>1. VACs[a] \in Seq(Vaccels) /\ Len(VACs[a]) \in Nat /\ idx[a] \in Nat /\ rr[a] \in Nat
  BY DEF TypeOK
<1>2. ASSUME NEW j \in 0 .. Len(VACs[a]) - 1
      PROVE  Turn(a, j) \in 0 .. Len(VACs[a]) - 1
  <2>1. Len(VACs[a]) \in Nat \ {0} /\ rr[a] + 1 \in Int
    BY <1>1
  <2>2. \A x \in Int : x % Len(VACs[a]) \in 0 .. Len(VACs[a]) - 1
    BY <2>1, ModRange
  <2>3. (rr[a] + 1) % Len(VACs[a]) \in 0 .. Len(VACs[a]) - 1
    BY <2>1, <2>2, Zenon
  <2>4. ((rr[a] + 1) % Len(VACs[a])) + j \in Int
    BY <1>1, <2>3
  <2> QED BY <2>2, <2>4, Zenon DEF Turn
<1>3. ASSUME NEW i \in 0 .. Len(VACs[a]) - 1, NEW j \in 0 .. Len(VACs[a]) - 1,
             Turn(a, i) = Turn(a, j)
      PROVE  i = j
  <2>1. Len(VACs[a]) \in Nat \ {0} /\ rr[a] + 1 \in Int
    BY <1>1
  <2>2. (rr[a] + 1) % Len(VACs[a]) \in 0 .. Len(VACs[a]) - 1
    BY <2>1, ModRange
  <2> DEFINE c == (rr[a] + 1) % Len(VACs[a])
  <2>3. (c + i) % Len(VACs[a]) = (c + j) % Len(VACs[a])
    BY <1>3 DEF Turn
  <2> HIDE DEF c
  <2>4. c \in 0 .. Len(VACs[a]) - 1
    BY <2>2 DEF c
  <2> QED BY <2>1, <2>3, <2>4, TurnsDiffer
<1>4. ASSUME NEW j \in 0 .. Len(VACs[a]) - 1
      PROVE  /\ Turn(a, j) \in Nat /\ Turn(a, j) + 1 \in DOMAIN VACs[a]
             /\ VACs[a][Turn(a, j) + 1] \in Vaccels
  BY <1>1, <1>2
<1> QED BY <1>1, <1>3, <1>4

(* A worker that searches, or acts on what it saw, owns its candidate and  *)
(* runs nothing; one that is giving it up holds it.                        *)
LEMMA OwnCandidate ==
  ASSUME IInv, NEW a \in Accels, wpc[a] \in {"select", "pop", "del", "orphan"},
         idx[a] < Len(VACs[a])
  PROVE  /\ Candidate(a) \in Vaccels /\ cur[a] = None /\ idx[a] \in 0 .. Len(VACs[a]) - 1
         /\ wpc[a] # "orphan" => phys[Candidate(a)] = a
         /\ wpc[a] = "orphan" => /\ phys[Candidate(a)] = None /\ Candidate(a) \in live
                                 /\ ~In(Candidate(a), orphans)
<1>1. TypeOK /\ idx[a] \in 0 .. Len(VACs[a]) - 1
  BY Turns DEF IInv
<1>2. Candidate(a) \in Vaccels
  BY <1>1, CandidateType
<1>3. cur[a] = None
  BY DEF IInv, OrderInv, TakenInv
<1>4. wpc[a] # "orphan" => phys[Candidate(a)] = a
  <2> SUFFICES ASSUME wpc[a] # "orphan" PROVE phys[Candidate(a)] = a
    OBVIOUS
  <2>1. idx[a] \in idx[a] .. Len(VACs[a]) - 1
    BY <1>1
  <2>2. phys[VACs[a][Turn(a, idx[a]) + 1]] = a
    BY <2>1 DEF IInv, CopyInv
  <2> QED BY <2>2 DEF Candidate, Position
<1>5. ASSUME wpc[a] = "orphan"
      PROVE  phys[Candidate(a)] = None /\ Candidate(a) \in live /\ ~In(Candidate(a), orphans)
  BY <1>2, <1>5 DEF IInv, ListsConsistent, OnePlace
<1> QED BY <1>1, <1>2, <1>3, <1>4, <1>5

-----------------------------------------------------------------------------
(* The next state, and workers that others' steps leave alone *)

TurnNext(a, j) == (((rr'[a] + 1) % Len(VACs'[a])) + j) % Len(VACs'[a])
CandidateNext(a) == VACs'[a][TurnNext(a, idx'[a]) + 1]

Searching == {"select", "pop", "del", "orphan"}

\* HandsInv, CopyInv and PeekStillHolds of the next state, for one worker.
WorkerNext(a) ==
  /\ wpc'[a] \in {"pop", "del", "orphan"} => idx'[a] < Len(VACs'[a])
  /\ wpc'[a] \in Searching =>
       /\ NoDuplicates(VACs'[a])
       /\ \A j \in idx'[a] .. Len(VACs'[a]) - 1 :
            (wpc'[a] = "orphan" => j # idx'[a]) => phys'[VACs'[a][TurnNext(a, j) + 1]] = a
  /\ wpc'[a] = "pop" =>
       queue'[CandidateNext(a)] # <<>> /\ a \in CanRun[Head(queue'[CandidateNext(a)])]
  /\ wpc'[a] = "del" =>
       /\ queue'[CandidateNext(a)] # <<>> /\ a \notin CanRun[Head(queue'[CandidateNext(a)])]
       /\ phys'[CandidateNext(a)] = a

LEMMA WorkersNext ==
  ASSUME \A a \in Accels : WorkerNext(a)
  PROVE  CopyInv' /\ PeekStillHolds'
<1>1. CopyInv'
  BY DEF WorkerNext, CopyInv, Searching, Turn, TurnNext, NoDuplicates
<1>2. PeekStillHolds'
  BY DEF WorkerNext, PeekStillHolds, checkForRunnableTask, Candidate, Position, Turn, TurnNext,
         CandidateNext
<1> QED BY <1>1, <1>2

\* Another's step leaves worker a its virtual accelerators and their oldest tasks.
Kept(a) ==
  /\ VACs'[a] = VACs[a] /\ idx'[a] = idx[a] /\ rr'[a] = rr[a]
  /\ wpc'[a] = wpc[a] \/ {wpc[a], wpc'[a]} \cap Searching = {}
  /\ \A v \in Vaccels : phys[v] = a =>
       /\ phys'[v] = a
       /\ queue[v] # <<>> => queue'[v] # <<>> /\ Head(queue'[v]) = Head(queue[v])

(* It then keeps what it holds, and what it saw.                           *)
LEMMA KeptNext ==
  ASSUME IInv, NEW a \in Accels, Kept(a)
  PROVE  /\ WorkerNext(a)
         /\ CandidateNext(a) = Candidate(a)
         /\ wpc'[a] = "orphan" <=> wpc[a] = "orphan"
<1>1. TypeOK /\ HandsInv /\ CopyInv /\ PeekStillHolds
  BY DEF IInv
<1>2. \A j : TurnNext(a, j) = Turn(a, j)
  BY DEF Kept, Turn, TurnNext
<1>3. CandidateNext(a) = Candidate(a)
  BY <1>2 DEF CandidateNext, Candidate, Position, Kept
<1>4. wpc'[a] \in Searching => wpc'[a] = wpc[a]
  BY DEF Kept, Searching
<1>5. wpc'[a] \in {"pop", "del", "orphan"} => idx'[a] < Len(VACs'[a])
  BY <1>1, <1>4 DEF HandsInv, Kept, Searching
<1>6. ASSUME wpc'[a] \in Searching
      PROVE  /\ NoDuplicates(VACs'[a])
             /\ \A j \in idx'[a] .. Len(VACs'[a]) - 1 :
                  (wpc'[a] = "orphan" => j # idx'[a]) => phys'[VACs'[a][TurnNext(a, j) + 1]] = a
  <2>1. /\ NoDuplicates(VACs[a])
        /\ \A j \in idx[a] .. Len(VACs[a]) - 1 :
             (wpc[a] = "orphan" => j # idx[a]) => phys[VACs[a][Turn(a, j) + 1]] = a
    BY <1>1, <1>4, <1>6 DEF CopyInv, Searching
  <2>2. \A j \in idx[a] .. Len(VACs[a]) - 1 : VACs[a][Turn(a, j) + 1] \in Vaccels
    <3>1. \A j \in idx[a] .. Len(VACs[a]) - 1 : j \in 0 .. Len(VACs[a]) - 1
      BY <1>1, Turns
    <3> QED BY <1>1, <3>1, Turns
  <2>3. ASSUME NEW j \in idx[a] .. Len(VACs[a]) - 1, wpc[a] = "orphan" => j # idx[a]
        PROVE  phys'[VACs[a][Turn(a, j) + 1]] = a
    BY <2>1, <2>2, <2>3 DEF Kept
  <2>4. wpc'[a] = wpc[a] /\ VACs'[a] = VACs[a] /\ idx'[a] = idx[a]
    BY <1>4, <1>6 DEF Kept
  <2> QED BY <1>2, <2>1, <2>3, <2>4
<1>7. ASSUME wpc'[a] \in {"pop", "del"}
      PROVE  /\ wpc[a] = wpc'[a]
             /\ Candidate(a) \in Vaccels /\ phys[Candidate(a)] = a
             /\ queue[Candidate(a)] # <<>>
             /\ phys'[Candidate(a)] = a
             /\ queue'[Candidate(a)] # <<>>
             /\ Head(queue'[Candidate(a)]) = Head(queue[Candidate(a)])
  <2>1. wpc[a] = wpc'[a]
    BY <1>4, <1>7 DEF Searching
  <2>2. idx[a] < Len(VACs[a])
    BY <1>1, <1>7, <2>1 DEF HandsInv
  <2>3. Candidate(a) \in Vaccels /\ phys[Candidate(a)] = a
    BY <1>7, <2>1, <2>2, OwnCandidate
  <2>4. queue[Candidate(a)] # <<>>
    BY <1>1, <1>7, <2>1 DEF PeekStillHolds, checkForRunnableTask
  <2> QED BY <2>1, <2>3, <2>4 DEF Kept
<1>8. wpc'[a] = "pop" => a \in CanRun[Head(queue[Candidate(a)])]
  BY <1>1, <1>7 DEF PeekStillHolds, checkForRunnableTask
<1>9. wpc'[a] = "del" => a \notin CanRun[Head(queue[Candidate(a)])]
  BY <1>1, <1>7 DEF PeekStillHolds, checkForRunnableTask
<1>10. WorkerNext(a)
  BY <1>3, <1>5, <1>6, <1>7, <1>8, <1>9 DEF WorkerNext
<1>11. wpc'[a] = "orphan" <=> wpc[a] = "orphan"
  BY DEF Kept, Searching
<1> QED BY <1>3, <1>10, <1>11

(* A push leaves the oldest task of every queue that has one.              *)
LEMMA PushHead ==
  ASSUME NEW S, NEW q \in Seq(S), NEW x \in S, q # <<>>
  PROVE  Append(q, x) # <<>> /\ Head(Append(q, x)) = Head(q)
<1>1. /\ Append(q, x) \in Seq(S) /\ Len(Append(q, x)) = Len(q) + 1
      /\ Len(q) \in Nat /\ Len(q) >= 1
      /\ Append(q, x)[1] = q[1]
  BY AppendFacts
<1>2. Append(q, x) # <<>>
  BY <1>1
<1>3. Head(Append(q, x)) = Append(q, x)[1] /\ Head(q) = q[1]
  BY <1>1, <1>2
<1> QED BY <1>1, <1>2, <1>3

(* The steps of Next that are quiet.                                       *)
LEMMA QuietSteps ==
  ASSUME IInv,
         \/ \E v \in Vaccels : AcquireType(v) \/ AcquirePhys(v)
         \/ \E a \in Accels : CheckStop(a) \/ SpuriousWake(a)
         \/ Balancer \/ SpuriousWakeBalancer \/ Terminate \/ UNCHANGED vars
  PROVE  Quiet
<1> DEFINE H == {bvac} \cup {Candidate(a) : a \in {w \in Accels : wpc[w] = "orphan"}}
<1>1. TypeOK /\ OnePlace(H) /\ HandsInv
  BY DEF IInv, ListsConsistent
<1>2. ASSUME NEW a \in Accels, assignVac(a) PROVE Quiet
  BY <1>2 DEF assignVac, Quiet, issuers, workers
<1>3. CASE assignVacLink
  <2>1. bvac \in Vaccels /\ bacc \in Accels /\ bvac \in H
    BY <1>1, <1>3 DEF assignVacLink, HandsInv, TypeOK
  <2>2. phys[bvac] = None
    BY <1>1, <2>1 DEF OnePlace
  <2> QED BY <1>1, <1>3, <2>1, <2>2, LinkFrame DEF assignVacLink, Quiet, issuers, workers
<1> HIDE DEF H
<1> QED BY <1>1, <1>2, <1>3, QuietShared DEF Balancer

(* Only a worker's own steps take away what it has.                        *)
LEMMA KeptByAll ==
  ASSUME IInv, NEW b \in Accels,
         \/ Quiet
         \/ \E k \in Tasks : AddTaskLock(k) \/ AddTaskPush(k) \/ AddTaskSignal(k)
         \/ \E a \in Accels : arax_accel_wait_for_task(a)
  PROVE  Kept(b)
<1>1. TypeOK
  BY DEF IInv
<1>2. CASE Quiet
  BY <1>2 DEF Quiet, Kept, Searching
<1>3. ASSUME NEW k \in Tasks, AddTaskLock(k) PROVE Kept(b)
  BY <1>3 DEF AddTaskLock, Kept, workers
<1>4. ASSUME NEW k \in Tasks, AddTaskPush(k) PROVE Kept(b)
  <2>1. /\ queue' = [queue EXCEPT ![Vaq[k]] = Append(@, k)]
        /\ UNCHANGED <<VACs, idx, rr, wpc, phys>>
    BY <1>4 DEF AddTaskPush, workers
  <2>2. ASSUME NEW v \in Vaccels, queue[v] # <<>>
        PROVE  queue'[v] # <<>> /\ Head(queue'[v]) = Head(queue[v])
    <3>1. CASE v = Vaq[k]
      <4>1. queue[v] \in Seq(Tasks) /\ queue'[v] = Append(queue[v], k)
        BY <1>1, <2>1, <3>1 DEF TypeOK
      <4> QED BY <2>2, <4>1, PushHead
    <3>2. CASE v # Vaq[k]
      BY <1>1, <2>1, <2>2, <3>2 DEF TypeOK
    <3> QED BY <3>1, <3>2
  <2> QED BY <2>1, <2>2 DEF Kept
<1>5. ASSUME NEW k \in Tasks, AddTaskSignal(k) PROVE Kept(b)
  <2>1. UNCHANGED <<VACs, idx, rr, phys, queue>>
    BY <1>5 DEF AddTaskSignal, workers
  <2>2. wpc'[b] = wpc[b] \/ (wpc[b] = "sleep" /\ wpc'[b] = "wait")
    <3>1. CASE phys[Vaq[k]] = None
      BY <1>5, <3>1 DEF AddTaskSignal
    <3>2. CASE phys[Vaq[k]] # None
      <4>1. phys[Vaq[k]] \in Accels /\ arax_accel_add_task(phys[Vaq[k]])
        BY <1>1, <1>5, <3>2 DEF AddTaskSignal, TypeOK
      <4> QED BY <1>1, <4>1, NotifyFrame
    <3> QED BY <3>1, <3>2
  <2> QED BY <2>1, <2>2 DEF Kept, Searching
<1>6. ASSUME NEW a \in Accels, arax_accel_wait_for_task(a), b # a PROVE Kept(b)
  BY <1>1, <1>6 DEF arax_accel_wait_for_task, Kept, Goto, TypeOK, workers
<1>7. ASSUME arax_accel_wait_for_task(b), wpc'[b] \notin Searching PROVE Kept(b)
  BY <1>1, <1>7 DEF arax_accel_wait_for_task, Kept, Searching, TypeOK, workers
<1>8. ASSUME arax_accel_wait_for_task(b) PROVE Kept(b)
  BY <1>1, <1>7, <1>8, SMTT(30) DEF arax_accel_wait_for_task, Goto, Searching, TypeOK
<1> QED BY <1>2, <1>3, <1>4, <1>5, <1>6, <1>8

\* The steps in which worker a takes, tries or gives up.
Acts(a) ==
  \/ updateVirtAccels(a) \/ NotFound(a) \/ Complete(a)
  \/ selectTask(a) \/ selectTaskPop(a) \/ selectTaskDel(a) \/ selectTaskOrphan(a)

(* They take nothing from the other workers, for the candidate is its own. *)
LEMMA KeptByOther ==
  ASSUME IInv, NEW a \in Accels, NEW b \in Accels, b # a, Acts(a)
  PROVE  Kept(b)
<1>1. TypeOK /\ HandsInv
  BY DEF IInv
<1>2. CASE updateVirtAccels(a) \/ NotFound(a) \/ Complete(a)
  BY <1>1, <1>2 DEF updateVirtAccels, NotFound, Complete, Kept, Goto, TypeOK
<1>3. CASE selectTask(a)
  BY <1>1, <1>3 DEF selectTask, Kept, Goto, TypeOK
<1>4. CASE selectTaskPop(a)
  <2>1. Candidate(a) \in Vaccels /\ phys[Candidate(a)] = a
    BY <1>1, <1>4, OwnCandidate DEF selectTaskPop, HandsInv
  <2>2. /\ queue' = [queue EXCEPT ![Candidate(a)] = Tail(@)]
        /\ rr' = [rr EXCEPT ![a] = Position(a)] /\ idx' = [idx EXCEPT ![a] = 0]
        /\ wpc' = [wpc EXCEPT ![a] = "run"] /\ UNCHANGED <<VACs, phys>>
    BY <1>4 DEF selectTaskPop, Found, Goto
  <2>3. \A v \in Vaccels : phys[v] = b => queue'[v] = queue[v]
    BY <1>1, <2>1, <2>2 DEF TypeOK
  <2>4. rr'[b] = rr[b] /\ idx'[b] = idx[b] /\ wpc'[b] = wpc[b]
    BY <1>1, <2>2 DEF TypeOK
  <2> QED BY <2>2, <2>3, <2>4 DEF Kept
<1>5. CASE selectTaskDel(a)
  <2>1. Candidate(a) \in Vaccels /\ phys[Candidate(a)] = a
    BY <1>1, <1>5, OwnCandidate DEF selectTaskDel, HandsInv
  <2>2. /\ phys' = [phys EXCEPT ![Candidate(a)] = None]
        /\ wpc' = [wpc EXCEPT ![a] = "orphan"] /\ UNCHANGED <<VACs, idx, rr, queue>>
    BY <1>5 DEF selectTaskDel, UnlinkVaccel, Goto, workers
  <2>3. \A v \in Vaccels : phys[v] = b => phys'[v] = b
    BY <1>1, <2>1, <2>2 DEF TypeOK
  <2>4. wpc'[b] = wpc[b]
    BY <1>1, <2>2 DEF TypeOK
  <2> QED BY <2>2, <2>3, <2>4 DEF Kept
<1>6. CASE selectTaskOrphan(a)
  BY <1>1, <1>6 DEF selectTaskOrphan, Kept, Goto, TypeOK
<1> QED BY <1>2, <1>3, <1>4, <1>5, <1>6 DEF Acts

(* A worker's own steps keep what it has yet to try, and what it saw.      *)
LEMMA ActNext ==
  ASSUME IInv, NEW a \in Accels, Acts(a)
  PROVE  WorkerNext(a)
<1>1. TypeOK /\ HandsInv /\ CopyInv /\ PeekStillHolds /\ ListsConsistent
  BY DEF IInv
<1>2. /\ VACs[a] \in Seq(Vaccels) /\ Len(VACs[a]) \in Nat /\ idx[a] \in Nat
      /\ \A j \in 0 .. Len(VACs[a]) - 1 :
           Turn(a, j) + 1 \in DOMAIN VACs[a] /\ VACs[a][Turn(a, j) + 1] \in Vaccels
      /\ \A i, j \in 0 .. Len(VACs[a]) - 1 : Turn(a, i) = Turn(a, j) => i = j
      /\ \A j \in idx[a] .. Len(VACs[a]) - 1 : j \in 0 .. Len(VACs[a]) - 1
  <2>1. /\ VACs[a] \in Seq(Vaccels) /\ Len(VACs[a]) \in Nat /\ idx[a] \in Nat
        /\ \A j \in 0 .. Len(VACs[a]) - 1 :
             Turn(a, j) + 1 \in DOMAIN VACs[a] /\ VACs[a][Turn(a, j) + 1] \in Vaccels
        /\ \A i, j \in 0 .. Len(VACs[a]) - 1 : Turn(a, i) = Turn(a, j) => i = j
    BY <1>1, Turns
  <2>2. \A j \in idx[a] .. Len(VACs[a]) - 1 : j \in 0 .. Len(VACs[a]) - 1
    BY <2>1
  <2> QED BY <2>1, <2>2
<1>3. ASSUME wpc[a] \in Searching
      PROVE  /\ NoDuplicates(VACs[a])
             /\ \A j \in idx[a] .. Len(VACs[a]) - 1 :
                  (wpc[a] = "orphan" => j # idx[a]) => phys[VACs[a][Turn(a, j) + 1]] = a
  BY <1>1, <1>3 DEF CopyInv, Searching
<1>4. ASSUME wpc'[a] \notin Searching PROVE WorkerNext(a)
  BY <1>4 DEF WorkerNext, Searching
<1>5. CASE NotFound(a) \/ Complete(a) \/ selectTaskPop(a)
  BY <1>1, <1>4, <1>5, SMTT(30) DEF NotFound, Complete, selectTaskPop, Found, Goto, Searching, TypeOK
<1>6. CASE updateVirtAccels(a)
  <2>1. VACs'[a] = assigned[a] /\ idx'[a] = 0 /\ wpc'[a] = "select" /\ phys' = phys
        /\ rr'[a] = rr[a] /\ rr[a] \in Nat /\ assigned[a] \in Seq(Vaccels)
    BY <1>1, <1>6 DEF updateVirtAccels, Goto, TypeOK
  <2>2. NoDuplicates(assigned[a])
    BY <1>1 DEF ListsConsistent, OnePlace
  <2>3. ASSUME NEW i \in 1 .. Len(assigned[a]) PROVE phys[assigned[a][i]] = a
    <3>1. In(assigned[a][i], assigned[a]) /\ assigned[a][i] \in Vaccels
      BY <2>1 DEF In
    <3> QED BY <1>1, <3>1 DEF ListsConsistent, OnePlace
  <2>4. ASSUME NEW j \in 0 .. Len(assigned[a]) - 1
        PROVE  TurnNext(a, j) + 1 \in 1 .. Len(assigned[a])
    <3> DEFINE n == Len(assigned[a])
    <3>1. n \in Nat \ {0} /\ rr[a] + 1 \in Int
      BY <2>1
    <3>2. \A x \in Int : x % n \in 0 .. n - 1
      BY <3>1, ModRange
    <3> HIDE DEF n
    <3>3. (rr[a] + 1) % n \in 0 .. n - 1
      BY <3>1, <3>2, Zenon
    <3>4. ((rr[a] + 1) % n) + j \in Int
      BY <3>1, <3>3 DEF n
    <3>5. (((rr[a] + 1) % n) + j) % n \in 0 .. n - 1
      BY <3>2, <3>4, Zenon
    <3>6. TurnNext(a, j) = (((rr[a] + 1) % n) + j) % n
      BY <2>1 DEF TurnNext, n
    <3>7. TurnNext(a, j) + 1 \in 1 .. n
      BY <3>1, <3>5, <3>6
    <3> QED BY <3>7 DEF n
  <2>5. \A j \in 0 .. Len(assigned[a]) - 1 : phys[assigned[a][TurnNext(a, j) + 1]] = a
    BY <2>3, <2>4
  <2> QED BY <2>1, <2>2, <2>5 DEF WorkerNext
<1>7. CASE selectTask(a)
  <2>1. /\ wpc[a] = "select" /\ idx[a] < Len(VACs[a])
        /\ VACs'[a] = VACs[a] /\ rr'[a] = rr[a] /\ phys' = phys /\ queue' = queue
    BY <1>7 DEF selectTask
  <2>2. \A j : TurnNext(a, j) = Turn(a, j)
    BY <2>1 DEF TurnNext, Turn
  <2>3. /\ NoDuplicates(VACs[a])
        /\ \A j \in idx[a] .. Len(VACs[a]) - 1 : phys[VACs[a][Turn(a, j) + 1]] = a
    BY <1>3, <2>1 DEF Searching
  <2>4. CASE queue[Candidate(a)] = <<>>
    <3>1. idx' = [idx EXCEPT ![a] = @ + 1] /\ wpc' = wpc
      BY <1>7, <2>4 DEF selectTask, checkForRunnableTask
    <3>2. idx'[a] = idx[a] + 1
      BY <1>1, <3>1 DEF TypeOK
    <3>3. \A j \in idx[a] + 1 .. Len(VACs[a]) - 1 : j \in idx[a] .. Len(VACs[a]) - 1
      BY <1>2
    <3> QED BY <2>1, <2>2, <2>3, <3>1, <3>2, <3>3 DEF WorkerNext
  <2>5. CASE queue[Candidate(a)] # <<>>
    <3>1. idx' = idx /\ Goto(a, IF a \in CanRun[Head(queue[Candidate(a)])] THEN "pop" ELSE "del")
      BY <1>7, <2>5 DEF selectTask, checkForRunnableTask
    <3>2. wpc'[a] = IF a \in CanRun[Head(queue[Candidate(a)])] THEN "pop" ELSE "del"
      BY <1>1, <3>1 DEF Goto, TypeOK
    <3>3. CandidateNext(a) = Candidate(a)
      BY <2>1, <2>2, <3>1 DEF CandidateNext, Candidate, Position
    <3>4. phys[Candidate(a)] = a
      BY <2>1, OwnCandidate
    <3> QED BY <2>1, <2>2, <2>3, <2>5, <3>1, <3>2, <3>3, <3>4 DEF WorkerNext
  <2> QED BY <2>4, <2>5
<1>8. CASE selectTaskDel(a)
  <2>1. wpc[a] = "del" /\ idx[a] < Len(VACs[a]) /\ idx[a] \in 0 .. Len(VACs[a]) - 1
    BY <1>1, <1>2, <1>8 DEF selectTaskDel, HandsInv
  <2>2. /\ VACs'[a] = VACs[a] /\ rr'[a] = rr[a] /\ idx'[a] = idx[a] /\ wpc'[a] = "orphan"
        /\ phys' = [phys EXCEPT ![Candidate(a)] = None]
    BY <1>1, <1>8 DEF selectTaskDel, UnlinkVaccel, Goto, TypeOK, workers
  <2>3. \A j : TurnNext(a, j) = Turn(a, j)
    BY <2>2 DEF TurnNext, Turn
  <2>4. /\ NoDuplicates(VACs[a])
        /\ \A j \in idx[a] .. Len(VACs[a]) - 1 : phys[VACs[a][Turn(a, j) + 1]] = a
    BY <1>3, <2>1 DEF Searching
  <2>5. ASSUME NEW j \in idx[a] .. Len(VACs[a]) - 1, j # idx[a]
        PROVE  phys'[VACs[a][Turn(a, j) + 1]] = a
    <3>1. j \in 0 .. Len(VACs[a]) - 1
      BY <1>2
    <3>2. Turn(a, j) # Turn(a, idx[a])
      BY <1>2, <2>1, <2>5, <3>1
    <3>3. /\ Turn(a, j) + 1 \in DOMAIN VACs[a] /\ Turn(a, idx[a]) + 1 \in DOMAIN VACs[a]
          /\ VACs[a][Turn(a, j) + 1] \in Vaccels
      BY <1>2, <2>1, <3>1
    <3>4. Turn(a, j) \in Int /\ Turn(a, idx[a]) \in Int
      BY <1>1, <2>1, <3>1, Turns
    <3>5. Turn(a, j) + 1 # Turn(a, idx[a]) + 1
      BY <3>2, <3>4
    <3>6. VACs[a][Turn(a, j) + 1] # Candidate(a)
      BY <1>2, <2>4, <3>3, <3>5 DEF NoDuplicates, Candidate, Position
    <3> QED BY <1>1, <2>2, <2>4, <3>3, <3>6 DEF TypeOK
  <2> QED BY <2>2, <2>3, <2>4, <2>5, <2>1 DEF WorkerNext
<1>9. CASE selectTaskOrphan(a)
  <2>1. wpc[a] = "orphan" /\ idx[a] < Len(VACs[a])
    BY <1>1, <1>9 DEF selectTaskOrphan, HandsInv
  <2>2. /\ VACs'[a] = VACs[a] /\ rr'[a] = rr[a] /\ idx'[a] = idx[a] + 1 /\ wpc'[a] = "select"
        /\ phys' = phys
    BY <1>1, <1>9 DEF selectTaskOrphan, Goto, TypeOK
  <2>3. \A j : TurnNext(a, j) = Turn(a, j)
    BY <2>2 DEF TurnNext, Turn
  <2>4. \A j \in idx[a] + 1 .. Len(VACs[a]) - 1 : j \in idx[a] .. Len(VACs[a]) - 1 /\ j # idx[a]
    BY <1>2
  <2>5. /\ NoDuplicates(VACs[a])
        /\ \A j \in idx[a] + 1 .. Len(VACs[a]) - 1 : phys[VACs[a][Turn(a, j) + 1]] = a
    BY <1>3, <2>1, <2>4 DEF Searching
  <2> QED BY <2>2, <2>3, <2>5 DEF WorkerNext
<1> QED BY <1>5, <1>6, <1>7, <1>8, <1>9 DEF Acts

(* Every step keeps what the workers have and saw.                         *)
LEMMA WorkersStep ==
  ASSUME IInv, [Next]_vars
  PROVE  \A a \in Accels : WorkerNext(a)
<1>1. ASSUME NEW a \in Accels, Acts(a) PROVE \A b \in Accels : WorkerNext(b)
  BY <1>1, ActNext, KeptByOther, KeptNext
<1>2. ASSUME \/ Quiet
             \/ \E k \in Tasks : AddTaskLock(k) \/ AddTaskPush(k) \/ AddTaskSignal(k)
             \/ \E a \in Accels : arax_accel_wait_for_task(a)
      PROVE  \A b \in Accels : WorkerNext(b)
  BY <1>2, KeptByAll, KeptNext
<1> QED BY <1>1, <1>2, QuietSteps
    DEF Next, Application, Worker, WorkerLoop, Acts, Stopped

-----------------------------------------------------------------------------
(* Types *)

(* The one that assignVac was called with is in no list.                   *)
LEMMA AssignedVaccel ==
  ASSUME IInv, bpc \in {"assign", "link"}
  PROVE  bvac \in Vaccels /\ bvac \in live /\ ~In(bvac, orphans)
BY DEF IInv, HandsInv, TypeOK, ListsConsistent, OnePlace

LEMMA TypeStep ==
  ASSUME IInv, [Next]_vars
  PROVE  Typed'
<1>1. Typed /\ TypeOK /\ HandsInv
  BY DEF IInv, HandsInv, Typed
<1>2. ASSUME NEW a \in Accels, assignVac(a) PROVE Typed'
  <2>1. orphans' = orphans
    BY <1>2, AssignedVaccel DEF assignVac, RemoveOrphan
  <2> QED BY <1>1, <1>2, <2>1
    DEF assignVac, Typed, TypeOK, BalancerPC, issuers, workers, migration
<1>3. CASE assignVacLink
  <2>1. bacc \in Accels /\ bvac \in Vaccels /\ LinkVaccel(bacc, bvac)
    BY <1>1, <1>3, AssignedVaccel DEF assignVacLink, HandsInv
  <2>2. /\ assigned' \in [Accels -> Seq(Vaccels)]
        /\ phys' \in [Vaccels -> Accels \cup {None}]
        /\ tasks' \in [Accels -> 0 .. SizeMod - 1]
        /\ wpc' \in [Accels -> WorkerPC]
        /\ \A b \in Accels : wpc'[b] = "run" => wpc[b] = "run"
    BY <1>1, <2>1, LinkTypes DEF Typed
  <2> QED BY <1>1, <1>3, <2>2
    DEF Typed, assignVacLink, TypeOK, BalancerPC, issuers, workers, migration
<1>4. ASSUME NEW a \in Accels, selectTask(a) PROVE Typed'
  <2>1. CASE idx' = [idx EXCEPT ![a] = @ + 1] /\ UNCHANGED wpc
    BY <1>1, <1>4, <2>1, SkipTyped DEF selectTask
  <2>2. CASE (Goto(a, "pop") \/ Goto(a, "del")) /\ UNCHANGED idx
    <3>1. /\ wpc' \in [Accels -> WorkerPC]
          /\ \A b \in Accels : wpc'[b] = "run" => wpc[b] = "run"
      BY <1>1, <2>2 DEF Goto, TypeOK, WorkerPC
    <3>2. UNCHANGED <<live, lists, tasks, phys, queue, issuers, done, workers, term, balancer>>
      BY <1>4, <2>2 DEF selectTask, workers
    <3> QED BY <1>1, <3>1, <3>2
      DEF Typed, TypeOK, lists, issuers, workers, migration, balancer
  <2> QED BY <1>4, <2>1, <2>2 DEF selectTask
<1>5. ASSUME NEW a \in Accels, selectTaskPop(a) PROVE Typed'
  <2>1. idx[a] < Len(VACs[a])
    BY <1>1, <1>5 DEF selectTaskPop, HandsInv
  <2> QED BY <1>1, <1>5, <2>1, PopTyped DEF selectTaskPop
<1>6. ASSUME NEW a \in Accels, selectTaskDel(a) PROVE Typed'
  <2>1. Candidate(a) \in Vaccels /\ phys[Candidate(a)] = a
    BY <1>1, <1>6, OwnCandidate DEF selectTaskDel, HandsInv
  <2>2. In(Candidate(a), assigned[a])
    BY <2>1 DEF IInv, ListsConsistent, OnePlace
  <2>3. /\ UnlinkVaccel(a, Candidate(a)) /\ wpc' = [wpc EXCEPT ![a] = "orphan"]
        /\ UNCHANGED <<live, orphans, queue, issuers, done, workers, term, balancer>>
    BY <1>6, <2>1 DEF selectTaskDel, Goto
  <2>4. /\ assigned' \in [Accels -> Seq(Vaccels)]
        /\ phys' \in [Vaccels -> Accels \cup {None}]
        /\ tasks' \in [Accels -> 0 .. SizeMod - 1]
    BY <1>1, <2>1, <2>2, <2>3, UnlinkTypes
  <2>5. /\ wpc' \in [Accels -> WorkerPC]
        /\ \A b \in Accels : wpc'[b] = "run" => wpc[b] = "run"
    BY <1>1, <2>3 DEF TypeOK, WorkerPC
  <2> QED BY <1>1, <2>3, <2>4, <2>5
    DEF Typed, TypeOK, issuers, workers, migration, balancer
<1>7. ASSUME NEW a \in Accels, selectTaskOrphan(a) PROVE Typed'
  <2>1. Candidate(a) \in Vaccels
    BY <1>1, <1>7, OwnCandidate DEF selectTaskOrphan, HandsInv
  <2>2. orphans' \in Seq(Vaccels)
    BY <1>1, <1>7, <2>1, AddHead DEF selectTaskOrphan, TypeOK
  <2>3. idx' \in [Accels -> Nat] /\ wpc' \in [Accels -> WorkerPC]
        /\ \A b \in Accels : wpc'[b] = "run" => wpc[b] = "run"
    BY <1>1, <1>7, SMTT(30) DEF selectTaskOrphan, Goto, TypeOK, WorkerPC
  <2>4. bpc' \in BalancerPC
    BY <1>1, <1>7 DEF selectTaskOrphan, NotifyBalancer, TypeOK, BalancerPC
  <2> QED BY <1>1, <1>7, <2>2, <2>3, <2>4
    DEF selectTaskOrphan, Typed, TypeOK, issuers, migration
<1> QED BY <1>1, <1>2, <1>3, <1>4, <1>5, <1>6, <1>7, ApplicationTyped, LoopTyped, OrphanTyped,
           TerminateTyped, SameTyped
    DEF Next, Worker, Balancer, Stopped

-----------------------------------------------------------------------------
(* The order of tasks *)

LEMMA OrderStep ==
  ASSUME IInv, [Next]_vars
  PROVE  OrderInv'
<1>1. TypeOK /\ Typed /\ HandsInv /\ OrderInv
  BY DEF IInv, HandsInv, Typed
<1>2. ASSUME NEW a \in Accels, selectTaskPop(a) PROVE OrderInv'
  <2>1. Candidate(a) \in Vaccels /\ phys[Candidate(a)] = a /\ cur[a] = None
    BY <1>1, <1>2, OwnCandidate DEF selectTaskPop, HandsInv
  <2>2. /\ queue[Candidate(a)] # <<>>
        /\ queue' = [queue EXCEPT ![Candidate(a)] = Tail(@)]
        /\ cur' = [cur EXCEPT ![a] = Head(queue[Candidate(a)])]
        /\ wpc' = [wpc EXCEPT ![a] = "run"]
        /\ UNCHANGED <<live, log, tpc, vlock, phys, done>>
    BY <1>2 DEF selectTaskPop, Found, Goto, issuers
  <2> QED BY <1>1, <2>1, <2>2, OrderPop
<1>3. ASSUME NEW a \in Accels, selectTask(a) \/ selectTaskDel(a) \/ selectTaskOrphan(a)
      PROVE  OrderInv'
  <2>1. wpc[a] \in {"select", "del", "orphan"} /\ idx[a] < Len(VACs[a])
    BY <1>1, <1>3 DEF selectTask, selectTaskDel, selectTaskOrphan, HandsInv
  <2>2. cur[a] = None /\ Candidate(a) \in Vaccels
    BY <2>1, OwnCandidate
  <2>3. UNCHANGED <<queue, vlock, tpc, log, done, cur, live>>
    BY <1>3 DEF selectTask, selectTaskDel, selectTaskOrphan, issuers, workers
  <2>4. \A b \in Accels : b # a => wpc'[b] = wpc[b]
    BY <1>1, <1>3 DEF selectTask, selectTaskDel, selectTaskOrphan, Goto, TypeOK
  <2>5. \A b \in Accels : cur[b] # None => wpc'[b] = "run"
    BY <1>1, <2>2, <2>4 DEF OrderInv, TakenInv
  <2>6. \A v \in Vaccels : phys'[v] = phys[v] \/ phys[v] = None \/ cur[phys[v]] = None
    <3>1. CASE selectTask(a) \/ selectTaskOrphan(a)
      BY <3>1 DEF selectTask, selectTaskOrphan
    <3>2. CASE selectTaskDel(a)
      <4>1. phys[Candidate(a)] = a
        BY <2>1, <3>2, OwnCandidate DEF selectTaskDel
      <4>2. phys' = [phys EXCEPT ![Candidate(a)] = None]
        BY <3>2 DEF selectTaskDel, UnlinkVaccel
      <4> QED BY <1>1, <2>2, <4>1, <4>2 DEF TypeOK
    <3> QED BY <1>3, <3>1, <3>2
  <2> QED BY <1>1, <2>3, <2>5, <2>6, OrderFrame
<1>4. CASE Quiet
  BY <1>1, <1>4, OrderShared
<1> QED BY <1>1, <1>2, <1>3, <1>4, QuietSteps, OrderShared
    DEF Next, Application, Worker, WorkerLoop, Stopped

-----------------------------------------------------------------------------
(* Hands and lists *)

\* What is in somebody's hands, now and in the next state.
Held(v) == v = bvac \/ \E b \in Accels : wpc[b] = "orphan" /\ v = Candidate(b)
HeldNext(v) == v = bvac' \/ \E b \in Accels : wpc'[b] = "orphan" /\ v = CandidateNext(b)

\* Nobody holds what another holds, in the next state.
ApartNext ==
  \A a, b \in Accels :
    wpc'[a] = "orphan" =>
      /\ CandidateNext(a) # bvac'
      /\ wpc'[b] = "orphan" /\ CandidateNext(a) = CandidateNext(b) => a = b

LEMMA ListsNow ==
  ASSUME IInv
  PROVE  OnePlace({v \in Vaccels : Held(v)})
BY DEF IInv, ListsConsistent, OnePlace, Held

LEMMA ListsNext ==
  ASSUME NEW G, OnePlaceNext(G), \A v \in Vaccels : v \in G <=> HeldNext(v)
  PROVE  ListsConsistent'
<1>1. OnePlaceNext({v \in Vaccels : HeldNext(v)})
  BY DEF OnePlaceNext
<1>2. \A v \in Vaccels : HeldNext(v) <=>
        (v = bvac \/ \E b \in Accels : wpc[b] = "orphan" /\ v = Candidate(b))'
  BY DEF HeldNext, CandidateNext, TurnNext, Candidate, Position, Turn
<1> QED BY <1>1, <1>2 DEF OnePlaceNext, ListsConsistent, OnePlace, In, NoDuplicates

(* A step that changes what the balancer holds and what no worker holds.   *)
LEMMA WorkersHold ==
  ASSUME IInv, \A b \in Accels : /\ wpc'[b] = "orphan" <=> wpc[b] = "orphan"
                                 /\ wpc[b] = "orphan" => CandidateNext(b) = Candidate(b)
  PROVE  /\ \A v : HeldNext(v) <=>
              (v = bvac' \/ \E b \in Accels : wpc[b] = "orphan" /\ v = Candidate(b))
         /\ bvac' = bvac => (\A v : HeldNext(v) <=> Held(v)) /\ ApartNext
         /\ (\A b \in Accels : wpc[b] = "orphan" => Candidate(b) # bvac') => ApartNext
<1>1. \A a, b \in Accels :
        wpc[a] = "orphan" =>
          Candidate(a) # bvac /\ (wpc[b] = "orphan" /\ Candidate(a) = Candidate(b) => a = b)
  BY DEF IInv, HandsInv
<1>2. \A v : HeldNext(v) <=>
         (v = bvac' \/ \E b \in Accels : wpc[b] = "orphan" /\ v = Candidate(b))
  BY DEF HeldNext
<1>3. (\A b \in Accels : wpc[b] = "orphan" => Candidate(b) # bvac') => ApartNext
  BY <1>1 DEF ApartNext
<1> QED BY <1>1, <1>2, <1>3 DEF Held

(* No step puts a node into two places, or two hands on it.                *)
LEMMA ListsStep ==
  ASSUME IInv, [Next]_vars
  PROVE  ListsConsistent' /\ ApartNext
<1> DEFINE K == {v \in Vaccels : Held(v)}
<1>1. TypeOK /\ HandsInv /\ OnePlace(K)
  BY ListsNow DEF IInv
<1> HIDE DEF K
<1>2. \A v \in Vaccels : v \in K <=> Held(v)
  BY DEF K
<1>3. ASSUME OnePlaceNext(K), bvac' = bvac,
             \A b \in Accels : /\ wpc'[b] = "orphan" <=> wpc[b] = "orphan"
                               /\ wpc[b] = "orphan" => CandidateNext(b) = Candidate(b)
      PROVE  ListsConsistent' /\ ApartNext
  <2>1. (\A v : HeldNext(v) <=> Held(v)) /\ ApartNext
    BY <1>3, WorkersHold
  <2>2. \A v \in Vaccels : v \in K <=> HeldNext(v)
    BY <1>2, <2>1
  <2> QED BY <1>3, <2>1, <2>2, ListsNext
<1>4. ASSUME \/ Quiet
             \/ \E k \in Tasks : AddTaskLock(k) \/ AddTaskPush(k) \/ AddTaskSignal(k)
             \/ \E a \in Accels : arax_accel_wait_for_task(a)
      PROVE  \A b \in Accels : /\ wpc'[b] = "orphan" <=> wpc[b] = "orphan"
                               /\ CandidateNext(b) = Candidate(b)
  BY <1>4, KeptByAll, KeptNext
<1>5. ASSUME NEW a \in Accels, Acts(a)
      PROVE  \A b \in Accels : b # a => /\ wpc'[b] = "orphan" <=> wpc[b] = "orphan"
                                        /\ CandidateNext(b) = Candidate(b)
  BY <1>5, KeptByOther, KeptNext
<1>6. CASE \/ Application \/ Terminate \/ SpuriousWakeBalancer \/ UNCHANGED vars
           \/ \E a \in Accels : arax_accel_wait_for_task(a) \/ CheckStop(a) \/ SpuriousWake(a)
  <2>1. OnePlaceNext(K) /\ bvac' = bvac
    BY <1>1, <1>6, SharedPlace DEF WorkerLoop
  <2> QED BY <1>3, <1>4, <1>6, <2>1, QuietSteps DEF Application
<1>7. ASSUME NEW a \in Accels, updateVirtAccels(a) \/ NotFound(a) \/ Complete(a)
      PROVE  ListsConsistent' /\ ApartNext
  <2>1. OnePlaceNext(K) /\ bvac' = bvac
    BY <1>1, <1>7, SharedPlace DEF WorkerLoop
  <2>2. wpc[a] # "orphan" /\ wpc'[a] # "orphan" /\ Acts(a)
    BY <1>1, <1>7 DEF updateVirtAccels, NotFound, Complete, Goto, TypeOK, Acts
  <2> QED BY <1>3, <1>5, <2>1, <2>2
<1>8. ASSUME NEW a \in Accels, selectTask(a) \/ selectTaskPop(a)
      PROVE  ListsConsistent' /\ ApartNext
  <2>1. UNCHANGED <<live, orphans, assigned, phys, bvac>>
    BY <1>8 DEF selectTask, selectTaskPop, lists, balancer
  <2>2. wpc[a] # "orphan" /\ wpc'[a] # "orphan" /\ Acts(a)
    BY <1>1, <1>8 DEF selectTask, selectTaskPop, Found, Goto, TypeOK, Acts
  <2>3. OnePlaceNext(K)
    BY <1>1, <2>1, PlaceSame
  <2> QED BY <1>3, <1>5, <2>1, <2>2, <2>3
<1>9. ASSUME NEW a \in Accels, selectTaskDel(a) PROVE ListsConsistent' /\ ApartNext
  <2>1. Candidate(a) \in Vaccels /\ phys[Candidate(a)] = a /\ wpc[a] = "del"
    BY <1>1, <1>9, OwnCandidate DEF selectTaskDel, HandsInv
  <2>2. /\ UnlinkVaccel(a, Candidate(a)) /\ wpc'[a] = "orphan"
        /\ UNCHANGED <<live, orphans, VACs, idx, rr, bvac>>
    BY <1>1, <1>9, <2>1 DEF selectTaskDel, Goto, TypeOK, workers, balancer
  <2>3. CandidateNext(a) = Candidate(a)
    BY <2>2 DEF CandidateNext, TurnNext, Candidate, Position, Turn
  <2>4. \A b \in Accels : b # a => /\ wpc'[b] = "orphan" <=> wpc[b] = "orphan"
                                   /\ CandidateNext(b) = Candidate(b)
    BY <1>5, <1>9 DEF Acts
  <2>5. \A v : HeldNext(v) <=> (Held(v) \/ v = Candidate(a))
    BY <2>1, <2>2, <2>3, <2>4 DEF Held, HeldNext
  <2>6. PICK G : G = K \cup {Candidate(a)}
    OBVIOUS
  <2>7. OnePlaceNext(G) /\ Candidate(a) \notin K
    <3>1. \A w \in Vaccels : w \in G <=> (w \in K \/ w = Candidate(a))
      BY <2>6
    <3> QED BY <1>1, <2>1, <2>2, <3>1, PlaceUnlink
  <2>8. ~Held(Candidate(a))
    BY <1>2, <2>1, <2>7
  <2>9. ListsConsistent'
    BY <1>2, <2>5, <2>6, <2>7, ListsNext
  <2>10. ApartNext
    <3>1. \A b \in Accels : b # a /\ wpc'[b] = "orphan" =>
            Candidate(b) # bvac /\ Candidate(b) # Candidate(a) /\ wpc[b] = "orphan"
      BY <2>4, <2>8, <1>1 DEF Held, HandsInv
    <3>2. Candidate(a) # bvac
      BY <2>8 DEF Held
    <3>3. \A b, c \in Accels : wpc[b] = "orphan" /\ wpc[c] = "orphan" /\ Candidate(b) = Candidate(c)
             => b = c
      BY <1>1 DEF HandsInv
    <3> QED BY <2>2, <2>3, <2>4, <3>1, <3>2, <3>3 DEF ApartNext
  <2> QED BY <2>9, <2>10
<1>10. ASSUME NEW a \in Accels, selectTaskOrphan(a) PROVE ListsConsistent' /\ ApartNext
  <2>1. Candidate(a) \in Vaccels /\ Candidate(a) \in live /\ wpc[a] = "orphan"
    BY <1>1, <1>10, OwnCandidate DEF selectTaskOrphan, HandsInv
  <2>2. /\ orphans' = <<Candidate(a)>> \o orphans /\ wpc'[a] = "select"
        /\ UNCHANGED <<live, assigned, phys, bvac>>
    BY <1>1, <1>10 DEF selectTaskOrphan, Goto, TypeOK
  <2>3. \A b \in Accels : b # a => /\ wpc'[b] = "orphan" <=> wpc[b] = "orphan"
                                   /\ CandidateNext(b) = Candidate(b)
    BY <1>5, <1>10 DEF Acts
  <2>4. \A b, c \in Accels :
          wpc[b] = "orphan" =>
            Candidate(b) # bvac /\ (wpc[c] = "orphan" /\ Candidate(b) = Candidate(c) => b = c)
    BY <1>1 DEF HandsInv
  <2>5. \A v : HeldNext(v) <=> (Held(v) /\ v # Candidate(a))
    BY <2>1, <2>2, <2>3, <2>4 DEF Held, HeldNext
  <2>6. PICK G : G = K \ {Candidate(a)}
    OBVIOUS
  <2>7. OnePlaceNext(G)
    <3>1. /\ \A w \in Vaccels : w \in G <=> (w \in K /\ w # Candidate(a))
          /\ live' = live \cup {Candidate(a)}
      BY <2>1, <2>2, <2>6
    <3>2. Candidate(a) \in K
      BY <1>2, <2>1 DEF Held
    <3> QED BY <1>1, <2>1, <2>2, <3>1, <3>2, PlaceOrphan
  <2>8. ListsConsistent'
    BY <1>2, <2>5, <2>6, <2>7, ListsNext
  <2>9. ApartNext
    BY <2>2, <2>3, <2>4 DEF ApartNext
  <2> QED BY <2>8, <2>9
<1>11. CASE GetOrphan \/ GetOrphanWoken
  <2>1. bvac = None /\ UNCHANGED <<live, assigned, phys>>
    BY <1>1, <1>11 DEF GetOrphan, GetOrphanWoken, HandsInv
  <2>2. \A b \in Accels : /\ wpc'[b] = "orphan" <=> wpc[b] = "orphan"
                          /\ CandidateNext(b) = Candidate(b)
    BY <1>4, <1>11, QuietSteps DEF Balancer
  <2>3. CASE orphans = <<>>
    <3>1. UNCHANGED <<orphans, bvac>>
      BY <1>11, <2>3 DEF GetOrphan, GetOrphanWoken
    <3>2. OnePlaceNext(K)
      BY <1>1, <2>1, <3>1, PlaceSame
    <3> QED BY <1>3, <2>2, <3>1, <3>2
  <2>4. CASE orphans # <<>>
    <3>1. PopOrphan
      BY <1>11, <2>4 DEF GetOrphan, GetOrphanWoken
    <3>2. PICK G : G = K \cup {bvac'}
      OBVIOUS
    <3>3. OnePlaceNext(G) /\ bvac' \in Vaccels /\ bvac' \notin K
      <4>1. \A w \in Vaccels : w \in G <=> (w \in K \/ w = bvac')
        BY <3>2
      <4> QED BY <1>1, <2>1, <2>4, <3>1, <4>1, PlacePop
    <3>4. \A b \in Accels : wpc[b] = "orphan" => Candidate(b) # bvac'
      BY <1>2, <3>3 DEF Held
    <3>5. /\ ApartNext
          /\ \A v : HeldNext(v) <=>
               (v = bvac' \/ \E b \in Accels : wpc[b] = "orphan" /\ v = Candidate(b))
      BY <2>2, <3>4, WorkersHold
    <3>6. \A v \in Vaccels : v \in G <=> HeldNext(v)
      BY <1>2, <2>1, <3>2, <3>5 DEF Held
    <3> QED BY <3>3, <3>5, <3>6, ListsNext
  <2> QED BY <2>3, <2>4
<1>12. ASSUME NEW a \in Accels, assignVac(a) PROVE ListsConsistent' /\ ApartNext
  <2>1. UNCHANGED <<live, orphans, assigned, phys, bvac>>
    BY <1>12, AssignedVaccel DEF assignVac, RemoveOrphan
  <2>2. \A b \in Accels : /\ wpc'[b] = "orphan" <=> wpc[b] = "orphan"
                          /\ CandidateNext(b) = Candidate(b)
    BY <1>4, <1>12, QuietSteps DEF Balancer
  <2>3. OnePlaceNext(K)
    BY <1>1, <2>1, PlaceSame
  <2> QED BY <1>3, <2>1, <2>2, <2>3
<1>13. CASE assignVacLink
  <2>1. /\ bacc \in Accels /\ bvac \in Vaccels /\ bvac \in live /\ LinkVaccel(bacc, bvac)
        /\ UNCHANGED <<live, orphans>> /\ bvac' = None
    BY <1>1, <1>13, AssignedVaccel DEF assignVacLink, HandsInv
  <2>2. \A b \in Accels : /\ wpc'[b] = "orphan" <=> wpc[b] = "orphan"
                          /\ CandidateNext(b) = Candidate(b)
    BY <1>4, <1>13, QuietSteps DEF Balancer
  <2>3. \A b \in Accels : wpc[b] = "orphan" => Candidate(b) # bvac /\ Candidate(b) \in Vaccels
    BY <1>1, OwnCandidate DEF HandsInv
  <2>4. \A b \in Accels : wpc[b] = "orphan" => Candidate(b) # bvac'
    BY <2>1, <2>3
  <2>5. /\ ApartNext
        /\ \A v : HeldNext(v) <=>
             (v = bvac' \/ \E b \in Accels : wpc[b] = "orphan" /\ v = Candidate(b))
    BY <2>2, <2>4, WorkersHold
  <2>6. PICK G : G = K \ {bvac}
    OBVIOUS
  <2>7. OnePlaceNext(G)
    <3>1. /\ \A w \in Vaccels : w \in G <=> (w \in K /\ w # bvac)
          /\ live' = live \cup {bvac}
      BY <2>1, <2>6
    <3>2. bvac \in K
      BY <1>2, <2>1 DEF Held
    <3> QED BY <1>1, <2>1, <3>1, <3>2, PlaceLink
  <2>8. \A v \in Vaccels : v \in G <=> HeldNext(v)
    BY <1>2, <2>1, <2>3, <2>5, <2>6 DEF Held
  <2> QED BY <2>5, <2>7, <2>8, ListsNext
<1> QED BY <1>6, <1>7, <1>8, <1>9, <1>10, <1>11, <1>12, <1>13
    DEF Next, Worker, WorkerLoop, Balancer, Stopped

(* The hands of the balancer: as under the default scheduler.              *)
LEMMA HandsStep ==
  ASSUME IInv, [Next]_vars
  PROVE  HandsInv'
<1> DEFINE Hands(pc, v, a) ==
             /\ pc \in {"get", "sleep", "woken", "null", "assign", "link"}
             /\ v = None <=> pc \notin {"assign", "link"}
             /\ pc = "link" => a \in Accels
<1>1. Hands(bpc, bvac, bacc)
  BY DEF IInv, HandsInv
<1>2. ASSUME UNCHANGED <<bpc, bvac, bacc>> PROVE Hands(bpc', bvac', bacc')
  BY <1>1, <1>2
<1>3. ASSUME Application \/ Terminate \/ UNCHANGED vars PROVE Hands(bpc', bvac', bacc')
  <2>1. ASSUME NEW v \in Vaccels, AcquireType(v) PROVE Hands(bpc', bvac', bacc')
    BY <1>1, <2>1 DEF AcquireType, NotifyBalancer
  <2>2. ASSUME NEW v \in Vaccels, AcquirePhys(v) PROVE Hands(bpc', bvac', bacc')
    BY <1>2, <2>2 DEF AcquirePhys, balancer
  <2>3. ASSUME NEW k \in Tasks, AddTaskLock(k) \/ AddTaskPush(k) \/ AddTaskSignal(k)
        PROVE  Hands(bpc', bvac', bacc')
    BY <1>2, <2>3 DEF AddTaskLock, AddTaskPush, AddTaskSignal, balancer
  <2>4. CASE Terminate \/ UNCHANGED vars
    BY <1>2, <2>4 DEF Terminate, TerminateFlag, TerminateToken, vars, balancer
  <2> QED BY <1>3, <2>1, <2>2, <2>3, <2>4 DEF Application
<1>4. ASSUME NEW a \in Accels, Worker(a) \/ SpuriousWake(a) PROVE Hands(bpc', bvac', bacc')
  <2>1. CASE selectTaskOrphan(a)
    BY <1>1, <2>1 DEF selectTaskOrphan, NotifyBalancer
  <2>2. CASE selectTask(a) \/ selectTaskPop(a) \/ selectTaskDel(a) \/ WorkerLoop(a) \/ SpuriousWake(a)
    BY <1>2, <2>2 DEF WorkerLoop, SpuriousWake, CheckStop, arax_accel_wait_for_task,
                      updateVirtAccels, NotFound, Complete, selectTask, selectTaskPop,
                      selectTaskDel, balancer
  <2> QED BY <1>4, <2>1, <2>2 DEF Worker
<1>5. ASSUME GetOrphan \/ GetOrphanWoken PROVE Hands(bpc', bvac', bacc')
  <2>1. CASE orphans = <<>>
    BY <1>1, <1>5, <2>1 DEF GetOrphan, GetOrphanWoken
  <2>2. CASE orphans # <<>>
    <3>1. PopOrphan
      BY <1>5, <2>2 DEF GetOrphan, GetOrphanWoken
    <3>2. Head(orphans) \in Vaccels
      BY <2>2, PopHead DEF IInv, TypeOK
    <3> QED BY <3>1, <3>2 DEF PopOrphan
  <2> QED BY <2>1, <2>2
<1>6. ASSUME NEW a \in Accels, assignVac(a) PROVE Hands(bpc', bvac', bacc')
  BY <1>1, <1>6 DEF assignVac
<1>7. ASSUME assignVacLink \/ SpuriousWakeBalancer PROVE Hands(bpc', bvac', bacc')
  BY <1>1, <1>7 DEF assignVacLink, SpuriousWakeBalancer
<1> HIDE DEF Hands
<1>8. Hands(bpc', bvac', bacc')
  BY <1>3, <1>4, <1>5, <1>6, <1>7 DEF Next, Balancer, Stopped
<1>9. \A a \in Accels : wpc'[a] = "run" => cur'[a] \in Tasks
  BY TypeStep DEF Typed
<1>10. \A a \in Accels : wpc'[a] \in {"pop", "del", "orphan"} => idx'[a] < Len(VACs'[a])
  BY WorkersStep DEF WorkerNext
<1>11. ApartNext
  BY ListsStep
<1> QED BY <1>8, <1>9, <1>10, <1>11
    DEF HandsInv, Hands, ApartNext, CandidateNext, TurnNext, Candidate, Position, Turn

LEMMA InitInv == Init => IInv
<1> SUFFICES ASSUME Init PROVE IInv
  OBVIOUS
<1>1. TypeOK /\ OrderInv
  BY InitTyped, InitOrder DEF Typed
<1>2. \A a \in Accels : wpc[a] = "top"
  BY DEF Init
<1>3. HandsInv /\ CopyInv /\ PeekStillHolds
  BY <1>2 DEF HandsInv, CopyInv, PeekStillHolds, Init
<1>4. OnePlace({}) /\ bvac = None
  BY InitPlace DEF Init
<1>5. ListsConsistent
  BY <1>2, <1>4 DEF ListsConsistent, OnePlace
<1> QED BY <1>1, <1>3, <1>5 DEF IInv

-----------------------------------------------------------------------------
(* IInv is an invariant of the Heterogeneous scheduler: in particular each *)
(* virtual accelerator is in one list or in one thread's hands while       *)
(* workers give them up and the balancer assigns them again.               *)
THEOREM HeterogeneousInvariant == Spec => []IInv
<1>1. IInv /\ [Next]_vars => IInv'
  <2> SUFFICES ASSUME IInv, [Next]_vars PROVE IInv'
    OBVIOUS
  <2>1. TypeOK'
    BY TypeStep DEF Typed
  <2>2. HandsInv' /\ ListsConsistent' /\ OrderInv'
    BY HandsStep, ListsStep, OrderStep
  <2>3. CopyInv' /\ PeekStillHolds'
    BY WorkersStep, WorkersNext
  <2> QED BY <2>1, <2>2, <2>3 DEF IInv
<1> QED BY InitInv, <1>1, PTL DEF Spec

(* No virtual accelerator is lost or linked twice on its way from one      *)
(* accelerator over the orphans to the next (arax_accel_del_vaccel,        *)
(* arax_pipe_add_orphan_vaccel, arax_accel_add_vaccel).                    *)
THEOREM HeterogeneousLists == Spec => []ListsConsistent
<1>1. IInv => ListsConsistent
  BY DEF IInv
<1> QED BY HeterogeneousInvariant, <1>1, PTL

(* The tasks of a virtual accelerator run one after the other and in the   *)
(* order they were issued, although it changes hands with its queue.       *)
THEOREM HeterogeneousSequential == Spec => []Sequential
<1>1. IInv => Sequential
  BY OrderSequential DEF IInv
<1> QED BY HeterogeneousInvariant, <1>1, PTL

(* arax_assert(task) in selectTask: the head that a worker peeked at is    *)
(* still the head when it pops it, and still one that it can run; what it  *)
(* gives up is still its own.                                              *)
THEOREM HeterogeneousPeek == Spec => []PeekStillHolds
<1>1. IInv => PeekStillHolds
  BY DEF IInv
<1> QED BY HeterogeneousInvariant, <1>1, PTL

=============================================================================
