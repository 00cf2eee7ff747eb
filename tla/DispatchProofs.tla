--------------------------- MODULE DispatchProofs ---------------------------
(***************************************************************************)
(* What the steps that the schedulers share preserve: the order of tasks,  *)
(* the types, and that the node of a virtual accelerator is in one place.  *)
(* The proofs of the schedulers build on these lemmas.                     *)
(***************************************************************************)
EXTENDS Dispatch, TLAPS

(* A remainder is below its divisor: the count of tokens keeps its width.  *)
LEMMA ModRange ==
  ASSUME NEW x \in Int, NEW n \in Nat \ {0}
  PROVE  x % n \in 0 .. n - 1
OBVIOUS

(* Positions of selectTask are positions of the worker's copy.             *)
LEMMA ModNat ==
  ASSUME NEW x \in Nat, NEW n \in Nat \ {0}
  PROVE  x % n \in Nat /\ x % n < n
OBVIOUS

(* The remainder of what is below the divisor, and of that plus the divisor*)
LEMMA ModSmall ==
  ASSUME NEW n \in Nat \ {0}, NEW x \in 0 .. n - 1
  PROVE  x % n = x /\ (x + n) % n = x
OBVIOUS

(* utils_list_add: the new head is a member, the others stay, and a list   *)
(* without duplicates stays one if the node was not in it.                 *)
LEMMA AddHead ==
  ASSUME NEW S, NEW list \in Seq(S), NEW v \in S
  PROVE  /\ <<v>> \o list \in Seq(S)
         /\ \A w : In(w, <<v>> \o list) <=> (w = v \/ In(w, list))
         /\ NoDuplicates(list) /\ ~In(v, list) => NoDuplicates(<<v>> \o list)
<1> DEFINE new == <<v>> \o list
<1>1. /\ new \in Seq(S)
      /\ Len(new) = Len(list) + 1
      /\ new[1] = v
      /\ \A i \in 1 .. Len(list) : new[i + 1] = list[i]
  OBVIOUS
<1>2. /\ DOMAIN new = 1 .. Len(list) + 1
      /\ DOMAIN list = 1 .. Len(list)
      /\ Len(list) \in Nat
      /\ \A i \in 2 .. Len(list) + 1 : i - 1 \in 1 .. Len(list) /\ new[i] = list[i - 1]
  <2>1. /\ DOMAIN new = 1 .. Len(list) + 1
        /\ DOMAIN list = 1 .. Len(list)
        /\ Len(list) \in Nat
    BY <1>1
  <2>2. ASSUME NEW i \in 2 .. Len(list) + 1
        PROVE  i - 1 \in 1 .. Len(list) /\ new[i] = list[i - 1]
    <3>1. i - 1 \in 1 .. Len(list) /\ (i - 1) + 1 = i
      BY <2>1
    <3>2. new[(i - 1) + 1] = list[i - 1]
      BY <1>1, <3>1
    <3> QED BY <3>1, <3>2
  <2> QED BY <2>1, <2>2
<1> HIDE DEF new
<1>3. \A w : In(w, new) <=> (w = v \/ In(w, list))
  <2> SUFFICES ASSUME NEW w PROVE In(w, new) <=> (w = v \/ In(w, list))
    OBVIOUS
  <2>1. ASSUME NEW i \in DOMAIN new, new[i] = w, i # 1 PROVE In(w, list)
    <3>1. i \in 2 .. Len(list) + 1
      BY <1>2, <2>1
    <3>2. i - 1 \in DOMAIN list /\ list[i - 1] = w
      BY <1>2, <2>1, <3>1
    <3> QED BY <3>2 DEF In
  <2>2. w = v => In(w, new)
    BY <1>1, <1>2 DEF In
  <2>3. In(w, list) => In(w, new)
    <3> SUFFICES ASSUME NEW i \in 1 .. Len(list), list[i] = w PROVE In(w, new)
      BY <1>2 DEF In
    <3>1. i + 1 \in DOMAIN new /\ new[i + 1] = w
      BY <1>1, <1>2
    <3> QED BY <3>1 DEF In
  <2> QED BY <1>1, <2>1, <2>2, <2>3 DEF In
<1>4. ASSUME NoDuplicates(list), ~In(v, list) PROVE NoDuplicates(new)
  <2>1. ASSUME NEW i \in DOMAIN new, i # 1
        PROVE  i - 1 \in DOMAIN list /\ new[i] = list[i - 1] /\ i \in Int
    <3>1. i \in 2 .. Len(list) + 1
      BY <1>2, <2>1
    <3> QED BY <1>2, <3>1
  <2>2. ASSUME NEW i \in DOMAIN new, i # 1 PROVE new[i] # v
    BY <1>4, <2>1, <2>2 DEF In
  <2>3. ASSUME NEW i \in DOMAIN new, NEW j \in DOMAIN new, new[i] = new[j], i # 1, j # 1
        PROVE  i = j
    <3>1. /\ i - 1 \in DOMAIN list /\ j - 1 \in DOMAIN list
          /\ list[i - 1] = list[j - 1] /\ i \in Int /\ j \in Int
      BY <2>1, <2>3
    <3>2. i - 1 = j - 1
      BY <1>4, <3>1 DEF NoDuplicates
    <3> QED BY <3>1, <3>2
  <2> QED BY <1>1, <2>2, <2>3 DEF NoDuplicates
<1> QED BY <1>1, <1>3, <1>4 DEF new

(* utils_list_pop_head: what is left are the other members, and the head   *)
(* is not among them.                                                      *)
LEMMA PopHead ==
  ASSUME NEW S, NEW list \in Seq(S), list # <<>>
  PROVE  /\ Head(list) \in S
         /\ Tail(list) \in Seq(S)
         /\ \A w : In(w, list) <=> (w = Head(list) \/ In(w, Tail(list)))
         /\ NoDuplicates(list) => NoDuplicates(Tail(list)) /\ ~In(Head(list), Tail(list))
<1>1. /\ Tail(list) \in Seq(S)
      /\ Head(list) = list[1] /\ Head(list) \in S
      /\ Len(list) \in Nat /\ Len(list) >= 1
      /\ DOMAIN list = 1 .. Len(list)
      /\ DOMAIN Tail(list) = 1 .. Len(list) - 1
      /\ \A i \in 1 .. Len(list) - 1 : Tail(list)[i] = list[i + 1]
  OBVIOUS
<1>2. ASSUME NEW w PROVE In(w, list) <=> (w = Head(list) \/ In(w, Tail(list)))
  <2>1. ASSUME NEW i \in DOMAIN list, list[i] = w, i # 1 PROVE In(w, Tail(list))
    <3>1. i - 1 \in 1 .. Len(list) - 1 /\ (i - 1) + 1 = i
      BY <1>1, <2>1
    <3>2. Tail(list)[i - 1] = w
      BY <1>1, <2>1, <3>1
    <3> QED BY <1>1, <3>1, <3>2 DEF In
  <2>2. ASSUME NEW i \in DOMAIN Tail(list), Tail(list)[i] = w PROVE In(w, list)
    BY <1>1, <2>2 DEF In
  <2>3. 1 \in DOMAIN list
    BY <1>1
  <2> QED BY <1>1, <2>1, <2>2, <2>3 DEF In
<1>3. ASSUME NoDuplicates(list) PROVE NoDuplicates(Tail(list)) /\ ~In(Head(list), Tail(list))
  <2>1. ASSUME NEW i \in 1 .. Len(list) - 1
        PROVE  i + 1 \in DOMAIN list /\ i + 1 # 1 /\ Tail(list)[i] = list[i + 1]
    BY <1>1
  <2>2. NoDuplicates(Tail(list))
    BY <1>1, <1>3, <2>1 DEF NoDuplicates
  <2>3. ~In(Head(list), Tail(list))
    BY <1>1, <1>3, <2>1 DEF NoDuplicates, In
  <2> QED BY <2>2, <2>3
<1> QED BY <1>1, <1>2, <1>3

(* utils_list_del: the node goes, the others stay in their order.          *)
LEMMA RemoveNode ==
  ASSUME NEW S, NEW list \in Seq(S), NEW v \in S, In(v, list)
  PROVE  /\ Remove(v, list) \in Seq(S)
         /\ NoDuplicates(list) =>
              /\ NoDuplicates(Remove(v, list))
              /\ \A w : In(w, Remove(v, list)) <=> (In(w, list) /\ w # v)
<1> DEFINE at == CHOOSE i \in DOMAIN list : list[i] = v
           new == Remove(v, list)
           n == Len(list)
<1>1. /\ at \in 1 .. n /\ list[at] = v /\ n \in Nat
      /\ \A i \in 1 .. n : list[i] \in S
  <2>1. at \in DOMAIN list /\ list[at] = v
    BY DEF In
  <2> QED BY <2>1
<1>2. new = [i \in 1 .. n - 1 |-> IF i < at THEN list[i] ELSE list[i + 1]]
  BY DEF Remove
<1> HIDE DEF at, new
<1>3. \A i \in 1 .. n - 1 :
         i \in 1 .. n /\ i + 1 \in 1 .. n /\ new[i] = IF i < at THEN list[i] ELSE list[i + 1]
  BY <1>1, <1>2
<1>4. new \in Seq(S) /\ DOMAIN new = 1 .. n - 1
  <2>1. \A i \in 1 .. n - 1 : (IF i < at THEN list[i] ELSE list[i + 1]) \in S
    BY <1>1, <1>3
  <2>2. n - 1 \in Nat
    BY <1>1
  <2>3. new \in [1 .. n - 1 -> S]
    BY <1>2, <2>1
  <2> QED BY <2>2, <2>3
<1>5. ASSUME NoDuplicates(list), NEW i \in 1 .. n - 1, NEW j \in 1 .. n - 1, new[i] = new[j]
      PROVE  i = j
  <2>1. \A x, y \in 1 .. n : list[x] = list[y] => x = y
    BY <1>5 DEF NoDuplicates
  <2>2. CASE i < at /\ j < at
    BY <1>3, <1>5, <2>1, <2>2
  <2>3. CASE i < at /\ ~(j < at)
    BY <1>1, <1>3, <1>5, <2>1, <2>3
  <2>4. CASE ~(i < at) /\ j < at
    BY <1>1, <1>3, <1>5, <2>1, <2>4
  <2>5. CASE ~(i < at) /\ ~(j < at)
    <3>1. i + 1 = j + 1
      BY <1>3, <1>5, <2>1, <2>5
    <3> QED BY <3>1
  <2> QED BY <2>2, <2>3, <2>4, <2>5
<1>6. ASSUME NoDuplicates(list), NEW w PROVE In(w, new) <=> (In(w, list) /\ w # v)
  <2>1. \A x, y \in 1 .. n : list[x] = list[y] => x = y
    BY <1>6 DEF NoDuplicates
  <2>2. ASSUME In(w, new) PROVE In(w, list) /\ w # v
    <3>1. PICK i \in 1 .. n - 1 : new[i] = w
      BY <1>4, <2>2 DEF In
    <3>2. CASE i < at
      BY <1>1, <1>3, <2>1, <3>1, <3>2 DEF In
    <3>3. CASE ~(i < at)
      <4>1. list[i + 1] = w /\ i + 1 # at /\ i + 1 \in 1 .. n
        BY <1>1, <1>3, <3>1, <3>3
      <4> QED BY <1>1, <2>1, <4>1 DEF In
    <3> QED BY <3>2, <3>3
  <2>3. ASSUME In(w, list), w # v PROVE In(w, new)
    <3>1. PICK i \in 1 .. n : list[i] = w
      BY <2>3 DEF In
    <3>2. CASE i < at
      <4>1. i \in 1 .. n - 1 /\ new[i] = w
        BY <1>1, <1>3, <3>1, <3>2
      <4> QED BY <1>4, <4>1 DEF In
    <3>3. CASE i > at
      <4>1. i - 1 \in 1 .. n - 1 /\ ~(i - 1 < at) /\ (i - 1) + 1 = i
        BY <1>1, <3>3
      <4>2. new[i - 1] = w
        BY <1>3, <3>1, <4>1
      <4> QED BY <1>4, <4>1, <4>2 DEF In
    <3>4. i # at
      BY <1>1, <2>3, <3>1
    <3> QED BY <1>1, <3>2, <3>3, <3>4
  <2> QED BY <2>2, <2>3
<1> QED BY <1>4, <1>5, <1>6 DEF NoDuplicates, new

-----------------------------------------------------------------------------
(* The order of tasks *)

(* utils_queue_push, and the log: what is there stays where it is.         *)
LEMMA AppendFacts ==
  ASSUME NEW S, NEW list \in Seq(S), NEW x \in S
  PROVE  /\ Append(list, x) \in Seq(S)
         /\ Len(list) \in Nat /\ DOMAIN list = 1 .. Len(list)
         /\ Len(Append(list, x)) = Len(list) + 1
         /\ DOMAIN Append(list, x) = 1 .. Len(list) + 1
         /\ \A i \in 1 .. Len(list) : Append(list, x)[i] = list[i]
         /\ Append(list, x)[Len(list) + 1] = x
OBVIOUS

(* The queue is the end of the log: what is before it was popped.          *)
LEMMA RestRange ==
  ASSUME NEW S, NEW l \in Seq(S), NEW q \in Seq(S), IsRest(q, l)
  PROVE  /\ Len(l) - Len(q) \in Nat
         /\ \A i \in 1 .. Len(l) - Len(q) : i \in DOMAIN l /\ l[i] \in S
<1>1. Len(l) \in Nat /\ Len(q) \in Nat /\ Len(q) <= Len(l) /\ DOMAIN l = 1 .. Len(l)
  BY DEF IsRest
<1> QED BY <1>1

(* A push keeps it, and pops nothing.                                      *)
LEMMA RestPush ==
  ASSUME NEW S, NEW l \in Seq(S), NEW q \in Seq(S), NEW x \in S, IsRest(q, l)
  PROVE  /\ IsRest(Append(q, x), Append(l, x))
         /\ Len(Append(l, x)) - Len(Append(q, x)) = Len(l) - Len(q)
<1> DEFINE ll == Append(l, x)
           qq == Append(q, x)
<1>1. /\ Len(l) \in Nat /\ Len(ll) = Len(l) + 1
      /\ \A i \in 1 .. Len(l) : ll[i] = l[i]
      /\ ll[Len(l) + 1] = x
  OBVIOUS
<1>2. /\ Len(q) \in Nat /\ Len(qq) = Len(q) + 1
      /\ DOMAIN q = 1 .. Len(q) /\ DOMAIN qq = 1 .. Len(q) + 1
      /\ \A i \in 1 .. Len(q) : qq[i] = q[i]
      /\ qq[Len(q) + 1] = x
  OBVIOUS
<1> HIDE DEF ll, qq
<1>3. Len(ll) - Len(qq) = Len(l) - Len(q) /\ Len(q) <= Len(l)
  BY <1>1, <1>2 DEF IsRest
<1>4. ASSUME NEW i \in 1 .. Len(q) + 1 PROVE qq[i] = ll[Len(ll) - Len(qq) + i]
  <2>1. CASE i = Len(q) + 1
    BY <1>1, <1>2, <1>3, <2>1
  <2>2. CASE i # Len(q) + 1
    <3>1. i \in 1 .. Len(q)
      BY <1>2, <2>2
    <3>2. Len(l) - Len(q) + i \in 1 .. Len(l)
      BY <1>1, <1>2, <1>3, <3>1
    <3>3. q[i] = l[Len(l) - Len(q) + i]
      BY <1>2, <3>1 DEF IsRest
    <3> QED BY <1>1, <1>2, <1>3, <3>1, <3>2, <3>3
  <2> QED BY <2>1, <2>2
<1>5. IsRest(qq, ll)
  BY <1>1, <1>2, <1>3, <1>4 DEF IsRest
<1> QED BY <1>3, <1>5 DEF ll, qq

(* A pop keeps it, and takes the oldest task that was not popped.          *)
LEMMA RestPop ==
  ASSUME NEW S, NEW l \in Seq(S), NEW q \in Seq(S), IsRest(q, l), q # <<>>
  PROVE  /\ IsRest(Tail(q), l)
         /\ Len(l) - Len(Tail(q)) = Len(l) - Len(q) + 1
         /\ Len(l) - Len(q) + 1 \in DOMAIN l
         /\ l[Len(l) - Len(q) + 1] = Head(q)
<1> DEFINE t == Tail(q)
<1>1. /\ Len(q) \in Nat /\ Len(q) >= 1 /\ DOMAIN q = 1 .. Len(q)
      /\ Head(q) = q[1]
      /\ Len(t) = Len(q) - 1 /\ DOMAIN t = 1 .. Len(q) - 1
      /\ \A i \in 1 .. Len(q) - 1 : t[i] = q[i + 1]
  OBVIOUS
<1>2. Len(l) \in Nat /\ DOMAIN l = 1 .. Len(l) /\ Len(q) <= Len(l)
  BY DEF IsRest
<1> HIDE DEF t
<1>3. Len(l) - Len(t) = Len(l) - Len(q) + 1
  BY <1>1, <1>2
<1>4. Len(l) - Len(q) + 1 \in DOMAIN l /\ l[Len(l) - Len(q) + 1] = Head(q)
  <2>1. 1 \in DOMAIN q
    BY <1>1
  <2>2. q[1] = l[Len(l) - Len(q) + 1]
    BY <2>1 DEF IsRest
  <2> QED BY <1>1, <1>2, <2>2
<1>5. ASSUME NEW i \in 1 .. Len(q) - 1 PROVE t[i] = l[Len(l) - Len(t) + i]
  <2>1. i + 1 \in DOMAIN q
    BY <1>1
  <2>2. q[i + 1] = l[Len(l) - Len(q) + (i + 1)]
    BY <2>1 DEF IsRest
  <2>3. Len(l) - Len(q) + (i + 1) = Len(l) - Len(t) + i
    BY <1>1, <1>2
  <2> QED BY <1>1, <2>2, <2>3
<1>6. IsRest(t, l)
  <2>1. Len(t) <= Len(l)
    BY <1>1, <1>2
  <2>2. \A i \in DOMAIN t : t[i] = l[Len(l) - Len(t) + i]
    BY <1>1, <1>5
  <2> QED BY <2>1, <2>2 DEF IsRest
<1> QED BY <1>3, <1>4, <1>6 DEF t

(* What was popped from v are tasks of its log.                            *)
LEMMA PoppedRange ==
  ASSUME TypeOK, QueueInv, NEW v \in Vaccels
  PROVE  /\ log[v] \in Seq(Tasks) /\ queue[v] \in Seq(Tasks) /\ IsRest(queue[v], log[v])
         /\ Popped(v) \in Nat
         /\ \A i \in 1 .. Popped(v) : i \in DOMAIN log[v] /\ log[v][i] \in Tasks
<1>1. log[v] \in Seq(Tasks) /\ queue[v] \in Seq(Tasks) /\ IsRest(queue[v], log[v])
  BY DEF TypeOK, QueueInv
<1>2. /\ Len(log[v]) - Len(queue[v]) \in Nat
      /\ \A i \in 1 .. Len(log[v]) - Len(queue[v]) : i \in DOMAIN log[v] /\ log[v][i] \in Tasks
  BY <1>1, RestRange
<1> QED BY <1>1, <1>2, Zenon DEF Popped

(* A step that moves no task may make virtual accelerators known, assign   *)
(* those that nobody has, and take away those whose owner runs nothing.    *)
LEMMA OrderFrame ==
  ASSUME TypeOK, OrderInv,
         UNCHANGED <<queue, vlock, tpc, log, done, cur>>,
         live \subseteq live',
         \A v \in Vaccels : phys'[v] = phys[v] \/ phys[v] = None \/ cur[phys[v]] = None,
         \A a \in Accels : cur[a] # None => wpc'[a] = "run"
  PROVE  OrderInv'
<1>1. IssueInv'
  BY DispatchAssumption DEF OrderInv, IssueInv
<1>2. LogInv' /\ QueueInv'
  BY DEF OrderInv, LogInv, QueueInv, IsRest, NoDuplicates
<1>3. TakenInv'
  BY DEF OrderInv, TakenInv, Popped, Running
<1>4. PoppedInv'
  <2> SUFFICES ASSUME NEW v \in Vaccels, NEW i \in 1 .. Popped(v), log[v][i] \notin done
               PROVE  i = Popped(v) /\ phys'[v] # None /\ cur[phys'[v]] = log[v][i]
    BY DEF PoppedInv, Popped
  <2>1. i = Popped(v) /\ phys[v] # None /\ cur[phys[v]] = log[v][i]
    BY DEF OrderInv, PoppedInv
  <2>2. log[v][i] \in Tasks
    BY PoppedRange DEF OrderInv
  <2>3. log[v][i] # None
    BY <2>2, DispatchAssumption
  <2>4. phys'[v] = phys[v]
    BY <2>1, <2>3
  <2> QED BY <2>1, <2>4
<1> QED BY <1>1, <1>2, <1>3, <1>4 DEF OrderInv

(* arax_vaccel_add_task takes the lock.                                    *)
LEMMA OrderLock ==
  ASSUME TypeOK, OrderInv, NEW k \in Tasks, AddTaskLock(k)
  PROVE  OrderInv'
<1>1. /\ tpc[k] = "new" /\ Vaq[k] \in live /\ vlock[Vaq[k]] = None
      /\ vlock' = [vlock EXCEPT ![Vaq[k]] = k]
      /\ tpc' = [tpc EXCEPT ![k] = "push"]
      /\ UNCHANGED <<live, queue, log, phys, done, cur, wpc>>
  BY DEF AddTaskLock, workers
<1>2. IssueInv'
  <2> SUFFICES ASSUME NEW j \in Tasks
               PROVE  /\ tpc'[j] # "new" => Vaq[j] \in live
                      /\ tpc'[j] \in {"push", "signal"} => vlock'[Vaq[j]] = j
    BY <1>1 DEF IssueInv
  <2>1. Vaq[j] \in Vaccels /\ Vaq[k] \in Vaccels /\ j # None
    BY DispatchAssumption
  <2>2. CASE j = k
    BY <1>1, <2>1, <2>2 DEF TypeOK
  <2>3. CASE j # k
    <3>1. /\ tpc'[j] = tpc[j]
          /\ tpc[j] # "new" => Vaq[j] \in live
          /\ tpc[j] \in {"push", "signal"} => vlock[Vaq[j]] = j
      BY <1>1, <2>3 DEF OrderInv, IssueInv, TypeOK
    <3>2. Vaq[j] # Vaq[k] => vlock'[Vaq[j]] = vlock[Vaq[j]]
      BY <1>1, <2>1 DEF TypeOK
    <3> QED BY <1>1, <2>1, <3>1, <3>2
  <2> QED BY <2>2, <2>3
<1>3. LogInv'
  <2> SUFFICES ASSUME NEW v \in Vaccels, NEW i \in DOMAIN log[v]
               PROVE  Vaq[log[v][i]] = v /\ tpc'[log[v][i]] \in {"signal", "issued"}
    BY <1>1 DEF OrderInv, LogInv, NoDuplicates
  <2>1. Vaq[log[v][i]] = v /\ tpc[log[v][i]] \in {"signal", "issued"}
    BY DEF OrderInv, LogInv
  <2>2. log[v][i] # k
    BY <1>1, <2>1
  <2> QED BY <1>1, <2>1, <2>2 DEF TypeOK
<1>4. QueueInv' /\ PoppedInv'
  BY <1>1 DEF OrderInv, QueueInv, IsRest, PoppedInv, Popped
<1>5. TakenInv'
  BY <1>1 DEF OrderInv, TakenInv, Popped, Running
<1> QED BY <1>2, <1>3, <1>4, <1>5 DEF OrderInv

(* It signals and lets go of the lock.                                     *)
LEMMA OrderSignal ==
  ASSUME TypeOK, OrderInv, NEW k \in Tasks, AddTaskSignal(k)
  PROVE  OrderInv'
<1>1. /\ tpc[k] = "signal"
      /\ vlock' = [vlock EXCEPT ![Vaq[k]] = None]
      /\ tpc' = [tpc EXCEPT ![k] = "issued"]
      /\ UNCHANGED <<live, queue, log, phys, done, cur>>
  BY DEF AddTaskSignal, workers
<1>2. \A a \in Accels : wpc[a] = "run" => wpc'[a] = "run"
  BY DEF AddTaskSignal, arax_accel_add_task, Notify, TypeOK
<1>3. IssueInv'
  BY <1>1, DispatchAssumption DEF OrderInv, IssueInv, TypeOK
<1>4. LogInv'
  BY <1>1 DEF OrderInv, LogInv, NoDuplicates, TypeOK
<1>5. QueueInv' /\ PoppedInv'
  BY <1>1 DEF OrderInv, QueueInv, IsRest, PoppedInv, Popped
<1>6. TakenInv'
  BY <1>1, <1>2 DEF OrderInv, TakenInv, Popped, Running
<1> QED BY <1>3, <1>4, <1>5, <1>6 DEF OrderInv

(* It pushes: the task is the last of the log and of the queue.            *)
LEMMA OrderPush ==
  ASSUME TypeOK, OrderInv, NEW k \in Tasks, AddTaskPush(k)
  PROVE  OrderInv'
<1>1. PICK v \in Vaccels : v = Vaq[k]
  BY DispatchAssumption
<1>2. /\ tpc[k] = "push"
      /\ queue' = [queue EXCEPT ![v] = Append(@, k)]
      /\ log' = [log EXCEPT ![v] = Append(@, k)]
      /\ tpc' = [tpc EXCEPT ![k] = "signal"]
      /\ UNCHANGED <<live, vlock, phys, done, cur, wpc>>
  BY <1>1 DEF AddTaskPush, workers
<1>3. /\ queue'[v] = Append(queue[v], k) /\ log'[v] = Append(log[v], k)
      /\ \A w \in Vaccels : w # v => queue'[w] = queue[w] /\ log'[w] = log[w]
      /\ \A j \in Tasks : j # k => tpc'[j] = tpc[j]
      /\ tpc'[k] = "signal"
      /\ \A w \in Vaccels : log[w] \in Seq(Tasks) /\ queue[w] \in Seq(Tasks)
  BY <1>2 DEF TypeOK
<1>4. /\ DOMAIN log[v] = 1 .. Len(log[v]) /\ Len(log[v]) \in Nat
      /\ DOMAIN log'[v] = 1 .. Len(log[v]) + 1
      /\ \A i \in 1 .. Len(log[v]) : log'[v][i] = log[v][i]
      /\ log'[v][Len(log[v]) + 1] = k
  BY <1>3, AppendFacts
<1>5. /\ IsRest(Append(queue[v], k), Append(log[v], k))
      /\ Len(Append(log[v], k)) - Len(Append(queue[v], k)) = Len(log[v]) - Len(queue[v])
  BY <1>3, RestPush DEF OrderInv, QueueInv
<1>6. \A w \in Vaccels : Popped(w)' = Popped(w)
  BY <1>3, <1>5, Zenon DEF Popped
<1>7. \A w \in Vaccels : \A i \in DOMAIN log[w] :
        log[w][i] # k /\ i \in DOMAIN log'[w] /\ log'[w][i] = log[w][i] /\ log[w][i] \in Tasks
  <2> SUFFICES ASSUME NEW w \in Vaccels, NEW i \in DOMAIN log[w]
               PROVE  /\ log[w][i] # k /\ log[w][i] \in Tasks
                      /\ i \in DOMAIN log'[w] /\ log'[w][i] = log[w][i]
    OBVIOUS
  <2>1. log[w][i] # k
    BY <1>2 DEF OrderInv, LogInv
  <2>2. log[w][i] \in Tasks
    BY <1>3
  <2>3. CASE w = v
    <3>1. i \in 1 .. Len(log[v])
      BY <1>4, <2>3
    <3>2. i \in 1 .. Len(log[v]) + 1
      BY <1>4, <3>1
    <3> QED BY <1>4, <2>1, <2>2, <2>3, <3>1, <3>2
  <2>4. CASE w # v
    BY <1>3, <2>1, <2>2, <2>4
  <2> QED BY <2>3, <2>4
<1>8. IssueInv'
  BY <1>2, DispatchAssumption DEF OrderInv, IssueInv, TypeOK
<1>9. LogInv'
  <2> SUFFICES ASSUME NEW w \in Vaccels
               PROVE  /\ NoDuplicates(log'[w])
                      /\ \A i \in DOMAIN log'[w] :
                           Vaq[log'[w][i]] = w /\ tpc'[log'[w][i]] \in {"signal", "issued"}
    BY DEF LogInv, NoDuplicates
  <2>1. /\ NoDuplicates(log[w])
        /\ \A i \in DOMAIN log[w] :
             Vaq[log[w][i]] = w /\ tpc[log[w][i]] \in {"signal", "issued"}
    BY DEF OrderInv, LogInv
  <2>2. CASE w # v
    BY <1>3, <1>7, <2>1, <2>2
  <2>3. CASE w = v
    <3>1. \A i \in DOMAIN log'[v] : i \in DOMAIN log[v] \/ (i = Len(log[v]) + 1 /\ log'[v][i] = k)
      BY <1>4
    <3>2. NoDuplicates(log'[v])
      BY <1>7, <2>1, <2>3, <3>1 DEF NoDuplicates
    <3>3. ASSUME NEW i \in DOMAIN log'[v]
          PROVE  Vaq[log'[v][i]] = v /\ tpc'[log'[v][i]] \in {"signal", "issued"}
      <4>1. CASE i \in DOMAIN log[v]
        BY <1>3, <1>7, <2>1, <2>3, <4>1
      <4>2. CASE log'[v][i] = k
        BY <1>1, <1>3, <4>2
      <4> QED BY <3>1, <4>1, <4>2
    <3> QED BY <2>3, <3>2, <3>3
  <2> QED BY <2>2, <2>3
<1>10. QueueInv'
  <2> SUFFICES ASSUME NEW w \in Vaccels PROVE IsRest(queue'[w], log'[w])
    BY DEF QueueInv, IsRest
  <2>1. CASE w = v
    BY <1>3, <1>5, <2>1
  <2>2. CASE w # v
    BY <1>3, <2>2 DEF OrderInv, QueueInv
  <2> QED BY <2>1, <2>2
<1>11. \A w \in Vaccels : \A i \in 1 .. Popped(w) : i \in DOMAIN log[w]
  BY PoppedRange DEF OrderInv
<1>12. PoppedInv'
  <2> SUFFICES ASSUME NEW w \in Vaccels, NEW i \in 1 .. Popped(w)'
               PROVE  \/ log'[w][i] \in done
                      \/ i = Popped(w)' /\ phys[w] # None /\ cur[phys[w]] = log'[w][i]
    BY <1>2 DEF PoppedInv
  <2>1. Popped(w)' = Popped(w) /\ i \in 1 .. Popped(w)
    BY <1>6
  <2>2. \/ log[w][i] \in done
        \/ i = Popped(w) /\ phys[w] # None /\ cur[phys[w]] = log[w][i]
    BY <2>1 DEF OrderInv, PoppedInv
  <2>3. log'[w][i] = log[w][i]
    BY <1>7, <1>11, <2>1
  <2> QED BY <2>1, <2>2, <2>3
<1>13. TakenInv'
  <2>1. ASSUME NEW j \in Tasks, Running(j)' \/ j \in done'
        PROVE  \E i \in 1 .. Popped(Vaq[j])' : log'[Vaq[j]][i] = j
    <3>1. Running(j) \/ j \in done
      BY <1>2, <2>1 DEF Running
    <3>2. PICK i \in 1 .. Popped(Vaq[j]) : log[Vaq[j]][i] = j
      BY <3>1 DEF OrderInv, TakenInv
    <3>3. Vaq[j] \in Vaccels
      BY DispatchAssumption
    <3> QED BY <1>6, <1>7, <1>11, <3>2, <3>3
  <2>2. \A a \in Accels : cur'[a] # None => wpc'[a] = "run"
    BY <1>2 DEF OrderInv, TakenInv
  <2> QED BY <2>1, <2>2 DEF TakenInv
<1> QED BY <1>8, <1>9, <1>10, <1>12, <1>13 DEF OrderInv

(* A worker that runs nothing pops the head of a virtual accelerator that  *)
(* it owns: everything that was popped before is done.                     *)
LEMMA OrderPop ==
  ASSUME TypeOK, OrderInv, NEW a \in Accels, NEW v \in Vaccels,
         queue[v] # <<>>, phys[v] = a, cur[a] = None,
         queue' = [queue EXCEPT ![v] = Tail(@)],
         cur' = [cur EXCEPT ![a] = Head(queue[v])],
         wpc' = [wpc EXCEPT ![a] = "run"],
         UNCHANGED <<live, log, tpc, vlock, phys, done>>
  PROVE  OrderInv'
<1>1. /\ queue'[v] = Tail(queue[v])
      /\ \A w \in Vaccels : w # v => queue'[w] = queue[w]
      /\ cur'[a] = Head(queue[v])
      /\ \A b \in Accels : b # a => cur'[b] = cur[b]
  BY DEF TypeOK
<1>2. \A w \in Vaccels :
        /\ log[w] \in Seq(Tasks) /\ queue[w] \in Seq(Tasks) /\ IsRest(queue[w], log[w])
        /\ Popped(w) \in Nat
        /\ \A i \in 1 .. Popped(w) : i \in DOMAIN log[w] /\ log[w][i] \in Tasks
  BY PoppedRange DEF OrderInv
<1>3. /\ IsRest(Tail(queue[v]), log[v])
      /\ Len(log[v]) - Len(Tail(queue[v])) = Len(log[v]) - Len(queue[v]) + 1
      /\ Len(log[v]) - Len(queue[v]) + 1 \in DOMAIN log[v]
      /\ log[v][Len(log[v]) - Len(queue[v]) + 1] = Head(queue[v])
  BY <1>2, RestPop
<1>4. /\ Popped(v)' = Popped(v) + 1
      /\ \A w \in Vaccels : w # v => Popped(w)' = Popped(w)
      /\ Popped(v) + 1 \in DOMAIN log[v]
      /\ log[v][Popped(v) + 1] = Head(queue[v])
  BY <1>1, <1>3, Zenon DEF Popped
<1>5. \A w \in Vaccels : \A i \in 1 .. Popped(w) : log[w][i] # None
  BY <1>2, DispatchAssumption
<1>6. IssueInv' /\ LogInv'
  BY DEF OrderInv, IssueInv, LogInv, NoDuplicates
<1>7. QueueInv'
  <2> SUFFICES ASSUME NEW w \in Vaccels PROVE IsRest(queue'[w], log[w])
    BY DEF QueueInv, IsRest
  <2> QED BY <1>1, <1>2, <1>3
<1>8. PoppedInv'
  <2> SUFFICES ASSUME NEW w \in Vaccels, NEW i \in 1 .. Popped(w)'
               PROVE  \/ log[w][i] \in done
                      \/ i = Popped(w)' /\ phys[w] # None /\ cur'[phys[w]] = log[w][i]
    BY DEF PoppedInv
  <2>1. i \in 1 .. Popped(w) =>
          \/ log[w][i] \in done
          \/ i = Popped(w) /\ phys[w] # None /\ cur[phys[w]] = log[w][i]
    BY DEF OrderInv, PoppedInv
  <2>2. CASE w = v /\ i = Popped(v) + 1
    <3>1. phys[w] # None /\ cur'[phys[w]] = Head(queue[v])
      BY <1>1, <2>2, DispatchAssumption
    <3> QED BY <1>4, <2>2, <3>1
  <2>3. CASE w = v /\ i # Popped(v) + 1
    <3>1. i \in 1 .. Popped(v)
      BY <1>2, <1>4, <2>3
    <3> QED BY <1>5, <2>1, <2>3, <3>1
  <2>4. CASE w # v
    <3>1. i \in 1 .. Popped(w) /\ Popped(w)' = Popped(w)
      BY <1>4, <2>4
    <3>2. phys[w] # None => phys[w] \in Accels
      BY DEF TypeOK
    <3> QED BY <1>1, <1>5, <2>1, <3>1, <3>2
  <2> QED BY <2>2, <2>3, <2>4
<1>9. TakenInv'
  <2>1. ASSUME NEW j \in Tasks, Running(j)' \/ j \in done'
        PROVE  \E i \in 1 .. Popped(Vaq[j])' : log'[Vaq[j]][i] = j
    <3>1. CASE j = Head(queue[v])
      <4>1. Vaq[j] = v
        BY <1>4, <3>1 DEF OrderInv, LogInv
      <4>2. Popped(v) + 1 \in 1 .. Popped(v)'
        BY <1>2, <1>4
      <4> QED BY <1>4, <3>1, <4>1, <4>2
    <3>2. CASE j # Head(queue[v])
      <4>1. Running(j) \/ j \in done
        BY <1>1, <2>1, <3>2 DEF Running
      <4>2. PICK i \in 1 .. Popped(Vaq[j]) : log[Vaq[j]][i] = j
        BY <4>1 DEF OrderInv, TakenInv
      <4>3. Vaq[j] \in Vaccels
        BY DispatchAssumption
      <4>4. i \in 1 .. Popped(Vaq[j])'
        <5>1. Popped(Vaq[j])' = Popped(Vaq[j]) \/ Popped(Vaq[j])' = Popped(Vaq[j]) + 1
          BY <1>4, <4>3
        <5>2. Popped(Vaq[j]) \in Nat
          BY <1>2, <4>3
        <5> QED BY <4>2, <5>1, <5>2
      <4> QED BY <4>2, <4>4
    <3> QED BY <3>1, <3>2
  <2>2. \A b \in Accels : cur'[b] # None => wpc'[b] = "run"
    BY <1>1 DEF OrderInv, TakenInv, TypeOK
  <2> QED BY <2>1, <2>2 DEF TakenInv
<1> QED BY <1>6, <1>7, <1>8, <1>9 DEF OrderInv

(* A task that ran is done, and its worker runs nothing.                   *)
LEMMA OrderComplete ==
  ASSUME TypeOK, OrderInv, NEW a \in Accels, Complete(a), cur[a] \in Tasks
  PROVE  OrderInv'
<1>1. /\ done' = done \cup {cur[a]}
      /\ cur'[a] = None /\ (\A b \in Accels : b # a => cur'[b] = cur[b])
      /\ \A b \in Accels : b # a => wpc'[b] = wpc[b]
      /\ UNCHANGED <<live, queue, log, tpc, vlock, phys>>
  BY DEF Complete, Goto, TypeOK, lists, issuers
<1>2. IssueInv' /\ LogInv' /\ QueueInv'
  BY <1>1 DEF OrderInv, IssueInv, LogInv, QueueInv, IsRest, NoDuplicates
<1>3. PoppedInv'
  <2> SUFFICES ASSUME NEW v \in Vaccels, NEW i \in 1 .. Popped(v)'
               PROVE  \/ log[v][i] \in done'
                      \/ i = Popped(v)' /\ phys[v] # None /\ cur'[phys[v]] = log[v][i]
    BY <1>1 DEF PoppedInv
  <2>1. Popped(v)' = Popped(v)
    BY <1>1 DEF Popped
  <2>2. \/ log[v][i] \in done
        \/ i = Popped(v) /\ phys[v] # None /\ cur[phys[v]] = log[v][i]
    BY <2>1 DEF OrderInv, PoppedInv
  <2>3. phys[v] \in Accels \cup {None}
    BY DEF TypeOK
  <2> QED BY <1>1, <2>1, <2>2, <2>3
<1>4. TakenInv'
  <2>1. ASSUME NEW j \in Tasks, Running(j)' \/ j \in done'
        PROVE  \E i \in 1 .. Popped(Vaq[j])' : log'[Vaq[j]][i] = j
    <3>1. Running(j) \/ j \in done
      BY <1>1, <2>1, DispatchAssumption DEF Running
    <3> QED BY <1>1, <3>1 DEF OrderInv, TakenInv, Popped
  <2>2. \A b \in Accels : cur'[b] # None => wpc'[b] = "run"
    BY <1>1 DEF OrderInv, TakenInv
  <2> QED BY <2>1, <2>2 DEF TakenInv
<1> QED BY <1>2, <1>3, <1>4 DEF OrderInv

(* At the start there are no tasks.                                        *)
LEMMA InitOrder == Init => OrderInv
<1> SUFFICES ASSUME Init PROVE OrderInv
  OBVIOUS
<1>1. IssueInv
  BY DEF Init, IssueInv
<1>2. \A v \in Vaccels : /\ log[v] = <<>> /\ queue[v] = <<>> /\ Len(log[v]) = 0
                         /\ DOMAIN log[v] = {} /\ DOMAIN queue[v] = {} /\ Popped(v) = 0
  BY DEF Init, Popped
<1>3. LogInv /\ QueueInv
  BY <1>2 DEF LogInv, QueueInv, IsRest, NoDuplicates
<1>5. PoppedInv
  <2>1. \A v \in Vaccels : 1 .. Popped(v) = {}
    BY <1>2
  <2> QED BY <2>1 DEF PoppedInv
<1>4. TakenInv
  BY DispatchAssumption DEF Init, TakenInv, Running
<1> QED BY <1>1, <1>3, <1>4, <1>5 DEF OrderInv

(* What runs or is done was popped, and all that was popped before it is   *)
(* done: tasks of a virtual accelerator are served one after the other.    *)
LEMMA OrderSequential ==
  ASSUME TypeOK, OrderInv
  PROVE  Sequential
<1> SUFFICES ASSUME NEW v \in Vaccels, NEW i \in DOMAIN log[v], NEW j \in DOMAIN log[v],
                    i < j, Running(log[v][j]) \/ log[v][j] \in done
             PROVE  log[v][i] \in done
  BY DEF Sequential
<1>1. log[v] \in Seq(Tasks) /\ queue[v] \in Seq(Tasks)
  BY DEF TypeOK
<1>2. log[v][j] \in Tasks /\ Vaq[log[v][j]] = v
  BY <1>1 DEF OrderInv, LogInv
<1>3. PICK n \in 1 .. Popped(v) : log[v][n] = log[v][j]
  BY <1>2 DEF OrderInv, TakenInv
<1>4. Len(log[v]) \in Nat /\ DOMAIN log[v] = 1 .. Len(log[v]) /\ Popped(v) \in Nat
  BY <1>1, PoppedRange DEF OrderInv
<1>5. n \in DOMAIN log[v]
  BY <1>3, PoppedRange DEF OrderInv
<1>6. n = j
  BY <1>3, <1>5 DEF OrderInv, LogInv, NoDuplicates
<1>7. i \in 1 .. Popped(v) /\ i # Popped(v)
  BY <1>3, <1>4, <1>6
<1> QED BY <1>7 DEF OrderInv, PoppedInv

-----------------------------------------------------------------------------
(* Types: what the steps that no scheduler changes do to them *)

USE DispatchAssumption

Typed == TypeOK /\ \A a \in Accels : wpc[a] = "run" => cur[a] \in Tasks

(* A count modulo SIZE_MAX + 1 is a size_t.                                *)
LEMMA Wraps == \A x \in Int : x % SizeMod \in 0 .. SizeMod - 1
BY ModRange

(* LinkVaccel keeps the types of what it assigns, and does not make a      *)
(* worker run.                                                             *)
LEMMA LinkTypes ==
  ASSUME TypeOK, NEW a \in Accels, NEW v \in Vaccels, LinkVaccel(a, v)
  PROVE  /\ assigned' \in [Accels -> Seq(Vaccels)]
         /\ phys' \in [Vaccels -> Accels \cup {None}]
         /\ tasks' \in [Accels -> 0 .. SizeMod - 1]
         /\ wpc' \in [Accels -> WorkerPC]
         /\ \A b \in Accels : wpc'[b] = "run" => wpc[b] = "run"
<1>1. Len(queue[v]) \in Nat
  BY DEF TypeOK
<1>2. tasks[a] \in Nat
  BY DEF TypeOK
<1>3. (tasks[a] + Len(queue[v])) % SizeMod \in 0 .. SizeMod - 1
  <2>1. tasks[a] + Len(queue[v]) \in Int
    BY <1>1, <1>2
  <2> QED BY <2>1, Wraps, Zenon
<1>4. tasks' \in [Accels -> 0 .. SizeMod - 1]
  BY <1>3 DEF LinkVaccel, AddTokens, TypeOK
<1>5. <<v>> \o assigned[a] \in Seq(Vaccels)
  BY AddHead DEF TypeOK
<1>6. assigned' \in [Accels -> Seq(Vaccels)] /\ phys' \in [Vaccels -> Accels \cup {None}]
  BY <1>5 DEF LinkVaccel, TypeOK
<1>7. /\ wpc' \in [Accels -> WorkerPC]
      /\ \A b \in Accels : wpc'[b] = "run" => wpc[b] = "run"
  BY DEF LinkVaccel, Notify, WorkerPC, TypeOK
<1> QED BY <1>4, <1>6, <1>7

(* arax_accel_add_task keeps the width of the count.                       *)
LEMMA AddTaskTypes ==
  ASSUME TypeOK, NEW a \in Accels, arax_accel_add_task(a)
  PROVE  /\ tasks' \in [Accels -> 0 .. SizeMod - 1]
         /\ wpc' \in [Accels -> WorkerPC]
         /\ \A b \in Accels : wpc'[b] = "run" => wpc[b] = "run"
<1>1. (tasks[a] + 1) % SizeMod \in 0 .. SizeMod - 1
  <2>1. tasks[a] + 1 \in Int
    BY DEF TypeOK
  <2> QED BY <2>1, Wraps, Zenon
<1>2. tasks' \in [Accels -> 0 .. SizeMod - 1]
  BY <1>1 DEF arax_accel_add_task, AddTokens, TypeOK
<1>3. /\ wpc' \in [Accels -> WorkerPC]
      /\ \A b \in Accels : wpc'[b] = "run" => wpc[b] = "run"
  BY DEF arax_accel_add_task, Notify, WorkerPC, TypeOK
<1> QED BY <1>2, <1>3

(* arax_accel_del_vaccel's arithmetic may wrap; the types stay.            *)
LEMMA UnlinkTypes ==
  ASSUME TypeOK, NEW a \in Accels, NEW v \in Vaccels, UnlinkVaccel(a, v), In(v, assigned[a])
  PROVE  /\ assigned' \in [Accels -> Seq(Vaccels)]
         /\ phys' \in [Vaccels -> Accels \cup {None}]
         /\ tasks' \in [Accels -> 0 .. SizeMod - 1]
<1>1. (tasks[a] + (1 - Len(queue[v]))) % SizeMod \in 0 .. SizeMod - 1
  <2>1. tasks[a] + (1 - Len(queue[v])) \in Int
    BY DEF TypeOK
  <2> QED BY <2>1, Wraps, Zenon
<1>2. tasks' \in [Accels -> 0 .. SizeMod - 1]
  BY <1>1 DEF UnlinkVaccel, AddTokens, TypeOK
<1>3. Remove(v, assigned[a]) \in Seq(Vaccels)
  BY RemoveNode DEF TypeOK
<1>4. assigned' \in [Accels -> Seq(Vaccels)] /\ phys' \in [Vaccels -> Accels \cup {None}]
  BY <1>3 DEF UnlinkVaccel, TypeOK
<1> QED BY <1>2, <1>4

(* Applications keep the types.                                            *)
LEMMA ApplicationTyped ==
  ASSUME Typed, Application
  PROVE  Typed'
<1> USE DEF Typed, TaskPC, BalancerPC
<1>1. ASSUME NEW v \in Vaccels, AcquireType(v) PROVE Typed'
  <2>1. orphans' \in Seq(Vaccels)
    BY <1>1, AddHead DEF AcquireType, TypeOK
  <2> QED BY <1>1, <2>1 DEF AcquireType, NotifyBalancer, TypeOK, issuers, workers, migration
<1>2. ASSUME NEW v \in Vaccels, AcquirePhys(v) PROVE Typed'
  <2>1. Acquired[v] \in Accels /\ LinkVaccel(Acquired[v], v)
    BY <1>2 DEF AcquirePhys
  <2> HIDE DEF Typed
  <2>2. /\ assigned' \in [Accels -> Seq(Vaccels)]
        /\ phys' \in [Vaccels -> Accels \cup {None}]
        /\ tasks' \in [Accels -> 0 .. SizeMod - 1]
        /\ wpc' \in [Accels -> WorkerPC]
        /\ \A b \in Accels : wpc'[b] = "run" => wpc[b] = "run"
    BY <2>1, LinkTypes DEF Typed
  <2> QED BY <1>2, <2>2 DEF Typed, AcquirePhys, TypeOK, issuers, workers, migration, balancer
<1>3. ASSUME NEW k \in Tasks, AddTaskLock(k) PROVE Typed'
  BY <1>3 DEF AddTaskLock, TypeOK, lists, workers, migration, balancer
<1>4. ASSUME NEW k \in Tasks, AddTaskPush(k) PROVE Typed'
  <2>1. Append(queue[Vaq[k]], k) \in Seq(Tasks) /\ Append(log[Vaq[k]], k) \in Seq(Tasks)
    BY DEF TypeOK
  <2> QED BY <1>4, <2>1 DEF AddTaskPush, TypeOK, lists, workers, migration, balancer
<1>5. ASSUME NEW k \in Tasks, AddTaskSignal(k) PROVE Typed'
  <2>1. CASE phys[Vaq[k]] = None
    BY <1>5, <2>1 DEF AddTaskSignal, TypeOK, lists, workers, migration, balancer
  <2>2. CASE phys[Vaq[k]] # None
    <3>1. phys[Vaq[k]] \in Accels /\ arax_accel_add_task(phys[Vaq[k]])
      BY <1>5, <2>2 DEF AddTaskSignal, TypeOK
    <3>2. /\ tasks' \in [Accels -> 0 .. SizeMod - 1]
          /\ wpc' \in [Accels -> WorkerPC]
          /\ \A b \in Accels : wpc'[b] = "run" => wpc[b] = "run"
      BY <3>1, AddTaskTypes
    <3> QED BY <1>5, <3>2 DEF AddTaskSignal, TypeOK, lists, workers, migration, balancer
  <2> QED BY <2>1, <2>2
<1> QED BY <1>1, <1>2, <1>3, <1>4, <1>5 DEF Application

(* The candidate of selectTask is in the worker's copy.                    *)
LEMMA CandidateType ==
  ASSUME TypeOK, NEW a \in Accels, idx[a] < Len(VACs[a])
  PROVE  Candidate(a) \in Vaccels /\ Position(a) \in Nat
<1>1. VACs[a] \in Seq(Vaccels) /\ Len(VACs[a]) \in Nat \ {0} /\ idx[a] \in Nat /\ rr[a] \in Nat
  BY DEF TypeOK
<1>2. (rr[a] + 1) % Len(VACs[a]) \in Nat
  BY <1>1, ModNat
<1>3. Position(a) \in Nat /\ Position(a) < Len(VACs[a])
  <2>1. ((rr[a] + 1) % Len(VACs[a])) + idx[a] \in Nat
    BY <1>1, <1>2
  <2>2. \A x \in Nat : x % Len(VACs[a]) \in Nat /\ x % Len(VACs[a]) < Len(VACs[a])
    BY <1>1, ModNat
  <2> QED BY <2>1, <2>2, Zenon DEF Position, Turn
<1>4. Position(a) + 1 \in 1 .. Len(VACs[a])
  BY <1>1, <1>3
<1> QED BY <1>1, <1>3, <1>4 DEF Candidate

(* The loop of a worker keeps the types.                                   *)
LEMMA LoopTyped ==
  ASSUME Typed, NEW a \in Accels, WorkerLoop(a) \/ SpuriousWake(a)
  PROVE  Typed'
<1> USE DEF Typed, WorkerPC, Goto
<1>1. CASE CheckStop(a)
  BY <1>1 DEF CheckStop, TypeOK, lists, issuers, workers, migration, balancer
<1>2. CASE arax_accel_wait_for_task(a)
  <2>1. tasks' \in [Accels -> 0 .. SizeMod - 1]
    <3>1. tasks[a] \in 0 .. SizeMod - 1
      BY DEF TypeOK
    <3>2. CASE tasks[a] = 0
      BY <1>2, <3>2 DEF arax_accel_wait_for_task, TypeOK
    <3>3. CASE tasks[a] # 0
      <4>1. tasks[a] - 1 \in 0 .. SizeMod - 1
        BY <3>1, <3>3
      <4>2. tasks' = [tasks EXCEPT ![a] = tasks[a] - 1] /\ tasks \in [Accels -> 0 .. SizeMod - 1]
        BY <1>2, <3>3 DEF arax_accel_wait_for_task, TypeOK
      <4> HIDE DEF Typed
      <4> QED BY <4>1, <4>2
    <3> QED BY <3>2, <3>3
  <2>2. /\ wpc' \in [Accels -> WorkerPC]
        /\ \A b \in Accels : wpc'[b] = "run" => wpc[b] = "run"
    BY <1>2 DEF arax_accel_wait_for_task, TypeOK
  <2> QED BY <1>2, <2>1, <2>2
    DEF arax_accel_wait_for_task, TypeOK, lists, issuers, workers, migration, balancer
<1>3. CASE updateVirtAccels(a)
  BY <1>3 DEF updateVirtAccels, TypeOK, lists, issuers, migration, balancer
<1>4. CASE NotFound(a)
  BY <1>4 DEF NotFound, TypeOK, lists, issuers, migration, balancer
<1>5. CASE Complete(a)
  BY <1>5 DEF Complete, TypeOK, lists, issuers, migration, balancer
<1>6. CASE SpuriousWake(a)
  BY <1>6 DEF SpuriousWake, TypeOK, lists, issuers, workers, migration, balancer
<1> QED BY <1>1, <1>2, <1>3, <1>4, <1>5, <1>6 DEF WorkerLoop

(* So does a search that pops the head of its candidate, or goes on.       *)
LEMMA PopTyped ==
  ASSUME Typed, NEW a \in Accels, idx[a] < Len(VACs[a]), queue[Candidate(a)] # <<>>,
         queue' = [queue EXCEPT ![Candidate(a)] = Tail(@)], Found(a, Head(queue[Candidate(a)])),
         UNCHANGED <<live, lists, tasks, phys, issuers, done, VACs, term, balancer>>
  PROVE  Typed'
<1>1. Candidate(a) \in Vaccels /\ Position(a) \in Nat
  BY CandidateType DEF Typed
<1> DEFINE v == Candidate(a)
<1> HIDE DEF v
<1>2. Head(queue[v]) \in Tasks /\ Tail(queue[v]) \in Seq(Tasks)
  BY <1>1 DEF Typed, TypeOK, v
<1>3. queue' = [queue EXCEPT ![v] = Tail(@)] /\ Found(a, Head(queue[v]))
  BY DEF v
<1>4. queue' \in [Vaccels -> Seq(Tasks)]
  BY <1>1, <1>2, <1>3 DEF Typed, TypeOK, v
<1>5. /\ rr' \in [Accels -> Nat] /\ idx' \in [Accels -> Nat]
      /\ cur' \in [Accels -> Tasks \cup {None}] /\ wpc' \in [Accels -> WorkerPC]
      /\ \A b \in Accels : wpc'[b] = "run" => cur'[b] \in Tasks
  <2>1. /\ rr' = [rr EXCEPT ![a] = Position(a)] /\ idx' = [idx EXCEPT ![a] = 0]
        /\ cur' = [cur EXCEPT ![a] = Head(queue[v])] /\ wpc' = [wpc EXCEPT ![a] = "run"]
    BY <1>3 DEF Found, Goto
  <2>2. rr' \in [Accels -> Nat] /\ idx' \in [Accels -> Nat]
    BY <1>1, <2>1 DEF Typed, TypeOK
  <2>3. cur' \in [Accels -> Tasks \cup {None}] /\ wpc' \in [Accels -> WorkerPC]
    BY <1>2, <2>1 DEF Typed, TypeOK, WorkerPC
  <2>4. \A b \in Accels : wpc'[b] = "run" => cur'[b] \in Tasks
    BY <1>2, <2>1 DEF Typed, TypeOK
  <2> QED BY <2>2, <2>3, <2>4
<1> QED BY <1>4, <1>5 DEF Typed, TypeOK, lists, issuers, migration, balancer

LEMMA SkipTyped ==
  ASSUME Typed, NEW a \in Accels, idx' = [idx EXCEPT ![a] = @ + 1],
         UNCHANGED <<queue, rr, cur, wpc, live, lists, tasks, phys, issuers, done, VACs,
                     term, balancer>>
  PROVE  Typed'
<1>1. idx' \in [Accels -> Nat]
  BY SMTT(30) DEF Typed, TypeOK
<1> QED BY <1>1 DEF Typed, TypeOK, lists, issuers, migration, balancer

LEMMA SelectTyped ==
  ASSUME Typed, NEW a \in Accels, PopCandidate(a)
  PROVE  Typed'
<1>1. CASE queue[Candidate(a)] = <<>>
  BY <1>1, SkipTyped DEF PopCandidate
<1>2. CASE queue[Candidate(a)] # <<>>
  BY <1>2, PopTyped DEF PopCandidate
<1> QED BY <1>1, <1>2

(* The balancer takes an orphan, or wakes without one.                     *)
LEMMA OrphanTyped ==
  ASSUME Typed, GetOrphan \/ GetOrphanWoken \/ SpuriousWakeBalancer
  PROVE  Typed'
<1> USE DEF Typed, BalancerPC
<1>1. ASSUME orphans # <<>>, PopOrphan
      PROVE  /\ bvac' \in Vaccels
             /\ orphans' \in Seq(Vaccels)
             /\ retry' = FALSE
             /\ spurious' \in 0 .. MaxSpurious
             /\ bpc' = "assign"
  BY <1>1, PopHead, DispatchAssumption DEF PopOrphan, TypeOK
<1>2. CASE GetOrphan
  <2>1. CASE orphans = <<>>
    BY <1>2, <2>1 DEF GetOrphan, TypeOK, issuers, workers, migration
  <2>2. CASE orphans # <<>>
    BY <1>1, <1>2, <2>2 DEF GetOrphan, TypeOK, issuers, workers, migration
  <2> QED BY <2>1, <2>2
<1>3. CASE GetOrphanWoken
  <2>1. CASE orphans = <<>>
    BY <1>3, <2>1 DEF GetOrphanWoken, TypeOK, issuers, workers, migration
  <2>2. CASE orphans # <<>>
    BY <1>1, <1>3, <2>2 DEF GetOrphanWoken, TypeOK, issuers, workers, migration
  <2> QED BY <2>1, <2>2
<1>4. CASE SpuriousWakeBalancer
  <2>1. spurious' \in 0 .. MaxSpurious
    BY <1>4 DEF SpuriousWakeBalancer, TypeOK
  <2> QED BY <1>4, <2>1 DEF SpuriousWakeBalancer, TypeOK, lists, issuers, workers, migration
<1> QED BY <1>2, <1>3, <1>4

(* The main thread keeps the types.                                        *)
LEMMA TerminateTyped ==
  ASSUME Typed, Terminate
  PROVE  Typed'
<1> USE DEF Typed, TermPC
<1>1. ASSUME NEW a \in Accels, TerminateFlag(a) PROVE Typed'
  BY <1>1 DEF TerminateFlag, TypeOK, lists, issuers, workers, migration, balancer
<1>2. ASSUME NEW a \in Accels, TerminateToken(a) PROVE Typed'
  <2>1. /\ tasks' \in [Accels -> 0 .. SizeMod - 1]
        /\ wpc' \in [Accels -> WorkerPC]
        /\ \A b \in Accels : wpc'[b] = "run" => wpc[b] = "run"
    BY <1>2, AddTaskTypes DEF TerminateToken
  <2> QED BY <1>2, <2>1 DEF TerminateToken, TypeOK, lists, issuers, workers, migration, balancer
<1> QED BY <1>1, <1>2 DEF Terminate

LEMMA SameTyped ==
  ASSUME Typed, UNCHANGED vars
  PROVE  Typed'
BY DEF vars, Typed, TypeOK, lists, issuers, workers, migration, balancer

(* Init has the types.                                                     *)
LEMMA InitTyped == Init => Typed
<1> SUFFICES ASSUME Init PROVE Typed
  OBVIOUS
<1>1. phys \in [Vaccels -> Accels \cup {None}]
  <2>1. ASSUME NEW v \in live PROVE (CHOOSE a \in Accels : FreeVaq[a] = v) \in Accels
    BY <2>1 DEF Init
  <2> QED BY <2>1 DEF Init
<1>2. assigned \in [Accels -> Seq(Vaccels)]
  BY DEF Init
<1>3. tasks \in [Accels -> 0 .. SizeMod - 1]
  BY DEF Init
<1>4. /\ live \subseteq Vaccels
      /\ orphans \in Seq(Vaccels)
      /\ queue \in [Vaccels -> Seq(Tasks)] /\ log \in [Vaccels -> Seq(Tasks)]
      /\ vlock \in [Vaccels -> Tasks \cup {None}]
      /\ tpc \in [Tasks -> TaskPC]
      /\ done \subseteq Tasks
  BY DEF Init, TaskPC
<1>5. /\ wpc \in [Accels -> WorkerPC] /\ VACs \in [Accels -> Seq(Vaccels)]
      /\ idx \in [Accels -> Nat] /\ rr \in [Accels -> Nat]
      /\ cur \in [Accels -> Tasks \cup {None}]
      /\ term \in [Accels -> TermPC]
  BY DEF Init, WorkerPC, TermPC
<1>6. /\ bpc \in BalancerPC
      /\ retry \in BOOLEAN
      /\ bvac \in Vaccels \cup {None} /\ bacc \in Accels \cup {None}
      /\ mig \in Vaccels \cup {None} /\ target \in Accels \cup {None}
  BY DEF Init, BalancerPC
<1>7. spurious \in 0 .. MaxSpurious
  BY DEF Init
<1>8. \A a \in Accels : wpc[a] # "run"
  BY DEF Init
<1> QED BY <1>1, <1>2, <1>3, <1>4, <1>5, <1>6, <1>7, <1>8 DEF Typed, TypeOK

-----------------------------------------------------------------------------
(* Lists: what the moves of a node do to OnePlace *)

\* OnePlace of the next state, G being in somebody's hands then.
OnePlaceNext(G) ==
  /\ NoDuplicates(orphans')
  /\ \A a \in Accels : NoDuplicates(assigned'[a])
  /\ \A v \in Vaccels :
       /\ \A a \in Accels : In(v, assigned'[a]) <=> phys'[v] = a
       /\ phys'[v] # None => v \in live'
       /\ (v \in live' /\ phys'[v] = None) <=> (In(v, orphans') \/ v \in G)
       /\ ~(In(v, orphans') /\ v \in G)

\* The part of it that accelerators' lists and phys make up.
AssignedNext ==
  /\ \A a \in Accels : NoDuplicates(assigned'[a])
  /\ \A v \in Vaccels : \A a \in Accels : In(v, assigned'[a]) <=> phys'[v] = a

(* Nothing moves.                                                          *)
LEMMA PlaceSame ==
  ASSUME NEW H, OnePlace(H), UNCHANGED <<live, orphans, assigned, phys>>
  PROVE  OnePlaceNext(H)
BY DEF OnePlace, OnePlaceNext

(* A node enters the orphans: one that is new, or that somebody held.      *)
LEMMA PlaceOrphan ==
  ASSUME TypeOK, NEW H, NEW G, OnePlace(H), NEW v \in Vaccels, v \notin live \/ v \in H,
         live' = live \cup {v}, orphans' = <<v>> \o orphans, UNCHANGED <<assigned, phys>>,
         \A w \in Vaccels : w \in G <=> (w \in H /\ w # v)
  PROVE  OnePlaceNext(G)
<1>1. orphans \in Seq(Vaccels)
  BY DEF TypeOK
<1>2. phys[v] = None /\ ~In(v, orphans) /\ NoDuplicates(orphans)
  BY DEF OnePlace
<1>3. /\ \A w : In(w, orphans') <=> (w = v \/ In(w, orphans))
      /\ NoDuplicates(orphans')
  BY <1>1, <1>2, AddHead
<1>4. ASSUME NEW w \in Vaccels
      PROVE  /\ phys'[w] # None => w \in live'
             /\ (w \in live' /\ phys'[w] = None) <=> (In(w, orphans') \/ w \in G)
             /\ ~(In(w, orphans') /\ w \in G)
  <2>1. /\ phys[w] # None => w \in live
        /\ (w \in live /\ phys[w] = None) <=> (In(w, orphans) \/ w \in H)
        /\ ~(In(w, orphans) /\ w \in H)
    BY DEF OnePlace
  <2>2. In(w, orphans') <=> (w = v \/ In(w, orphans))
    BY <1>3
  <2> QED BY <1>2, <2>1, <2>2
<1>5. AssignedNext
  BY DEF OnePlace, AssignedNext
<1> QED BY <1>3, <1>4, <1>5 DEF OnePlaceNext, AssignedNext

(* The balancer pops: the node passes from the orphans into its hands.     *)
LEMMA PlacePop ==
  ASSUME TypeOK, NEW H, NEW G, OnePlace(H), orphans # <<>>, PopOrphan,
         UNCHANGED <<live, assigned, phys>>,
         \A w \in Vaccels : w \in G <=> (w \in H \/ w = bvac')
  PROVE  OnePlaceNext(G) /\ bvac' \in Vaccels /\ bvac' \notin H
<1>1. /\ Head(orphans) \in Vaccels
      /\ \A w : In(w, orphans) <=> (w = Head(orphans) \/ In(w, Tail(orphans)))
      /\ NoDuplicates(orphans) => NoDuplicates(Tail(orphans)) /\ ~In(Head(orphans), Tail(orphans))
  BY PopHead DEF TypeOK
<1>2. bvac' = Head(orphans) /\ orphans' = Tail(orphans)
  BY DEF PopOrphan
<1>3. NoDuplicates(orphans') /\ ~In(bvac', orphans')
  BY <1>1, <1>2 DEF OnePlace
<1>4. ASSUME NEW v \in Vaccels
      PROVE  /\ phys[v] # None => v \in live
             /\ (v \in live /\ phys[v] = None) <=> (In(v, orphans') \/ v \in G)
             /\ ~(In(v, orphans') /\ v \in G)
  <2>1. /\ phys[v] # None => v \in live
        /\ (v \in live /\ phys[v] = None) <=> (In(v, orphans) \/ v \in H)
        /\ ~(In(v, orphans) /\ v \in H)
    BY DEF OnePlace
  <2>2. In(v, orphans) <=> (v = bvac' \/ In(v, orphans'))
    BY <1>1, <1>2
  <2> QED BY <1>3, <2>1, <2>2
<1>5. AssignedNext
  BY DEF OnePlace, AssignedNext
<1>6. bvac' \in Vaccels /\ bvac' \notin H
  BY <1>1, <1>2 DEF OnePlace
<1> QED BY <1>3, <1>4, <1>5, <1>6 DEF OnePlaceNext, AssignedNext

(* LinkVaccel of a node that is in no list puts it into one.               *)
LEMMA LinkLists ==
  ASSUME TypeOK, NEW H, OnePlace(H), NEW a \in Accels, NEW v \in Vaccels,
         phys[v] = None, LinkVaccel(a, v)
  PROVE  /\ AssignedNext
         /\ phys'[v] = a
         /\ \A w \in Vaccels : w # v => phys'[w] = phys[w]
<1>1. /\ \A w : In(w, <<v>> \o assigned[a]) <=> (w = v \/ In(w, assigned[a]))
      /\ NoDuplicates(assigned[a]) /\ ~In(v, assigned[a]) => NoDuplicates(<<v>> \o assigned[a])
  <2>1. assigned[a] \in Seq(Vaccels)
    BY DEF TypeOK
  <2> QED BY <2>1, AddHead
<1>2. /\ assigned'[a] = <<v>> \o assigned[a]
      /\ \A b \in Accels : b # a => assigned'[b] = assigned[b]
      /\ phys'[v] = a
      /\ \A w \in Vaccels : w # v => phys'[w] = phys[w]
  BY DEF LinkVaccel, TypeOK
<1>3. /\ \A b \in Accels : NoDuplicates(assigned[b])
      /\ \A w \in Vaccels : \A b \in Accels : In(w, assigned[b]) <=> phys[w] = b
  BY DEF OnePlace
<1>4. \A b \in Accels : ~In(v, assigned[b])
  BY <1>3
<1>5. ASSUME NEW b \in Accels PROVE NoDuplicates(assigned'[b])
  <2>1. NoDuplicates(assigned[b]) /\ ~In(v, assigned[b])
    BY <1>3, <1>4
  <2>2. CASE b = a
    BY <1>1, <1>2, <2>1, <2>2
  <2>3. CASE b # a
    BY <1>2, <2>1, <2>3
  <2> QED BY <2>2, <2>3
<1>6. ASSUME NEW w \in Vaccels, NEW b \in Accels PROVE In(w, assigned'[b]) <=> phys'[w] = b
  <2>1. In(w, assigned[b]) <=> phys[w] = b
    BY <1>3
  <2>2. CASE w = v /\ b = a
    BY <1>1, <1>2, <2>2
  <2>3. CASE w = v /\ b # a
    BY <1>2, <1>4, <2>3
  <2>4. CASE w # v /\ b = a
    <3>1. In(w, assigned'[b]) <=> In(w, assigned[b])
      BY <1>1, <1>2, <2>4
    <3> QED BY <1>2, <2>1, <2>4, <3>1
  <2>5. CASE w # v /\ b # a
    <3>1. assigned'[b] = assigned[b]
      BY <1>2, <2>5
    <3> QED BY <1>2, <2>1, <2>5, <3>1
  <2> QED BY <2>2, <2>3, <2>4, <2>5
<1> QED BY <1>2, <1>5, <1>6 DEF AssignedNext

(* A node is linked: one that is new, or that somebody held.               *)
LEMMA PlaceLink ==
  ASSUME TypeOK, NEW H, NEW G, OnePlace(H), NEW a \in Accels, NEW v \in Vaccels,
         v \notin live \/ v \in H, LinkVaccel(a, v), live' = live \cup {v}, orphans' = orphans,
         \A w \in Vaccels : w \in G <=> (w \in H /\ w # v)
  PROVE  OnePlaceNext(G)
<1>1. phys[v] = None /\ ~In(v, orphans) /\ NoDuplicates(orphans)
  BY DEF OnePlace
<1>2. /\ AssignedNext
      /\ phys'[v] = a
      /\ \A w \in Vaccels : w # v => phys'[w] = phys[w]
  BY <1>1, LinkLists
<1>3. ASSUME NEW w \in Vaccels
      PROVE  /\ phys'[w] # None => w \in live'
             /\ (w \in live' /\ phys'[w] = None) <=> (In(w, orphans) \/ w \in G)
             /\ ~(In(w, orphans) /\ w \in G)
  <2>1. /\ phys[w] # None => w \in live
        /\ (w \in live /\ phys[w] = None) <=> (In(w, orphans) \/ w \in H)
        /\ ~(In(w, orphans) /\ w \in H)
    BY DEF OnePlace
  <2> QED BY <1>1, <1>2, <2>1
<1> QED BY <1>1, <1>2, <1>3 DEF OnePlaceNext, AssignedNext

(* A node is unlinked: it passes into the hands of who does that.          *)
LEMMA PlaceUnlink ==
  ASSUME TypeOK, NEW H, NEW G, OnePlace(H), NEW a \in Accels, NEW v \in Vaccels,
         phys[v] = a, UnlinkVaccel(a, v), UNCHANGED <<live, orphans>>,
         \A w \in Vaccels : w \in G <=> (w \in H \/ w = v)
  PROVE  OnePlaceNext(G) /\ In(v, assigned[a]) /\ v \notin H
<1>1. /\ \A b \in Accels : NoDuplicates(assigned[b])
      /\ \A w \in Vaccels : \A b \in Accels : In(w, assigned[b]) <=> phys[w] = b
      /\ v \in live /\ ~In(v, orphans) /\ v \notin H /\ NoDuplicates(orphans)
  BY DEF OnePlace
<1>2. In(v, assigned[a]) /\ assigned[a] \in Seq(Vaccels)
  BY <1>1 DEF TypeOK
<1>3. /\ NoDuplicates(Remove(v, assigned[a]))
      /\ \A w : In(w, Remove(v, assigned[a])) <=> (In(w, assigned[a]) /\ w # v)
  BY <1>1, <1>2, RemoveNode
<1>4. /\ assigned'[a] = Remove(v, assigned[a])
      /\ \A b \in Accels : b # a => assigned'[b] = assigned[b]
      /\ phys'[v] = None
      /\ \A w \in Vaccels : w # v => phys'[w] = phys[w]
  BY DEF UnlinkVaccel, TypeOK
<1>5. \A b \in Accels : NoDuplicates(assigned'[b])
  BY <1>1, <1>3, <1>4
<1>6. ASSUME NEW w \in Vaccels, NEW b \in Accels PROVE In(w, assigned'[b]) <=> phys'[w] = b
  <2>1. In(w, assigned[b]) <=> phys[w] = b
    BY <1>1
  <2>2. CASE b = a
    <3>1. In(w, assigned'[b]) <=> (In(w, assigned[b]) /\ w # v)
      BY <1>3, <1>4, <2>2
    <3> QED BY <1>4, <2>1, <3>1
  <2>3. CASE b # a
    <3>1. assigned'[b] = assigned[b]
      BY <1>4, <2>3
    <3> QED BY <1>4, <2>1, <2>3, <3>1
  <2> QED BY <2>2, <2>3
<1>7. ASSUME NEW w \in Vaccels
      PROVE  /\ phys'[w] # None => w \in live
             /\ (w \in live /\ phys'[w] = None) <=> (In(w, orphans) \/ w \in G)
             /\ ~(In(w, orphans) /\ w \in G)
  <2>1. /\ phys[w] # None => w \in live
        /\ (w \in live /\ phys[w] = None) <=> (In(w, orphans) \/ w \in H)
        /\ ~(In(w, orphans) /\ w \in H)
    BY DEF OnePlace
  <2> QED BY <1>1, <1>4, <2>1
<1> QED BY <1>1, <1>2, <1>5, <1>6, <1>7 DEF OnePlaceNext

(* Applications acquire; all else that no scheduler changes moves no node, *)
(* but the balancer's pop.                                                 *)
LEMMA SharedPlace ==
  ASSUME TypeOK, NEW H, OnePlace(H),
         \/ Application \/ Terminate \/ SpuriousWakeBalancer \/ UNCHANGED vars
         \/ \E a \in Accels : WorkerLoop(a) \/ SpuriousWake(a) \/ PopCandidate(a)
  PROVE  OnePlaceNext(H) /\ bvac' = bvac
<1>1. ASSUME NEW v \in Vaccels, AcquireType(v) PROVE OnePlaceNext(H) /\ bvac' = bvac
  <2>1. /\ v \notin live /\ live' = live \cup {v} /\ orphans' = <<v>> \o orphans
        /\ UNCHANGED <<assigned, phys, bvac>>
    BY <1>1 DEF AcquireType
  <2>2. v \notin H
    BY <2>1 DEF OnePlace
  <2> QED BY <2>1, <2>2, PlaceOrphan
<1>2. ASSUME NEW v \in Vaccels, AcquirePhys(v) PROVE OnePlaceNext(H) /\ bvac' = bvac
  <2>1. /\ v \notin live /\ live' = live \cup {v} /\ UNCHANGED <<orphans, bvac>>
        /\ Acquired[v] \in Accels /\ LinkVaccel(Acquired[v], v)
    BY <1>2 DEF AcquirePhys, balancer
  <2>2. v \notin H
    BY <2>1 DEF OnePlace
  <2> QED BY <2>1, <2>2, PlaceLink
<1>3. ASSUME UNCHANGED <<live, orphans, assigned, phys, bvac>> PROVE OnePlaceNext(H) /\ bvac' = bvac
  BY <1>3, PlaceSame
<1>4. ASSUME NEW k \in Tasks, AddTaskLock(k) \/ AddTaskPush(k) \/ AddTaskSignal(k)
      PROVE  OnePlaceNext(H) /\ bvac' = bvac
  BY <1>3, <1>4 DEF AddTaskLock, AddTaskPush, AddTaskSignal, lists, balancer
<1>5. ASSUME NEW a \in Accels, WorkerLoop(a) \/ SpuriousWake(a) \/ PopCandidate(a)
      PROVE  OnePlaceNext(H) /\ bvac' = bvac
  BY <1>3, <1>5 DEF WorkerLoop, SpuriousWake, CheckStop, arax_accel_wait_for_task, updateVirtAccels,
                    NotFound, Complete, PopCandidate, lists, balancer
<1>6. CASE Terminate \/ SpuriousWakeBalancer \/ UNCHANGED vars
  BY <1>3, <1>6 DEF SpuriousWakeBalancer, Terminate, TerminateFlag, TerminateToken, vars, lists, balancer
<1> QED BY <1>1, <1>2, <1>4, <1>5, <1>6 DEF Application

(* At the start every free_vaq is in the list of its accelerator.          *)
LEMMA InitPlace == Init => OnePlace({})
<1> SUFFICES ASSUME Init PROVE OnePlace({})
  OBVIOUS
<1>1. ASSUME NEW v \in Vaccels, NEW a \in Accels PROVE In(v, assigned[a]) <=> FreeVaq[a] = v
  <2>1. DOMAIN assigned[a] = {1} /\ assigned[a][1] = FreeVaq[a]
    BY DEF Init
  <2> QED BY <2>1 DEF In
<1>2. ASSUME NEW v \in Vaccels, NEW a \in Accels PROVE FreeVaq[a] = v <=> phys[v] = a
  <2>1. CASE v \in live
    <3>1. PICK b \in Accels : FreeVaq[b] = v
      BY <2>1 DEF Init
    <3>2. phys[v] \in Accels /\ FreeVaq[phys[v]] = v
      <4>1. phys[v] = CHOOSE c \in Accels : FreeVaq[c] = v
        BY <2>1 DEF Init
      <4> QED BY <3>1, <4>1
    <3> QED BY <3>2
  <2>2. CASE v \notin live
    BY <2>2 DEF Init
  <2> QED BY <2>1, <2>2
<1>3. ASSUME NEW v \in Vaccels PROVE v \in live <=> phys[v] # None
  <2>1. v \in live <=> \E a \in Accels : FreeVaq[a] = v
    BY DEF Init
  <2>2. phys[v] \in Accels \cup {None}
    BY InitTyped DEF Typed, TypeOK
  <2> QED BY <1>2, <2>1, <2>2
<1>4. orphans = <<>>
  BY DEF Init
<1>5. NoDuplicates(orphans) /\ \A v \in Vaccels : ~In(v, orphans)
  BY <1>4 DEF NoDuplicates, In
<1>6. ASSUME NEW a \in Accels PROVE NoDuplicates(assigned[a])
  <2>1. DOMAIN assigned[a] = {1}
    BY DEF Init
  <2> QED BY <2>1 DEF NoDuplicates
<1> QED BY <1>1, <1>2, <1>3, <1>4, <1>5, <1>6 DEF OnePlace

-----------------------------------------------------------------------------
(* Steps that touch no task *)

(* Linking changes phys of the linked one only, which had none, and makes  *)
(* nobody run or stop running.                                             *)
LEMMA LinkFrame ==
  ASSUME TypeOK, NEW a \in Accels, NEW v \in Vaccels, LinkVaccel(a, v)
  PROVE  /\ phys'[v] = a
         /\ \A w \in Vaccels : w # v => phys'[w] = phys[w]
         /\ \A b \in Accels : wpc'[b] = wpc[b] \/ (wpc[b] = "sleep" /\ wpc'[b] = "wait")
BY DEF LinkVaccel, Notify, TypeOK

(* Notifying a worker can only wake it.                                    *)
LEMMA NotifyFrame ==
  ASSUME TypeOK, NEW a \in Accels, arax_accel_add_task(a)
  PROVE  \A b \in Accels : wpc'[b] = wpc[b] \/ (wpc[b] = "sleep" /\ wpc'[b] = "wait")
BY DEF arax_accel_add_task, Notify, TypeOK

(* What a step of the scheduler that moves no task does, in one formula:   *)
(* it assigns only what has no accelerator, and no worker starts or stops  *)
(* to search or to run.                                                    *)
Quiet ==
  /\ UNCHANGED <<queue, tpc, vlock, log, done, VACs, idx, rr, cur>>
  /\ live \subseteq live'
  /\ \A v \in Vaccels : phys'[v] = phys[v] \/ phys[v] = None
  /\ \A a \in Accels : \/ wpc'[a] = wpc[a]
                       \/ {wpc[a], wpc'[a]} \subseteq {"top", "wait", "sleep", "exit"}
  /\ \A a \in Accels : term'[a] = term[a] \/ term[a] # "stopped"

(* The steps that the schedulers share and that are quiet.                 *)
LEMMA QuietShared ==
  ASSUME TypeOK, NEW H, OnePlace(H),
         \/ \E v \in Vaccels : AcquireType(v) \/ AcquirePhys(v)
         \/ \E a \in Accels : CheckStop(a) \/ SpuriousWake(a)
         \/ GetOrphan \/ GetOrphanWoken \/ SpuriousWakeBalancer \/ Terminate \/ UNCHANGED vars
  PROVE  Quiet
<1> USE DEF Quiet, issuers, workers
<1>1. ASSUME NEW v \in Vaccels, AcquireType(v) PROVE Quiet
  BY <1>1 DEF AcquireType
<1>2. ASSUME NEW v \in Vaccels, AcquirePhys(v) PROVE Quiet
  <2>1. phys[v] = None
    BY <1>2 DEF AcquirePhys, OnePlace
  <2>2. Acquired[v] \in Accels
    BY <1>2 DEF AcquirePhys
  <2> QED BY <1>2, <2>1, <2>2, LinkFrame DEF AcquirePhys
<1>3. ASSUME NEW a \in Accels, CheckStop(a) \/ SpuriousWake(a) PROVE Quiet
  BY <1>3 DEF CheckStop, SpuriousWake, Goto, TypeOK
<1>4. CASE GetOrphan \/ GetOrphanWoken \/ SpuriousWakeBalancer
  BY <1>4 DEF GetOrphan, GetOrphanWoken, SpuriousWakeBalancer
<1>5. ASSUME NEW a \in Accels, TerminateFlag(a) PROVE Quiet
  BY <1>5 DEF TerminateFlag, TypeOK
<1>6. ASSUME NEW a \in Accels, TerminateToken(a) PROVE Quiet
  <2>1. term' = [term EXCEPT ![a] = "stopped"] /\ term[a] = "flag"
    BY <1>6 DEF TerminateToken
  <2> QED BY <1>6, <2>1, NotifyFrame DEF TerminateToken, TypeOK
<1>7. CASE UNCHANGED vars
  BY <1>7 DEF vars
<1> QED BY <1>1, <1>2, <1>3, <1>4, <1>5, <1>6, <1>7 DEF Terminate

(* Quiet steps, the issuers and the loop of a worker keep tasks in order.  *)
LEMMA OrderShared ==
  ASSUME Typed, OrderInv,
         \/ Quiet
         \/ \E k \in Tasks : AddTaskLock(k) \/ AddTaskPush(k) \/ AddTaskSignal(k)
         \/ \E a \in Accels :
              arax_accel_wait_for_task(a) \/ updateVirtAccels(a) \/ NotFound(a) \/ Complete(a)
  PROVE  OrderInv'
<1>1. TypeOK /\ OrderInv
  BY DEF Typed
<1>2. CASE Quiet
  <2>1. \A a \in Accels : cur[a] # None => wpc'[a] = "run"
    BY <1>1, <1>2 DEF Quiet, OrderInv, TakenInv
  <2> QED BY <1>1, <1>2, <2>1, OrderFrame DEF Quiet
<1>3. ASSUME NEW a \in Accels,
             arax_accel_wait_for_task(a) \/ updateVirtAccels(a) \/ NotFound(a)
      PROVE  OrderInv'
  <2>1. /\ UNCHANGED <<queue, vlock, tpc, log, done, cur, live, phys>>
        /\ wpc[a] # "run" /\ \A b \in Accels : b # a => wpc'[b] = wpc[b]
    BY <1>1, <1>3 DEF arax_accel_wait_for_task, updateVirtAccels, NotFound, Goto, TypeOK,
                      issuers, workers
  <2>2. \A b \in Accels : cur[b] # None => wpc'[b] = "run"
    BY <1>1, <2>1 DEF OrderInv, TakenInv
  <2> QED BY <1>1, <2>1, <2>2, OrderFrame
<1>4. ASSUME NEW a \in Accels, Complete(a) PROVE OrderInv'
  <2>1. cur[a] \in Tasks
    BY <1>1, <1>4 DEF Complete, Typed
  <2> QED BY <1>1, <1>4, <2>1, OrderComplete
<1>5. ASSUME NEW k \in Tasks, AddTaskLock(k) \/ AddTaskPush(k) \/ AddTaskSignal(k)
      PROVE  OrderInv'
  BY <1>1, <1>5, OrderLock, OrderPush, OrderSignal
<1> QED BY <1>2, <1>3, <1>4, <1>5

=============================================================================
