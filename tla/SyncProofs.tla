---------------------------- MODULE SyncProofs -----------------------------
(***************************************************************************)
(* What threads wait with: the throttle, the completions, semaphores and   *)
(* conditions of the mutex and spin builds, the completions of guests, the *)
(* spin lock around the allocator's parameters, and the locks of the       *)
(* object repository.  For any threads, objects, capacities, needs and     *)
(* numbers of calls.                                                       *)
(***************************************************************************)
EXTENDS Throttle, Async, Ivshmem, Mparams, Registry, WellFoundedInduction, TLAPS

-----------------------------------------------------------------------------
(* The throttle                                                            *)

(* The state of the throttle stays well typed: in particular size_dec      *)
(* never takes more than there is, so the unsigned counter never wraps.    *)
THEOREM ThrottleTypeCorrect == Spec => []TypeOK
<1> USE ThrottleAssumption DEF TypeOK, PC
<1>1. Init => TypeOK
  BY DEF Init
<1>2. TypeOK /\ [Next]_vars => TypeOK'
  <2> SUFFICES ASSUME TypeOK, [Next]_vars PROVE TypeOK'
    OBVIOUS
  <2>1. ASSUME NEW o \in Objects, NEW sz \in 0 .. Capacity, CallDec(o, sz)
        PROVE  TypeOK'
    BY <2>1 DEF CallDec
  <2>2. ASSUME NEW o \in Objects, TakeOrWait(o) PROVE TypeOK'
    <3>1. CASE available < size[o]
      BY <2>2, <3>1 DEF TakeOrWait
    <3>2. CASE ~ (available < size[o])
      BY <2>2, <3>2 DEF TakeOrWait
    <3> QED BY <3>1, <3>2
  <2>3. ASSUME NEW o \in Objects, SpuriousWake(o) PROVE TypeOK'
    BY <2>3 DEF SpuriousWake
  <2>4. ASSUME NEW o \in Objects, arax_throttle_size_inc(o) PROVE TypeOK'
    BY <2>4 DEF arax_throttle_size_inc, NotifyAll
  <2>5. CASE ReleaseInitial
    BY <2>5 DEF ReleaseInitial, NotifyAll
  <2>6. CASE Done \/ UNCHANGED vars
    BY <2>6 DEF Done, vars
  <2> QED BY <2>1, <2>2, <2>3, <2>4, <2>5, <2>6 DEF Next
<1> QED BY <1>1, <1>2, PTL DEF Spec

(* No owner ever sleeps in async_condition_wait while its request fits:    *)
(* every step that makes more budget available wakes every waiter, and     *)
(* every other step only makes less available.                             *)
THEOREM ThrottleNoLostWakeup == Spec => []NoLostWakeup
<1> USE ThrottleAssumption DEF TypeOK, NoLostWakeup, PC
<1>1. Init => NoLostWakeup
  BY DEF Init
<1>2. TypeOK /\ NoLostWakeup /\ [Next]_vars => NoLostWakeup'
  <2> SUFFICES ASSUME TypeOK, NoLostWakeup, [Next]_vars PROVE NoLostWakeup'
    OBVIOUS
  <2>1. ASSUME NEW o \in Objects, NEW sz \in 0 .. Capacity, CallDec(o, sz)
        PROVE  NoLostWakeup'
    BY <2>1 DEF CallDec
  <2>2. ASSUME NEW o \in Objects, TakeOrWait(o) PROVE NoLostWakeup'
    <3>1. CASE available < size[o]
      BY <2>2, <3>1 DEF TakeOrWait
    <3>2. CASE ~ (available < size[o])
      BY <2>2, <3>2 DEF TakeOrWait
    <3> QED BY <3>1, <3>2
  <2>3. ASSUME NEW o \in Objects, SpuriousWake(o) PROVE NoLostWakeup'
    BY <2>3 DEF SpuriousWake
  <2>4. ASSUME NEW o \in Objects, arax_throttle_size_inc(o) PROVE NoLostWakeup'
    BY <2>4 DEF arax_throttle_size_inc, NotifyAll
  <2>5. CASE ReleaseInitial
    BY <2>5 DEF ReleaseInitial, NotifyAll
  <2>6. CASE Done \/ UNCHANGED vars
    BY <2>6 DEF Done, vars
  <2> QED BY <2>1, <2>2, <2>3, <2>4, <2>5, <2>6 DEF Next
<1> QED BY <1>1, <1>2, ThrottleTypeCorrect, PTL DEF Spec

-----------------------------------------------------------------------------
(* The locks of the object repository                                      *)

LEMMA SeqOfItself ==
  ASSUME NEW s, IsSeq(s), NEW S, \A i \in 1 .. Len(s) : s[i] \in S
  PROVE  s \in Seq(S)
<1>1. [i \in 1 .. Len(s) |-> s[i]] \in Seq(S)
  BY DEF IsSeq
<1> QED BY <1>1 DEF IsSeq

LEMMA SeqIsSeq ==
  ASSUME NEW S, NEW s \in Seq(S)
  PROVE  IsSeq(s)
BY DEF IsSeq

(* A function on 1 .. n is a sequence.                                     *)
LEMMA TableIsSeq ==
  ASSUME NEW n \in Nat, NEW f, f = [i \in 1 .. n |-> f[i]]
  PROVE  IsSeq(f) /\ Len(f) = n
<1> DEFINE S == {f[i] : i \in 1 .. n}
<1>1. \A i \in 1 .. n : f[i] \in S
  OBVIOUS
<1> HIDE DEF S
<1>2. f \in Seq(S)
  <2>1. [i \in 1 .. n |-> f[i]] \in Seq(S)
    BY <1>1
  <2> QED BY <2>1
<1>3. Len(f) \in Nat /\ DOMAIN f = 1 .. Len(f) /\ DOMAIN f = 1 .. n
  BY <1>2
<1>4. Len(f) = n
  BY <1>3
<1> QED BY <1>2, <1>4, SeqIsSeq

LEMMA ConcatIsSeq ==
  ASSUME NEW r, NEW s, IsSeq(r), IsSeq(s)
  PROVE  /\ IsSeq(r \o s) /\ Len(r \o s) = Len(r) + Len(s)
         /\ \A i \in 1 .. Len(r) + Len(s) :
              (r \o s)[i] = IF i <= Len(r) THEN r[i] ELSE s[i - Len(r)]
<1> DEFINE S == {r[i] : i \in 1 .. Len(r)} \cup {s[i] : i \in 1 .. Len(s)}
<1>1. (\A i \in 1 .. Len(r) : r[i] \in S) /\ (\A i \in 1 .. Len(s) : s[i] \in S)
  OBVIOUS
<1> HIDE DEF S
<1>2. r \in Seq(S) /\ s \in Seq(S)
  BY <1>1, SeqOfItself
<1>3. r \o s \in Seq(S)
  BY <1>2
<1>4. Len(r \o s) = Len(r) + Len(s)
  BY <1>2
<1>5. \A i \in 1 .. Len(r) + Len(s) :
              (r \o s)[i] = IF i <= Len(r) THEN r[i] ELSE s[i - Len(r)]
  BY <1>2
<1> QED BY <1>3, <1>4, <1>5, SeqIsSeq

LEMMA SubSeqIsSeq ==
  ASSUME NEW s, IsSeq(s), NEW a \in Nat, NEW b \in Nat, 0 < a, b <= Len(s)
  PROVE  /\ IsSeq(SubSeq(s, a, b)) /\ Len(SubSeq(s, a, b)) = IF a <= b + 1 THEN b - a + 1 ELSE 0
         /\ \A i \in 1 .. Len(SubSeq(s, a, b)) : SubSeq(s, a, b)[i] = s[a + i - 1]
<1> DEFINE S == {s[i] : i \in 1 .. Len(s)}
<1>1. \A i \in 1 .. Len(s) : s[i] \in S
  OBVIOUS
<1> HIDE DEF S
<1>2. s \in Seq(S) /\ Len(s) \in Nat
  BY <1>1, SeqOfItself DEF IsSeq
<1>3. SubSeq(s, a, b) \in Seq(S)
  BY <1>2
<1>4. Len(SubSeq(s, a, b)) = IF a <= b + 1 THEN b - a + 1 ELSE 0
  BY <1>2
<1>5. \A i \in 1 .. Len(SubSeq(s, a, b)) : SubSeq(s, a, b)[i] = s[a + i - 1]
  BY <1>2, <1>4
<1> QED BY <1>3, <1>4, <1>5, SeqIsSeq

(* What is left of a list without an object was there.                     *)
LEMMA WithoutIsSeq ==
  ASSUME NEW s, IsSeq(s), NEW o
  PROVE  /\ IsSeq(Without(s, o))
         /\ \A i \in 1 .. Len(Without(s, o)) : \E j \in 1 .. Len(s) : Without(s, o)[i] = s[j]
<1>1. CASE ~ \E i \in 1 .. Len(s) : s[i] = o
  BY <1>1 DEF Without, RemoveFirst
<1>2. CASE \E i \in 1 .. Len(s) : s[i] = o
  <2> DEFINE I == {i \in 1 .. Len(s) : s[i] = o}
  <2>1. Len(s) \in Nat /\ I # {} /\ I \in SUBSET Nat
    BY <1>2 DEF IsSeq
  <2>2. Min(I) \in I
    <3> HIDE DEF I
    <3>1. PICK x \in I : \A y \in I : ~(<<y, x>> \in OpToRel(<, Nat))
      BY <2>1, NatLessThanWellFounded, WFMin
    <3>2. \A y \in I : x <= y
      <4>1. ASSUME NEW y \in I, y < x PROVE FALSE
        BY <2>1, <3>1, <4>1 DEF OpToRel
      <4> QED BY <2>1, <4>1
    <3> QED BY <3>2 DEF Min
  <2>3. PICK m : m = Min(I)
    OBVIOUS
  <2> DEFINE a == SubSeq(s, 1, m - 1)
             b == SubSeq(s, m + 1, Len(s))
  <2>4. Without(s, o) = a \o b
    BY <1>2, <2>1, <2>3 DEF Without, RemoveFirst, RemoveAt, SelectInSeq
  <2>5. m \in 1 .. Len(s)
    BY <2>2, <2>3
  <2>6. /\ IsSeq(a) /\ IsSeq(b) /\ \A i \in 1 .. Len(a) : a[i] = s[1 + i - 1]
        /\ \A i \in 1 .. Len(b) : b[i] = s[(m + 1) + i - 1]
        /\ Len(a) = m - 1 /\ Len(b) = Len(s) - m
    <3>1. m - 1 \in Nat /\ m + 1 \in Nat /\ m - 1 <= Len(s) /\ Len(s) \in Nat /\ 1 <= m - 1 + 1
          /\ m + 1 <= Len(s) + 1 /\ Len(s) - (m + 1) + 1 = Len(s) - m /\ m - 1 - 1 + 1 = m - 1
          /\ 0 < m + 1
      BY <2>1, <2>5
    <3>2. /\ IsSeq(a) /\ Len(a) = m - 1
          /\ \A i \in 1 .. Len(a) : a[i] = s[1 + i - 1]
      BY <3>1, SubSeqIsSeq
    <3>3. /\ IsSeq(b) /\ Len(b) = Len(s) - m
          /\ \A i \in 1 .. Len(b) : b[i] = s[(m + 1) + i - 1]
      BY <3>1, SubSeqIsSeq, SMTT(30)
    <3> QED BY <3>2, <3>3
  <2> HIDE DEF a, b
  <2>7. /\ IsSeq(a \o b) /\ Len(a \o b) = Len(a) + Len(b)
        /\ \A i \in 1 .. Len(a) + Len(b) :
             (a \o b)[i] = IF i <= Len(a) THEN a[i] ELSE b[i - Len(a)]
    BY <2>6, ConcatIsSeq
  <2>8. ASSUME NEW i \in 1 .. Len(a \o b) PROVE \E j \in 1 .. Len(s) : (a \o b)[i] = s[j]
    <3>1. CASE i <= Len(a)
      <4>1. (a \o b)[i] = s[i] /\ i \in 1 .. Len(s)
        BY <2>1, <2>5, <2>6, <2>7, <3>1
      <4> QED BY <4>1
    <3>2. CASE ~(i <= Len(a))
      <4>1. (a \o b)[i] = s[i + 1] /\ i + 1 \in 1 .. Len(s)
        BY <2>1, <2>5, <2>6, <2>7, <3>2
      <4> QED BY <4>1
    <3> QED BY <3>1, <3>2
  <2> QED BY <2>4, <2>7, <2>8
<1> QED BY <1>1, <1>2

(* Operations in place of the first.                                       *)
LEMMA Pushed ==
  ASSUME NEW s, IsSeq(s), Len(s) > 0, NEW ops, IsSeq(ops)
  PROVE  LET r == ops \o Tail(s)
         IN  /\ IsSeq(r) /\ Len(r) = Len(ops) + Len(s) - 1
             /\ \A i \in 1 .. Len(r) : r[i] = IF i <= Len(ops) THEN ops[i] ELSE s[i - Len(ops) + 1]
<1> DEFINE S == {s[i] : i \in 1 .. Len(s)}
<1>1. \A i \in 1 .. Len(s) : s[i] \in S
  OBVIOUS
<1> HIDE DEF S
<1>2. s \in Seq(S) /\ Len(s) \in Nat /\ Len(ops) \in Nat
  BY <1>1, SeqOfItself DEF IsSeq
<1>3. Tail(s) \in Seq(S) /\ Len(Tail(s)) = Len(s) - 1 /\ \A i \in 1 .. Len(s) - 1 : Tail(s)[i] = s[i + 1]
  BY <1>2
<1>4. IsSeq(Tail(s))
  BY <1>3, SeqIsSeq
<1> DEFINE r == ops \o Tail(s)
<1>5. /\ IsSeq(r) /\ Len(r) = Len(ops) + Len(Tail(s))
      /\ \A i \in 1 .. Len(ops) + Len(Tail(s)) :
           r[i] = IF i <= Len(ops) THEN ops[i] ELSE Tail(s)[i - Len(ops)]
  BY <1>4, ConcatIsSeq
<1> HIDE DEF r
<1>6. ASSUME NEW i \in 1 .. Len(r), ~(i <= Len(ops)) PROVE r[i] = s[i - Len(ops) + 1]
  <2>1. i - Len(ops) \in 1 .. Len(s) - 1
    BY <1>2, <1>3, <1>5, <1>6
  <2> QED BY <1>2, <1>3, <1>5, <1>6, <2>1
<1>7. ASSUME NEW i \in 1 .. Len(r), i <= Len(ops) PROVE r[i] = ops[i]
  BY <1>2, <1>3, <1>5, <1>7
<1>8. Len(r) = Len(ops) + Len(s) - 1
  BY <1>2, <1>3, <1>5
<1> QED BY <1>5, <1>6, <1>7, <1>8 DEF r

LEMMA LastStays ==
  ASSUME NEW k \in Nat, NEW n \in Nat, n # 1, n > 0, NEW m, m = k + n - 1
  PROVE  m \in 1 .. m /\ ~(m <= k) /\ m - k + 1 = n
OBVIOUS

LEMMA FirstBelow ==
  ASSUME NEW n \in Nat, n # 1, n > 0
  PROVE  1 \in 1 .. n - 1 /\ n \in 1 .. n
OBVIOUS

LEMMA VaqCases ==
  ASSUME NEW t, Vaq(t), Len(rtodo[t]) > 1
  PROVE  \/ Len(rtodo[t]) = 2 /\ Adds(rtodo[t][1], "VIRT")
         \/ Len(rtodo[t]) = 3 /\ Adds(rtodo[t][1], "PHYS") /\ Adds(rtodo[t][2], "VIRT")
BY DEF Vaq

(* A thread that replaces its first operation by ones that may run with    *)
(* the locks it has keeps them, and gives them up in the end.              *)
LEMMA StackStep ==
  ASSUME RegTyped, NEW t \in RegThreads, StackOK(t), Len(rtodo[t]) > 0, NEW ops, IsSeq(ops),
         RThen(t, ops), array'[t] = array[t],
         rtodo[t][1][1] \notin {"vaq", "list", "fill"},
         \A i \in 1 .. Len(ops) :
           /\ ops[i][1] \notin {"vaq", "list", "fill"} /\ (ops[i][1] = "unlink" => i = 1)
           /\ ops[i][1] = "add" => ops[i][2] \in RegTypes,
         \A ty \in RegTypes : Under(rtodo[t][1], ty) => \A i \in 1 .. Len(ops) : Under(ops[i], ty),
         Len(rtodo[t]) > 1 /\ Vaq(t) =>
           /\ Len(ops) = 0
           /\ Len(rtodo[t]) = 2 => Len(held'[t]) > 0 /\ TypeOf(held'[t][Len(held'[t])]) = "VIRT"
  PROVE  /\ StackOK(t)'
         /\ \A ty \in RegTypes :
              (rtodo[t][1][1] # "unlink" \/ TypeOf(rtodo[t][1][2]) # ty) /\ Holds(t, ty) => Holds(t, ty)'
<1>1. PICK s : s = rtodo[t]
  OBVIOUS
<1>2. PICK r : r = rtodo'[t]
  OBVIOUS
<1>3. r = ops \o Tail(s)
  BY <1>1, <1>2 DEF RThen, RegTyped
<1>4. IsSeq(s) /\ Len(s) \in Nat /\ Len(ops) \in Nat
  BY <1>1 DEF StackOK, IsSeq
<1>5. /\ IsSeq(r) /\ Len(r) = Len(ops) + Len(s) - 1
      /\ \A i \in 1 .. Len(r) : r[i] = IF i <= Len(ops) THEN ops[i] ELSE s[i - Len(ops) + 1]
  BY <1>1, <1>3, <1>4, Pushed
<1>6. ASSUME NEW i \in 1 .. Len(r), ~(i <= Len(ops))
      PROVE  i - Len(ops) + 1 \in 2 .. Len(s) /\ r[i] = s[i - Len(ops) + 1]
             /\ (i - Len(ops) + 1 = Len(s) <=> i = Len(r))
  BY <1>4, <1>5, <1>6
<1>7. ASSUME NEW i \in 1 .. Len(r), i <= Len(ops) PROVE r[i] = ops[i] /\ i \in 1 .. Len(ops)
  BY <1>4, <1>5, <1>7
<1>8. ASSUME NEW i \in 1 .. Len(r), r[i][1] = "unlink" PROVE i = 1
  <2>1. CASE i <= Len(ops)
    BY <1>7, <1>8, <2>1
  <2>2. CASE ~(i <= Len(ops))
    <3>1. PICK j : j = i - Len(ops) + 1
      OBVIOUS
    <3>2. j \in 1 .. Len(s) /\ s[j][1] = "unlink" /\ j # 1
      BY <1>4, <1>6, <1>8, <2>2, <3>1
    <3> QED BY <1>1, <3>2 DEF StackOK
  <2> QED BY <2>1, <2>2
<1>9. ASSUME NEW i \in 1 .. Len(r), r[i][1] = "vaq" PROVE i = Len(r) /\ Vaq(t)'
  <2>1. ~(i <= Len(ops))
    BY <1>7, <1>9
  <2>2. PICK j : j = i - Len(ops) + 1
    OBVIOUS
  <2>3. j \in 2 .. Len(s) /\ s[j][1] = "vaq" /\ (j = Len(s) <=> i = Len(r))
    BY <1>6, <1>9, <2>1, <2>2
  <2>4. j \in 1 .. Len(s)
    BY <1>4, <2>3
  <2>5. j = Len(s) /\ Vaq(t)
    BY <1>1, <2>3, <2>4 DEF StackOK
  <2>6. Len(ops) = 0 /\ Len(s) > 1 /\ Len(r) = Len(s) - 1
    BY <1>1, <1>4, <1>5, <2>3, <2>5
  <2>7. CASE Len(s) = 2
    <3>1. Len(r) = 1
      BY <2>6, <2>7
    <3> QED BY <1>1, <1>2, <2>3, <2>5, <2>6, <2>7, <3>1 DEF Vaq
  <2>8. CASE Len(s) = 3 /\ Adds(s[2], "VIRT")
    <3>1. Len(r) = 2 /\ r[1] = s[2]
      BY <1>5, <2>6, <2>8
    <3> QED BY <1>1, <1>2, <2>3, <2>5, <2>8, <3>1 DEF Vaq
  <2>9. Len(s) = 2 \/ (Len(s) = 3 /\ Adds(s[2], "VIRT"))
    BY <1>1, <2>5, <2>6, VaqCases
  <2> QED BY <2>3, <2>5, <2>7, <2>8, <2>9
<1>10. ASSUME NEW i \in 1 .. Len(r) PROVE r[i][1] # "list"
  <2>1. CASE i <= Len(ops)
    BY <1>7, <2>1
  <2>2. CASE ~(i <= Len(ops))
    <3>1. PICK j : j = i - Len(ops) + 1
      OBVIOUS
    <3>2. j \in 2 .. Len(s) /\ r[i] = s[j]
      BY <1>6, <2>2, <3>1
    <3>3. j \in 1 .. Len(s) /\ Len(s) # 1
      BY <1>4, <3>2
    <3> QED BY <1>1, <3>2, <3>3 DEF StackOK
  <2> QED BY <2>1, <2>2
<1>11. ASSUME NEW i \in 1 .. Len(r), r[i][1] = "fill"
       PROVE  /\ i = Len(r) /\ r[i][2] \in {"PHYS", "VIRT"}
              /\ \A j \in 1 .. i - 1 : Under(r[j], r[i][2])
  <2>1. ~(i <= Len(ops))
    BY <1>7, <1>11
  <2>2. PICK q : q = i - Len(ops) + 1
    OBVIOUS
  <2>3. q \in 2 .. Len(s) /\ r[i] = s[q] /\ (q = Len(s) <=> i = Len(r))
    BY <1>6, <2>1, <2>2
  <2>4. q \in 1 .. Len(s) /\ 1 \in 1 .. q - 1
    BY <1>4, <2>3
  <2>5. q = Len(s) /\ r[i][2] \in {"PHYS", "VIRT"} /\ \A j \in 1 .. q - 1 : Under(s[j], r[i][2])
    BY <1>1, <1>11, <2>3, <2>4 DEF StackOK
  <2>6. r[i][2] \in RegTypes
    BY <2>5 DEF RegTypes
  <2>7. ASSUME NEW j \in 1 .. i - 1 PROVE Under(r[j], r[i][2])
    <3>1. j \in 1 .. Len(r)
      BY <1>4, <1>5
    <3>2. CASE j <= Len(ops)
      BY <1>1, <1>7, <2>4, <2>5, <2>6, <3>1, <3>2
    <3>3. CASE ~(j <= Len(ops))
      <4>1. PICK x : x = j - Len(ops) + 1
        OBVIOUS
      <4>2. r[j] = s[x] /\ x \in 1 .. q - 1
        BY <1>4, <1>6, <2>2, <2>7, <3>1, <3>3, <4>1
      <4> QED BY <2>5, <4>2
    <3> QED BY <3>2, <3>3
  <2> QED BY <2>3, <2>5, <2>7
<1>14. ASSUME NEW i \in 1 .. Len(r), r[i][1] = "add" PROVE r[i][2] \in RegTypes
  <2>1. CASE i <= Len(ops)
    BY <1>7, <1>14, <2>1
  <2>2. CASE ~(i <= Len(ops))
    <3>1. PICK j : j = i - Len(ops) + 1
      OBVIOUS
    <3>2. j \in 2 .. Len(s) /\ r[i] = s[j]
      BY <1>6, <2>2, <3>1
    <3>3. j \in 1 .. Len(s)
      BY <1>4, <3>2
    <3> QED BY <1>1, <1>14, <3>2, <3>3 DEF StackOK
  <2> QED BY <2>1, <2>2
<1>12. StackOK(t)'
  BY <1>2, <1>5, <1>8, <1>9, <1>10, <1>11, <1>14 DEF StackOK
<1>13. ASSUME NEW ty \in RegTypes, Holds(t, ty),
              rtodo[t][1][1] # "unlink" \/ TypeOf(rtodo[t][1][2]) # ty
       PROVE  Holds(t, ty)'
  <2>1. s[Len(s)][1] = "fill" /\ s[Len(s)][2] = ty
    BY <1>1, <1>13 DEF Holds
  <2>2. Len(s) # 1 /\ Len(s) > 0
    BY <1>1, <2>1
  <2>3. Len(r) > 0 /\ r[Len(r)] = s[Len(s)]
    <3>1. Len(r) \in 1 .. Len(r) /\ ~(Len(r) <= Len(ops)) /\ Len(r) - Len(ops) + 1 = Len(s)
      <4>1. Len(r) = Len(ops) + Len(s) - 1
        BY <1>5
      <4> QED BY <1>4, <2>2, <4>1, LastStays
    <3> QED BY <1>5, <3>1
  <2> QED BY <1>2, <2>1, <2>3 DEF Holds
<1> QED BY <1>12, <1>13

(* What a step of another thread leaves as it is.                          *)
LEMMA OtherThread ==
  ASSUME NEW u, rtodo'[u] = rtodo[u], held'[u] = held[u], array'[u] = array[u]
  PROVE  (StackOK(u) => StackOK(u)') /\ \A ty : Holds(u, ty) => Holds(u, ty)'
<1>1. Vaq(u) => Vaq(u)'
  BY DEF Vaq
<1> QED BY <1>1 DEF StackOK, Holds

LEMMA OneThread ==
  ASSUME RegInv, NEW t \in RegThreads, RegTyped', StackOK(t)',
         \A u \in RegThreads \ {t} :
           rtodo'[u] = rtodo[u] /\ held'[u] = held[u] /\ array'[u] = array[u],
         \A ty \in RegTypes :
           \/ rlock'[ty] = Null
           \/ rlock'[ty] = t /\ Holds(t, ty)'
           \/ rlock'[ty] = rlock[ty] /\ (Holds(t, ty) => Holds(t, ty)')
  PROVE  RegInv'
<1>1. \A u \in RegThreads : StackOK(u)'
  BY OtherThread DEF RegInv
<1>2. ASSUME NEW ty \in RegTypes, rlock'[ty] # Null
      PROVE  rlock'[ty] \in RegThreads /\ Holds(rlock[ty], ty)'
  <2>1. CASE rlock'[ty] = t
    <3>1. Holds(t, ty)'
      BY <1>2, <2>1 DEF RegInv, LocksOK
    <3> QED BY <2>1, <3>1 DEF Holds
  <2>2. CASE rlock'[ty] # t
    <3>1. PICK u : u = rlock[ty]
      OBVIOUS
    <3>2. u = rlock'[ty] /\ u \in RegThreads \ {t} /\ Holds(u, ty)
      BY <1>2, <2>2, <3>1 DEF RegInv, LocksOK
    <3>3. Holds(u, ty)'
      BY <3>2, OtherThread
    <3> QED BY <3>2, <3>3 DEF Holds
  <2> QED BY <2>1, <2>2
<1> QED BY <1>1, <1>2 DEF RegInv, LocksOK

LEMMA HeadIs ==
  ASSUME NEW t, StackOK(t), NEW op, RDoing(t, op)
  PROVE  /\ Len(rtodo[t]) > 0 /\ Len(rtodo[t]) \in Nat /\ rtodo[t][1] = Head(rtodo[t])
         /\ rtodo[t][1][1] = op /\ rtodo[t][1][2] = RArg(t)
<1> DEFINE s == rtodo[t]
           S == {s[i] : i \in 1 .. Len(s)}
<1>1. IsSeq(s) /\ s # <<>> /\ Head(s)[1] = op /\ Head(s)[2] = RArg(t)
  BY DEF StackOK, RDoing, RArg
<1>2. \A i \in 1 .. Len(s) : s[i] \in S
  OBVIOUS
<1> HIDE DEF S, s
<1>3. s \in Seq(S)
  BY <1>1, <1>2, SeqOfItself
<1>4. Len(s) \in Nat /\ Len(s) > 0 /\ Head(s) = s[1]
  BY <1>1, <1>3
<1> QED BY <1>1, <1>4 DEF s

(* A thread that keeps the locks it has.                                   *)
LEMMA KeepsLocks ==
  ASSUME RegInv, RegTyped', NEW t \in RegThreads, NEW op, RDoing(t, op), NEW ops, IsSeq(ops),
         RThen(t, ops), array' = array, rlock' = rlock,
         \A u \in RegThreads \ {t} : held'[u] = held[u],
         op \notin {"vaq", "list", "fill", "unlink"},
         \A i \in 1 .. Len(ops) : /\ ops[i][1] \notin {"vaq", "list", "fill", "unlink"}
                                  /\ ops[i][1] = "add" => ops[i][2] \in RegTypes,
         \A ty \in RegTypes : Under(rtodo[t][1], ty) => \A i \in 1 .. Len(ops) : Under(ops[i], ty),
         op = "add" /\ Len(rtodo[t]) > 1 /\ Vaq(t) =>
           /\ Len(ops) = 0
           /\ Len(rtodo[t]) = 2 => Len(held'[t]) > 0 /\ TypeOf(held'[t][Len(held'[t])]) = "VIRT"
  PROVE  RegInv'
<1>1. RegTyped /\ StackOK(t)
  BY DEF RegInv
<1>2. Len(rtodo[t]) > 0 /\ rtodo[t][1][1] = op
  BY <1>1, HeadIs
<1>3. Len(rtodo[t]) > 1 /\ Vaq(t) => op = "add"
  BY <1>2, VaqCases DEF Adds
<1>4. /\ StackOK(t)'
      /\ \A ty \in RegTypes : rtodo[t][1][1] # "unlink" /\ Holds(t, ty) => Holds(t, ty)'
  BY <1>1, <1>2, <1>3, StackStep
<1>5. \A u \in RegThreads \ {t} : rtodo'[u] = rtodo[u] /\ held'[u] = held[u] /\ array'[u] = array[u]
  BY <1>1 DEF RThen, RegTyped
<1> QED BY <1>2, <1>4, <1>5, OneThread

LEMMA ShortSeqs ==
  /\ IsSeq(<<>>) /\ Len(<<>>) = 0
  /\ \A x : IsSeq(<<x>>) /\ Len(<<x>>) = 1 /\ <<x>>[1] = x
  /\ \A x, y : IsSeq(<<x, y>>) /\ Len(<<x, y>>) = 2 /\ <<x, y>>[1] = x /\ <<x, y>>[2] = y
  /\ \A x, y, z : /\ IsSeq(<<x, y, z>>) /\ Len(<<x, y, z>>) = 3
                  /\ <<x, y, z>>[1] = x /\ <<x, y, z>>[2] = y /\ <<x, y, z>>[3] = z
<1>1. IsSeq(<<>>) /\ Len(<<>>) = 0
  BY DEF IsSeq
<1>2. ASSUME NEW x PROVE IsSeq(<<x>>) /\ Len(<<x>>) = 1 /\ <<x>>[1] = x
  <2>1. <<x>> \in Seq({x})
    OBVIOUS
  <2> QED BY <2>1, SeqIsSeq
<1>3. ASSUME NEW x, NEW y
      PROVE  IsSeq(<<x, y>>) /\ Len(<<x, y>>) = 2 /\ <<x, y>>[1] = x /\ <<x, y>>[2] = y
  <2>1. <<x, y>> \in Seq({x, y})
    OBVIOUS
  <2> QED BY <2>1, SeqIsSeq
<1>4. ASSUME NEW x, NEW y, NEW z
      PROVE  /\ IsSeq(<<x, y, z>>) /\ Len(<<x, y, z>>) = 3
             /\ <<x, y, z>>[1] = x /\ <<x, y, z>>[2] = y /\ <<x, y, z>>[3] = z
  <2>1. <<x, y, z>> \in Seq({x, y, z})
    OBVIOUS
  <2> QED BY <2>1, SeqIsSeq
<1> QED BY <1>1, <1>2, <1>3, <1>4

LEMMA AppendIsSeq ==
  ASSUME NEW s, IsSeq(s), NEW x
  PROVE  /\ IsSeq(Append(s, x)) /\ Len(Append(s, x)) = Len(s) + 1 /\ Len(s) \in Nat
         /\ Append(s, x)[Len(s) + 1] = x
<1> DEFINE S == {s[i] : i \in 1 .. Len(s)} \cup {x}
<1>1. (\A i \in 1 .. Len(s) : s[i] \in S) /\ x \in S
  OBVIOUS
<1> HIDE DEF S
<1>2. s \in Seq(S)
  BY <1>1, SeqOfItself
<1>3. Append(s, x) \in Seq(S) /\ Len(Append(s, x)) = Len(s) + 1 /\ Append(s, x)[Len(s) + 1] = x
  BY <1>1, <1>2
<1>4. IsSeq(Append(s, x))
  BY <1>3, SeqIsSeq
<1> QED BY <1>3, <1>4 DEF IsSeq

(* A step that changes no more of this than what the thread is to do.      *)
LEMMA TypedFrame ==
  ASSUME RegTyped, NEW t, NEW ops, RThen(t, ops)
  PROVE  /\ rtodo' = [u \in RegThreads |-> rtodo'[u]]
         /\ UNCHANGED list => ListsTyped'
         /\ UNCHANGED free_vaq => VaqsTyped'
         /\ UNCHANGED held => HeldTyped'
         /\ UNCHANGED array => ArraysTyped'
         /\ UNCHANGED rlock => rlock' = [ty \in RegTypes |-> rlock'[ty]]
BY DEF RegTyped, RThen, ListsTyped, VaqsTyped, HeldTyped, ArraysTyped

(* An operation that needs no lock, or has given it up when it ends, and   *)
(* is followed by none, or by one that is no better or worse.              *)
LEMMA PlainStep ==
  ASSUME RegInv, NEW t \in RegThreads,
         \/ ClearMemory(t) \/ arax_proc_register(t) \/ arax_proc_set_functor(t) \/ arax_proc_get(t)
         \/ arax_pipe_delete_accel(t) \/ FreeObject(t)
  PROVE  RegInv'
<1> DEFINE New(x) == x[1] \in {"inc", "dec"} \/ (x[1] = "add" /\ x[2] \in RegTypes)
<1>1. /\ UNCHANGED <<list, free_vaq, held, array, rlock>>
      /\ \/ \E op \in {"clear", "register", "functor", "get", "delete"} :
              RDoing(t, op) /\ (RThen(t, <<>>) \/ \E x : RThen(t, <<x>>) /\ New(x))
         \/ RDoing(t, "free") /\ RThen(t, <<>>)
  <2>1. CASE ClearMemory(t)
    BY <2>1 DEF ClearMemory
  <2>2. CASE arax_proc_register(t)
    BY <2>2 DEF arax_proc_register, body, RegTypes
  <2>3. CASE arax_proc_set_functor(t)
    BY <2>3 DEF arax_proc_set_functor
  <2>4. CASE arax_proc_get(t)
    BY <2>4 DEF arax_proc_get, body
  <2>5. CASE arax_pipe_delete_accel(t)
    BY <2>5 DEF arax_pipe_delete_accel, body
  <2>6. CASE FreeObject(t)
    BY <2>6 DEF FreeObject, body
  <2> QED BY <2>1, <2>2, <2>3, <2>4, <2>5, <2>6
<1>2. PICK op \in {"clear", "register", "functor", "get", "delete", "free"} : 
        RDoing(t, op) /\ (RThen(t, <<>>) \/ \E x : op # "free" /\ RThen(t, <<x>>) /\ New(x))
  BY <1>1
<1>3. \A u \in RegThreads \ {t} : held'[u] = held[u]
  BY <1>1
<1>4. RegTyped /\ StackOK(t)
  BY DEF RegInv
<1>5. rtodo[t][1][1] = op
  BY <1>2, <1>4, HeadIs
<1>6. CASE RThen(t, <<>>)
  <2>1. RegTyped'
    BY <1>1, <1>4, <1>6, TypedFrame DEF RegTyped
  <2>2. \A i \in 1 .. Len(<<>>) : FALSE
    BY ShortSeqs
  <2> QED BY <1>1, <1>2, <1>3, <1>6, <2>1, <2>2, KeepsLocks, ShortSeqs
<1>7. ASSUME NEW x, op # "free", RThen(t, <<x>>), New(x) PROVE RegInv'
  <2>1. RegTyped'
    BY <1>1, <1>4, <1>7, TypedFrame DEF RegTyped
  <2>2. \A i \in 1 .. Len(<<x>>) : New(<<x>>[i])
    BY <1>7, ShortSeqs
  <2>3. \A ty \in RegTypes : ~Under(rtodo[t][1], ty)
    BY <1>2, <1>5, <1>7 DEF Under
  <2> QED BY <1>1, <1>2, <1>3, <1>7, <2>1, <2>2, <2>3, KeepsLocks, ShortSeqs
<1> QED BY <1>2, <1>6, <1>7

LEMMA IncStep ==
  ASSUME RegInv, NEW t \in RegThreads, RepoRefInc(t)
  PROVE  RegInv'
<1>1. /\ UNCHANGED <<list, free_vaq, array, rlock>> /\ RDoing(t, "inc") /\ RThen(t, <<>>)
      /\ held' = [held EXCEPT ![t] = Append(@, RArg(t))]
  BY DEF RepoRefInc, body
<1>2. RegTyped /\ StackOK(t) /\ HeldTyped
  BY DEF RegInv, RegTyped
<1>3. HeldTyped'
  BY <1>1, <1>2, AppendIsSeq DEF HeldTyped
<1>4. RegTyped'
  BY <1>1, <1>2, <1>3, TypedFrame DEF RegTyped
<1>5. \A u \in RegThreads \ {t} : held'[u] = held[u]
  BY <1>1, <1>2 DEF HeldTyped
<1>6. \A i \in 1 .. Len(<<>>) : FALSE
  BY ShortSeqs
<1> QED BY <1>1, <1>4, <1>5, <1>6, KeepsLocks, ShortSeqs

(* A new object is of the type that was asked for.                         *)
LEMMA AddStep ==
  ASSUME RegAssumption, RegInv, NEW t \in RegThreads, arax_object_register(t)
  PROVE  RegInv'
<1>1. PICK o \in RegObjects \ alive :
        /\ TypeOf(o) = RArg(t)
        /\ list' = [list EXCEPT ![RArg(t)] = <<o>> \o @]
        /\ held' = [held EXCEPT ![t] = Append(@, o)]
        /\ IF o \in ProcObjs THEN RThen(t, <<<<"clear", o>>>>) ELSE RThen(t, <<>>)
  BY DEF arax_object_register
<1>2. UNCHANGED <<rlock, free_vaq, array>> /\ RDoing(t, "add")
  BY DEF arax_object_register
<1>3. RegTyped /\ StackOK(t) /\ HeldTyped /\ ListsTyped
  BY DEF RegInv, RegTyped
<1>4. HeldTyped'
  BY <1>1, <1>3, AppendIsSeq DEF HeldTyped
<1>5. ListsTyped'
  <2>1. PICK ty \in RegTypes : ty = RArg(t)
    BY <1>1 DEF TypeOf, RegTypes
  <2>2. PICK s : s = list[ty]
    OBVIOUS
  <2>3. IsSeq(s) /\ Len(s) \in Nat /\ \A i \in 1 .. Len(s) : TypeOf(s[i]) = ty
    BY <1>3, <2>2 DEF ListsTyped, IsSeq
  <2>4. PICK r : r = <<o>> \o s
    OBVIOUS
  <2>5. /\ IsSeq(r) /\ Len(r) = 1 + Len(s)
        /\ \A i \in 1 .. 1 + Len(s) : r[i] = IF i <= 1 THEN <<o>>[i] ELSE s[i - 1]
    BY <2>3, <2>4, ConcatIsSeq, ShortSeqs
  <2>6. ASSUME NEW i \in 1 .. Len(r) PROVE TypeOf(r[i]) = ty
    <3>1. CASE i = 1
      <4>1. r[1] = o
        BY <2>3, <2>5, <3>1, ShortSeqs
      <4> QED BY <1>1, <2>1, <3>1, <4>1
    <3>2. CASE i # 1
      <4>1. i - 1 \in 1 .. Len(s) /\ r[i] = s[i - 1]
        BY <2>3, <2>5, <3>2
      <4> QED BY <2>3, <4>1
    <3> QED BY <3>1, <3>2
  <2>7. list' = [list EXCEPT ![ty] = r]
    BY <1>1, <1>3, <2>1, <2>2, <2>4 DEF ListsTyped
  <2> QED BY <1>3, <2>5, <2>6, <2>7 DEF ListsTyped
<1>6. \A u \in RegThreads \ {t} : held'[u] = held[u]
  BY <1>1, <1>3 DEF HeldTyped
<1>7. Len(held'[t]) > 0 /\ held'[t][Len(held'[t])] = o
  <2>1. PICK h : h = held[t]
    OBVIOUS
  <2>2. IsSeq(h) /\ held'[t] = Append(h, o)
    BY <1>1, <1>3, <2>1 DEF HeldTyped
  <2>3. Len(held'[t]) = Len(h) + 1 /\ Len(h) \in Nat /\ held'[t][Len(h) + 1] = o
    BY <2>2, AppendIsSeq
  <2> QED BY <2>3
<1>8. rtodo[t][1][1] = "add" /\ rtodo[t][1][2] = RArg(t)
  BY <1>2, <1>3, HeadIs
<1>9. \A ty \in RegTypes : ~Under(rtodo[t][1], ty)
  BY <1>8 DEF Under
<1>10. CASE o \notin ProcObjs
  <2>1. RThen(t, <<>>)
    BY <1>1, <1>10
  <2>2. RegTyped'
    BY <1>2, <1>3, <1>4, <1>5, <2>1, TypedFrame DEF RegTyped
  <2>3. Len(rtodo[t]) = 2 /\ Vaq(t) => TypeOf(o) = "VIRT"
    <3> HAVE Len(rtodo[t]) = 2 /\ Vaq(t)
    <3>1. Len(rtodo[t]) > 1 /\ Len(rtodo[t]) # 3
      OBVIOUS
    <3>2. Adds(rtodo[t][1], "VIRT")
      BY <3>1, VaqCases
    <3> QED BY <1>1, <1>8, <3>2 DEF Adds
  <2>4. \A i \in 1 .. Len(<<>>) : FALSE
    BY ShortSeqs
  <2>5. Len(rtodo[t]) > 1 /\ Vaq(t) =>
          /\ Len(<<>>) = 0
          /\ Len(rtodo[t]) = 2 => Len(held'[t]) > 0 /\ TypeOf(held'[t][Len(held'[t])]) = "VIRT"
    BY <1>7, <2>3, ShortSeqs
  <2> QED BY <1>2, <1>6, <1>9, <2>1, <2>2, <2>4, <2>5, KeepsLocks, ShortSeqs
<1>11. CASE o \in ProcObjs
  <2>1. RThen(t, <<<<"clear", o>>>>)
    BY <1>1, <1>11
  <2>2. RegTyped'
    BY <1>2, <1>3, <1>4, <1>5, <2>1, TypedFrame DEF RegTyped
  <2>3. TypeOf(o) = "PROC"
    BY <1>11 DEF RegAssumption, TypeOf
  <2>4. ~(Len(rtodo[t]) > 1 /\ Vaq(t))
    BY <1>1, <1>8, <2>3, VaqCases DEF Adds
  <2>5. \A i \in 1 .. Len(<<<<"clear", o>>>>) : <<<<"clear", o>>>>[i][1] = "clear"
    BY ShortSeqs
  <2> QED BY <1>2, <1>6, <1>9, <2>1, <2>2, <2>4, <2>5, KeepsLocks, ShortSeqs
<1> QED BY <1>10, <1>11

LEMMA VaqStep ==
  ASSUME RegInv, NEW t \in RegThreads, SetFreeVaq(t)
  PROVE  RegInv'
<1>1. PICK h : h = held[t]
  OBVIOUS
<1>2. /\ UNCHANGED <<rlock, list, array>> /\ RDoing(t, "vaq") /\ RThen(t, <<>>)
      /\ free_vaq' = [free_vaq EXCEPT ![h[Len(h) - 1]] = h[Len(h)]]
      /\ held' = [held EXCEPT ![t] = Front(@)]
  BY <1>1 DEF SetFreeVaq
<1>3. RegTyped /\ StackOK(t) /\ HeldTyped /\ VaqsTyped
  BY DEF RegInv, RegTyped
<1>4. Len(rtodo[t]) > 0 /\ Len(rtodo[t]) \in Nat /\ rtodo[t][1][1] = "vaq"
  BY <1>2, <1>3, HeadIs
<1>5. Len(rtodo[t]) = 1 /\ Vaq(t)
  <2>1. 1 \in 1 .. Len(rtodo[t])
    BY <1>4
  <2> QED BY <1>3, <1>4, <2>1 DEF StackOK
<1>6. IsSeq(h) /\ Len(h) > 0 /\ TypeOf(h[Len(h)]) = "VIRT"
  BY <1>1, <1>3, <1>5 DEF Vaq, HeldTyped
<1>7. IsSeq(Front(h))
  <2>1. Len(h) \in Nat /\ Len(h) - 1 \in Nat /\ Len(h) - 1 <= Len(h)
    BY <1>6 DEF IsSeq
  <2> QED BY <1>6, <2>1, SubSeqIsSeq DEF Front
<1>8. HeldTyped' /\ \A u \in RegThreads \ {t} : held'[u] = held[u]
  BY <1>1, <1>2, <1>3, <1>7 DEF HeldTyped
<1>9. VaqsTyped'
  BY <1>2, <1>3, <1>6 DEF VaqsTyped
<1>10. RegTyped'
  BY <1>2, <1>3, <1>8, <1>9, TypedFrame DEF RegTyped
<1>11. Len(rtodo'[t]) = 0 /\ IsSeq(rtodo'[t])
  <2>1. PICK ops : ops = <<>>
    OBVIOUS
  <2>2. rtodo'[t] = ops \o Tail(rtodo[t])
    BY <1>2, <1>3, <2>1 DEF RThen, RegTyped
  <2>3. IsSeq(rtodo[t]) /\ IsSeq(ops) /\ Len(ops) = 0
    BY <1>3, <2>1, ShortSeqs DEF StackOK
  <2>4. IsSeq(rtodo'[t]) /\ Len(rtodo'[t]) = Len(ops) + Len(rtodo[t]) - 1
    <3>1. PICK s, r : s = rtodo[t] /\ r = ops \o Tail(s)
      OBVIOUS
    <3>2. IsSeq(ops) /\ IsSeq(s) /\ Len(s) > 0 /\ r = ops \o Tail(s)
      BY <1>4, <2>3, <3>1
    <3>3. IsSeq(r) /\ Len(r) = Len(ops) + Len(s) - 1
      BY ONLY <3>2, Pushed
    <3> QED BY <2>2, <3>1, <3>3
  <2> QED BY <1>5, <2>3, <2>4
<1>12. StackOK(t)'
  <2>1. \A i \in 1 .. Len(rtodo'[t]) : FALSE
    BY <1>11
  <2> QED BY <1>11, <2>1 DEF StackOK
<1>13. ASSUME NEW ty \in RegTypes PROVE ~Holds(t, ty)
  BY <1>4, <1>5 DEF Holds
<1>14. \A u \in RegThreads \ {t} : rtodo'[u] = rtodo[u] /\ array'[u] = array[u]
  BY <1>2, <1>3 DEF RThen, RegTyped
<1> QED BY <1>2, <1>8, <1>10, <1>12, <1>13, <1>14, OneThread

LEMMA UnlinkTyped ==
  ASSUME ListsTyped, NEW o, Unlink(o)
  PROVE  ListsTyped'
<1>1. PICK ty \in RegTypes : ty = TypeOf(o)
  BY DEF TypeOf, RegTypes
<1>2. PICK s : s = list[ty]
  OBVIOUS
<1>3. PICK r : r = Without(s, o)
  OBVIOUS
<1>4. IsSeq(s) /\ \A i \in 1 .. Len(s) : TypeOf(s[i]) = ty
  BY <1>2 DEF ListsTyped
<1>5. IsSeq(r) /\ \A i \in 1 .. Len(r) : \E j \in 1 .. Len(s) : r[i] = s[j]
  BY <1>3, <1>4, WithoutIsSeq
<1>6. \A i \in 1 .. Len(r) : TypeOf(r[i]) = ty
  BY <1>4, <1>5
<1>7. list' = [list EXCEPT ![ty] = r]
  BY <1>1, <1>2, <1>3 DEF Unlink
<1> QED BY <1>5, <1>6, <1>7 DEF ListsTyped

(* With a physical accelerator dies the reference to its free_vaq.         *)
LEMMA DestroyStep ==
  ASSUME RegAssumption, RegInv, NEW t \in RegThreads, DestroyObject(t)
  PROVE  RegInv'
<1>1. PICK o : o = RArg(t)
  OBVIOUS
<1>2. /\ UNCHANGED <<rlock, list, held, array>> /\ RDoing(t, "destroy")
      /\ RThen(t, Destructor(o) \o <<<<"free", o>>>>)
      /\ free_vaq' = IF o \in PhysObjs THEN [free_vaq EXCEPT ![o] = Null] ELSE free_vaq
  BY <1>1 DEF DestroyObject
<1>3. RegTyped /\ StackOK(t) /\ VaqsTyped
  BY DEF RegInv, RegTyped
<1>4. VaqsTyped'
  BY <1>2, <1>3 DEF VaqsTyped
<1>5. PICK ops : ops = Destructor(o) \o <<<<"free", o>>>>
  OBVIOUS
<1>6. RegTyped'
  BY <1>2, <1>3, <1>4, <1>5, TypedFrame DEF RegTyped
<1>7. rtodo[t][1][1] = "destroy" /\ rtodo[t][1][2] = o
  BY <1>1, <1>2, <1>3, HeadIs
<1>10. /\ RThen(t, ops) /\ array' = array /\ rlock' = rlock /\ RDoing(t, "destroy")
       /\ \A u \in RegThreads \ {t} : held'[u] = held[u]
  BY <1>2, <1>5
<1>8. CASE ~(o \in PhysObjs /\ free_vaq[o] # Null)
  <2>1. IsSeq(ops) /\ \A i \in 1 .. Len(ops) : ops[i][1] = "free"
    <3>1. PICK d : d = Destructor(o)
      OBVIOUS
    <3>2. PICK e : e = <<<<"free", o>>>>
      OBVIOUS
    <3>3. IsSeq(d) /\ Len(d) = 0 /\ IsSeq(e) /\ Len(e) = 1 /\ e[1] = <<"free", o>>
      BY <1>8, <3>1, <3>2, ShortSeqs DEF Destructor
    <3>4. /\ IsSeq(ops) /\ Len(ops) = Len(d) + Len(e)
          /\ \A i \in 1 .. Len(d) + Len(e) : ops[i] = IF i <= Len(d) THEN d[i] ELSE e[i - Len(d)]
      <4>1. ops = d \o e /\ IsSeq(d) /\ IsSeq(e)
        BY <1>5, <3>1, <3>2, <3>3
      <4> QED BY ONLY <4>1, ConcatIsSeq
    <3> QED BY <3>3, <3>4
  <2>2. \A ty \in RegTypes : \A i \in 1 .. Len(ops) : Under(ops[i], ty)
    BY <2>1 DEF Under
  <2>3. \A i \in 1 .. Len(ops) : ops[i][1] \notin {"vaq", "list", "fill", "unlink"}
    BY <2>1
  <2>4. \A i \in 1 .. Len(ops) : ops[i][1] # "add"
    BY <2>1
  <2> QED BY <1>6, <1>10, <2>1, <2>2, <2>3, <2>4, KeepsLocks
<1>9. CASE o \in PhysObjs /\ free_vaq[o] # Null
  <2>1. PICK v : v = free_vaq[o]
    OBVIOUS
  <2>2. TypeOf(v) = "VIRT" /\ TypeOf(o) = "PHYS"
    BY <1>3, <1>9, <2>1 DEF VaqsTyped, TypeOf
  <2>3. /\ IsSeq(ops) /\ Len(ops) = 2
        /\ ops[1][1] = "dec" /\ ops[1][2] = v /\ ops[2][1] = "free"
    <3>1. PICK d : d = Destructor(o)
      OBVIOUS
    <3>2. PICK e : e = <<<<"free", o>>>>
      OBVIOUS
    <3>3. IsSeq(e) /\ Len(e) = 1 /\ e[1] = <<"free", o>>
      BY <3>2, ShortSeqs
    <3>4. IsSeq(d) /\ Len(d) = 1 /\ d[1] = <<"dec", v>>
      BY <1>9, <2>1, <3>1, ShortSeqs DEF Destructor
    <3>5. /\ IsSeq(ops) /\ Len(ops) = Len(d) + Len(e)
          /\ \A i \in 1 .. Len(d) + Len(e) : ops[i] = IF i <= Len(d) THEN d[i] ELSE e[i - Len(d)]
      <4>1. ops = d \o e /\ IsSeq(d) /\ IsSeq(e)
        BY <1>5, <3>1, <3>2, <3>3, <3>4
      <4> QED BY ONLY <4>1, ConcatIsSeq
    <3>6. Len(ops) = 2 /\ ops[1] = d[1] /\ ops[2] = e[1]
      BY <3>3, <3>4, <3>5
    <3> QED BY <3>3, <3>4, <3>5, <3>6
  <2>4. \A i \in 1 .. Len(ops) : i = 1 \/ i = 2
    BY <2>3
  <2>5. ASSUME NEW ty \in RegTypes, Under(rtodo[t][1], ty), NEW i \in 1 .. Len(ops)
        PROVE  Under(ops[i], ty)
    <3>1. ty = "PHYS"
      BY <1>7, <2>2, <2>5 DEF Under
    <3> QED BY <2>2, <2>3, <2>4, <3>1 DEF Under
  <2>6. \A i \in 1 .. Len(ops) : ops[i][1] \notin {"vaq", "list", "fill", "unlink", "add"}
    BY <2>3, <2>4
  <2> QED BY <1>6, <1>10, <2>3, <2>5, <2>6, KeepsLocks
<1> QED BY <1>8, <1>9

LEMMA DropStep ==
  ASSUME RegInv, NEW t \in RegThreads, arax_object_ref_dec_pre_locked(t)
  PROVE  RegInv'
<1>1. PICK o : o = RArg(t)
  OBVIOUS
<1>2. UNCHANGED <<rlock, free_vaq, held, array>> /\ RDoing(t, "drop")
  BY DEF arax_object_ref_dec_pre_locked, body
<1>3. RegTyped /\ StackOK(t) /\ ListsTyped
  BY DEF RegInv, RegTyped
<1>4. rtodo[t][1][1] = "drop" /\ rtodo[t][1][2] = o
  BY <1>1, <1>2, <1>3, HeadIs
<1>5. PICK ops : /\ RThen(t, ops)
                 /\ \/ Unlink(o) /\ ops = <<<<"destroy", o>>>>
                    \/ UNCHANGED list /\ ops = <<>>
  BY <1>1 DEF arax_object_ref_dec_pre_locked
<1>6. RegTyped'
  BY <1>2, <1>3, <1>5, UnlinkTyped, TypedFrame DEF RegTyped
<1>7. IsSeq(ops) /\ \A i \in 1 .. Len(ops) : ops[i] = <<"destroy", o>>
  BY <1>5, ShortSeqs
<1>8. \A i \in 1 .. Len(ops) : ops[i][1] = "destroy" /\ ops[i][2] = o
  BY <1>7
<1>9. \A ty \in RegTypes : Under(rtodo[t][1], ty) => \A i \in 1 .. Len(ops) : Under(ops[i], ty)
  BY <1>4, <1>8 DEF Under
<1> QED BY <1>2, <1>5, <1>6, <1>7, <1>8, <1>9, KeepsLocks

(* The last reference is dropped with the lock.                            *)
LEMMA DecLocks ==
  ASSUME RegInv, NEW t \in RegThreads, RepoRefDec(t)
  PROVE  RegInv'
<1>1. PICK o : o = RArg(t)
  OBVIOUS
<1>2. UNCHANGED <<list, free_vaq, held, array>> /\ RDoing(t, "dec")
  BY DEF RepoRefDec, body
<1>3. RegTyped /\ StackOK(t)
  BY DEF RegInv
<1>4. /\ rtodo[t][1][1] = "dec" /\ rtodo[t][1][2] = o
      /\ Len(rtodo[t]) > 0 /\ Len(rtodo[t]) \in Nat /\ IsSeq(rtodo[t])
  BY <1>1, <1>2, <1>3, HeadIs DEF StackOK
<1>5. CASE RThen(t, <<>>) /\ UNCHANGED rlock
  <2>1. RegTyped'
    BY <1>2, <1>3, <1>5, TypedFrame DEF RegTyped
  <2>2. \A i \in 1 .. Len(<<>>) : FALSE
    BY ShortSeqs
  <2> QED BY <1>2, <1>5, <2>1, <2>2, KeepsLocks, ShortSeqs
<1>6. CASE RThen(t, <<<<"unlink", o>>>>) /\ rlock' = [rlock EXCEPT ![TypeOf(o)] = t]
  <2>1. PICK ops : ops = <<<<"unlink", o>>>>
    OBVIOUS
  <2>2. IsSeq(ops) /\ Len(ops) = 1 /\ ops[1] = <<"unlink", o>>
    BY <2>1, ShortSeqs
  <2>3. \A i \in 1 .. Len(ops) : i = 1 /\ ops[i][1] = "unlink" /\ ops[i][2] = o
    BY <2>2
  <2>4. RThen(t, ops)
    BY <1>6, <2>1
  <2>5. RegTyped'
    <3>1. rlock' = [ty \in RegTypes |-> rlock'[ty]]
      BY <1>3, <1>6 DEF RegTyped
    <3> QED BY <1>2, <1>3, <2>4, <3>1, TypedFrame DEF RegTyped
  <2>6. \A ty \in RegTypes : Under(rtodo[t][1], ty) => \A i \in 1 .. Len(ops) : Under(ops[i], ty)
    BY <1>4, <2>3 DEF Under
  <2>7. ~(Len(rtodo[t]) > 1 /\ Vaq(t))
    BY <1>4, VaqCases DEF Adds
  <2>8. /\ StackOK(t)'
        /\ \A ty \in RegTypes : Holds(t, ty) => Holds(t, ty)'
    BY <1>2, <1>3, <1>4, <2>2, <2>3, <2>4, <2>6, <2>7, StackStep
  <2>9. Holds(t, TypeOf(o))'
    <3>1. PICK s, r : s = rtodo[t] /\ r = ops \o Tail(s)
      OBVIOUS
    <3>2. r = rtodo'[t] /\ IsSeq(s) /\ Len(s) > 0 /\ Len(s) \in Nat
      BY <1>3, <1>4, <2>4, <3>1 DEF RThen, RegTyped
    <3>3. /\ Len(r) = Len(ops) + Len(s) - 1
          /\ \A i \in 1 .. Len(r) : r[i] = IF i <= Len(ops) THEN ops[i] ELSE s[i - Len(ops) + 1]
      <4>1. r = ops \o Tail(s) /\ IsSeq(ops) /\ IsSeq(s) /\ Len(s) > 0
        BY <2>2, <3>1, <3>2
      <4> QED BY ONLY <4>1, Pushed
    <3>4. Len(r) > 0 /\ r[1] = ops[1]
      BY <2>2, <3>2, <3>3
    <3> QED BY <2>2, <2>3, <3>2, <3>4 DEF Holds
  <2>10. \A ty \in RegTypes : \/ rlock'[ty] = t /\ Holds(t, ty)'
                              \/ rlock'[ty] = rlock[ty] /\ (Holds(t, ty) => Holds(t, ty)')
    BY <1>3, <1>6, <2>8, <2>9 DEF RegTyped
  <2>11. \A u \in RegThreads \ {t} :
           rtodo'[u] = rtodo[u] /\ held'[u] = held[u] /\ array'[u] = array[u]
    BY <1>2, <1>3, <2>4 DEF RThen, RegTyped
  <2> QED BY <2>5, <2>8, <2>10, <2>11, OneThread
<1> QED BY <1>1, <1>5, <1>6 DEF RepoRefDec

LEMMA UnlinkStep ==
  ASSUME RegInv, NEW t \in RegThreads, UnlinkUnused(t)
  PROVE  RegInv'
<1>1. PICK o : o = RArg(t)
  OBVIOUS
<1>2. /\ UNCHANGED <<free_vaq, held, array>> /\ RDoing(t, "unlink")
      /\ Unlink(o) \/ UNCHANGED list
      /\ rlock' = [rlock EXCEPT ![TypeOf(o)] = Null]
  BY <1>1 DEF UnlinkUnused, body
<1>3. RegTyped /\ StackOK(t) /\ ListsTyped
  BY DEF RegInv, RegTyped
<1>4. /\ rtodo[t][1][1] = "unlink" /\ rtodo[t][1][2] = o /\ Len(rtodo[t]) > 0
  BY <1>1, <1>2, <1>3, HeadIs
<1>5. PICK ops : ops = <<<<"destroy", o>>>>
  OBVIOUS
<1>6. RThen(t, ops)
  BY <1>1, <1>5 DEF UnlinkUnused
<1>7. IsSeq(ops) /\ Len(ops) = 1 /\ ops[1] = <<"destroy", o>>
  BY <1>5, ShortSeqs
<1>8. \A i \in 1 .. Len(ops) : i = 1 /\ ops[i][1] = "destroy" /\ ops[i][2] = o
  BY <1>7
<1>9. \A ty \in RegTypes : Under(rtodo[t][1], ty) => \A i \in 1 .. Len(ops) : Under(ops[i], ty)
  BY <1>4, <1>8 DEF Under
<1>10. ~(Len(rtodo[t]) > 1 /\ Vaq(t))
  BY <1>4, VaqCases DEF Adds
<1>11. RegTyped'
  <2>1. rlock' = [ty \in RegTypes |-> rlock'[ty]]
    BY <1>2, <1>3 DEF RegTyped
  <2>2. ListsTyped'
    BY <1>2, <1>3, <1>6, UnlinkTyped, TypedFrame
  <2> QED BY <1>2, <1>3, <1>6, <2>1, <2>2, TypedFrame DEF RegTyped
<1>12. /\ StackOK(t)'
       /\ \A ty \in RegTypes : TypeOf(o) # ty /\ Holds(t, ty) => Holds(t, ty)'
  BY <1>2, <1>3, <1>4, <1>6, <1>7, <1>8, <1>9, <1>10, StackStep
<1>13. \A ty \in RegTypes : \/ rlock'[ty] = Null
                            \/ rlock'[ty] = rlock[ty] /\ (Holds(t, ty) => Holds(t, ty)')
  BY <1>2, <1>3, <1>12 DEF RegTyped
<1>14. \A u \in RegThreads \ {t} :
         rtodo'[u] = rtodo[u] /\ held'[u] = held[u] /\ array'[u] = array[u]
  BY <1>2, <1>3, <1>6 DEF RThen, RegTyped
<1> QED BY <1>11, <1>12, <1>13, <1>14, OneThread

(* What is done with a lock of arax_accel_list is under that lock.         *)
LEMMA ListStep ==
  ASSUME RegInv, NEW t \in RegThreads, RepoAccelList(t)
  PROVE  RegInv'
<1>1. PICK ty, objs : ty = RArg(t) /\ objs = array[t].objs
  OBVIOUS
<1>2. /\ UNCHANGED <<list, free_vaq, held>> /\ RDoing(t, "list")
      /\ rlock' = [rlock EXCEPT ![ty] = t]
      /\ array' = [array EXCEPT ![t] = [of |-> ty, objs |-> <<>>]]
  BY <1>1 DEF RepoAccelList, body
<1>3. RegTyped /\ StackOK(t) /\ ArraysTyped
  BY DEF RegInv, RegTyped
<1>4. /\ rtodo[t][1][1] = "list" /\ rtodo[t][1][2] = ty
      /\ Len(rtodo[t]) > 0 /\ Len(rtodo[t]) \in Nat /\ IsSeq(rtodo[t])
  BY <1>1, <1>2, <1>3, HeadIs DEF StackOK
<1>5. /\ Len(rtodo[t]) = 1 /\ ty \in {"PHYS", "VIRT"}
      /\ objs = <<>> \/ array[t].of = ty
  <2>1. 1 \in 1 .. Len(rtodo[t])
    BY <1>4
  <2> QED BY <1>1, <1>3, <1>4, <2>1 DEF StackOK
<1>6. IsSeq(objs) /\ Len(objs) \in Nat /\ \A i \in 1 .. Len(objs) : TypeOf(objs[i]) = ty
  <2>1. IsSeq(objs) /\ \A i \in 1 .. Len(objs) : TypeOf(objs[i]) = array[t].of
    BY <1>1, <1>3 DEF ArraysTyped
  <2>2. CASE objs = <<>>
    <3>1. \A i \in 1 .. Len(objs) : FALSE
      BY <2>2, ShortSeqs
    <3> QED BY <2>1, <3>1 DEF IsSeq
  <2>3. CASE array[t].of = ty
    BY <2>1, <2>3 DEF IsSeq
  <2> QED BY <1>5, <2>2, <2>3
<1>7. PICK d : d = PreLocked(objs)
  OBVIOUS
<1>8. IsSeq(d) /\ Len(d) = Len(objs) /\ \A i \in 1 .. Len(objs) : d[i] = <<"drop", objs[i]>>
  <2>1. DOMAIN objs = 1 .. Len(objs)
    BY <1>6 DEF IsSeq
  <2>2. d = [i \in 1 .. Len(objs) |-> <<"drop", objs[i]>>]
    BY <1>7, <2>1 DEF PreLocked
  <2>3. d = [i \in 1 .. Len(objs) |-> d[i]]
    BY <2>2
  <2>4. IsSeq(d) /\ Len(d) = Len(objs)
    BY <1>6, <2>3, TableIsSeq
  <2> QED BY <2>2, <2>4
<1>9. PICK e : e = <<<<"fill", ty>>>>
  OBVIOUS
<1>10. IsSeq(e) /\ Len(e) = 1 /\ e[1] = <<"fill", ty>>
  BY <1>9, ShortSeqs
<1>11. PICK ops : ops = d \o e
  OBVIOUS
<1>12. /\ IsSeq(ops) /\ Len(ops) = Len(d) + Len(e)
       /\ \A i \in 1 .. Len(d) + Len(e) : ops[i] = IF i <= Len(d) THEN d[i] ELSE e[i - Len(d)]
  <2>1. ops = d \o e /\ IsSeq(d) /\ IsSeq(e)
    BY <1>8, <1>10, <1>11
  <2> QED BY ONLY <2>1, ConcatIsSeq
<1>13. RThen(t, ops)
  BY <1>1, <1>7, <1>9, <1>11 DEF RepoAccelList
<1>14. PICK s, r : s = rtodo[t] /\ r = ops \o Tail(s)
  OBVIOUS
<1>15. r = rtodo'[t]
  BY <1>3, <1>13, <1>14 DEF RThen, RegTyped
<1>16. /\ IsSeq(r) /\ Len(r) = Len(ops) + Len(s) - 1
       /\ \A i \in 1 .. Len(r) : r[i] = IF i <= Len(ops) THEN ops[i] ELSE s[i - Len(ops) + 1]
  <2>1. r = ops \o Tail(s) /\ IsSeq(ops) /\ IsSeq(s) /\ Len(s) > 0
    BY <1>4, <1>12, <1>14
  <2> QED BY ONLY <2>1, Pushed
<1>17. Len(r) = Len(objs) + 1
  <2>1. Len(s) = 1 /\ Len(ops) = Len(objs) + 1 /\ Len(r) = Len(ops) + Len(s) - 1
    BY <1>5, <1>8, <1>10, <1>12, <1>14, <1>16
  <2>2. Len(objs) \in Nat
    BY <1>6
  <2> QED BY ONLY <2>1, <2>2
<1>18. /\ r[Len(r)][1] = "fill" /\ r[Len(r)][2] = ty
       /\ \A i \in 1 .. Len(r) - 1 : r[i][1] = "drop" /\ TypeOf(r[i][2]) = ty
  <2>1. Len(ops) = Len(r) /\ Len(d) = Len(r) - 1 /\ Len(r) \in Nat /\ Len(r) > 0
    BY <1>6, <1>8, <1>10, <1>12, <1>17
  <2>2. r[Len(r)] = e[1]
    <3>1. Len(r) \in 1 .. Len(r) /\ Len(r) \in 1 .. Len(d) + Len(e) /\ ~(Len(r) <= Len(d))
          /\ Len(r) - Len(d) = 1 /\ Len(r) <= Len(ops)
      BY <1>10, <2>1
    <3> QED BY <1>12, <1>16, <3>1
  <2>3. ASSUME NEW i \in 1 .. Len(r) - 1 PROVE r[i] = <<"drop", objs[i]>> /\ TypeOf(objs[i]) = ty
    <3>1. i \in 1 .. Len(r) /\ i \in 1 .. Len(d) + Len(e) /\ i <= Len(d) /\ i <= Len(ops)
          /\ i \in 1 .. Len(objs)
      BY <1>8, <1>10, <2>1
    <3> QED BY <1>6, <1>8, <1>12, <1>16, <3>1
  <2>4. ASSUME NEW i \in 1 .. Len(r) - 1 PROVE r[i][1] = "drop" /\ TypeOf(r[i][2]) = ty
    BY <2>3
  <2> QED BY <1>10, <2>2, <2>4
<1>19. \A i \in 1 .. Len(r) : i = Len(r) \/ i \in 1 .. Len(r) - 1
  BY <1>6, <1>17
<1>20. StackOK(t)'
  <2>1. \A j \in 1 .. Len(r) - 1 : Under(r[j], ty)
    BY <1>18 DEF Under
  <2>2. \A i \in 1 .. Len(r) : r[i][1] \in {"drop", "fill"} /\ (r[i][1] = "fill" => i = Len(r))
    BY <1>18, <1>19
  <2> QED BY <1>5, <1>15, <1>16, <1>18, <2>1, <2>2 DEF StackOK
<1>21. Holds(t, ty)' /\ \A x \in RegTypes : ~Holds(t, x)
  <2>1. Len(r) > 0
    BY <1>6, <1>17
  <2>2. Holds(t, ty)'
    BY <1>15, <1>18, <2>1 DEF Holds
  <2>3. \A x \in RegTypes : ~Holds(t, x)
    BY <1>4, <1>5 DEF Holds
  <2> QED BY <2>2, <2>3
<1>22. RegTyped'
  <2>1. rlock' = [x \in RegTypes |-> rlock'[x]]
    BY <1>2, <1>3 DEF RegTyped
  <2>2. \A i \in 1 .. Len(<<>>) : FALSE
    BY ShortSeqs
  <2>3. array' = [u \in RegThreads |-> [of |-> array'[u].of, objs |-> array'[u].objs]]
    BY <1>2, <1>3 DEF ArraysTyped
  <2>4. ASSUME NEW u \in RegThreads
        PROVE  /\ IsSeq(array'[u].objs)
               /\ \A i \in 1 .. Len(array'[u].objs) : TypeOf(array'[u].objs[i]) = array'[u].of
    <3>1. CASE u = t
      <4>1. array'[u].objs = <<>>
        BY <1>2, <1>3, <3>1 DEF ArraysTyped
      <4> QED BY <2>2, <4>1, ShortSeqs
    <3>2. CASE u # t
      <4>1. array'[u] = array[u]
        BY <1>2, <1>3, <3>2 DEF ArraysTyped
      <4> QED BY <1>3, <4>1 DEF ArraysTyped
    <3> QED BY <3>1, <3>2
  <2>5. ArraysTyped'
    BY <2>3, <2>4 DEF ArraysTyped
  <2> QED BY <1>2, <1>3, <1>13, <2>1, <2>5, TypedFrame DEF RegTyped
<1>23. \A x \in RegTypes : \/ rlock'[x] = t /\ Holds(t, x)'
                           \/ rlock'[x] = rlock[x] /\ (Holds(t, x) => Holds(t, x)')
  BY <1>2, <1>3, <1>21 DEF RegTyped
<1>24. \A u \in RegThreads \ {t} :
         rtodo'[u] = rtodo[u] /\ held'[u] = held[u] /\ array'[u] = array[u]
  BY <1>2, <1>3, <1>13 DEF RThen, RegTyped, ArraysTyped
<1> QED BY <1>20, <1>22, <1>23, <1>24, OneThread

LEMMA FillStep ==
  ASSUME RegInv, NEW t \in RegThreads, FillArray(t)
  PROVE  RegInv'
<1>1. PICK ty : ty = RArg(t)
  OBVIOUS
<1>2. /\ UNCHANGED <<list, free_vaq, held>> /\ RDoing(t, "fill") /\ RThen(t, <<>>)
      /\ rlock' = [rlock EXCEPT ![ty] = Null]
      /\ array' = [array EXCEPT ![t] = [of |-> ty, objs |-> list[ty]]]
  BY <1>1 DEF FillArray, body
<1>3. RegTyped /\ StackOK(t) /\ ArraysTyped /\ ListsTyped
  BY DEF RegInv, RegTyped
<1>4. /\ rtodo[t][1][1] = "fill" /\ rtodo[t][1][2] = ty
      /\ Len(rtodo[t]) > 0 /\ Len(rtodo[t]) \in Nat /\ IsSeq(rtodo[t])
  BY <1>1, <1>2, <1>3, HeadIs DEF StackOK
<1>5. Len(rtodo[t]) = 1 /\ ty \in RegTypes
  <2>1. 1 \in 1 .. Len(rtodo[t])
    BY <1>4
  <2> QED BY <1>3, <1>4, <2>1 DEF StackOK, RegTypes
<1>6. Len(rtodo'[t]) = 0 /\ IsSeq(rtodo'[t])
  <2>1. PICK ops : ops = <<>>
    OBVIOUS
  <2>2. rtodo'[t] = ops \o Tail(rtodo[t])
    BY <1>2, <1>3, <2>1 DEF RThen, RegTyped
  <2>3. IsSeq(ops) /\ Len(ops) = 0
    BY <2>1, ShortSeqs
  <2>4. IsSeq(rtodo'[t]) /\ Len(rtodo'[t]) = Len(ops) + Len(rtodo[t]) - 1
    <3>1. PICK s, r : s = rtodo[t] /\ r = ops \o Tail(s)
      OBVIOUS
    <3>2. IsSeq(ops) /\ IsSeq(s) /\ Len(s) > 0 /\ r = ops \o Tail(s)
      BY <1>4, <2>3, <3>1
    <3>3. IsSeq(r) /\ Len(r) = Len(ops) + Len(s) - 1
      BY ONLY <3>2, Pushed
    <3> QED BY <2>2, <3>1, <3>3
  <2> QED BY <1>5, <2>3, <2>4
<1>7. StackOK(t)'
  <2>1. \A i \in 1 .. Len(rtodo'[t]) : FALSE
    BY <1>6
  <2> QED BY <1>6, <2>1 DEF StackOK
<1>8. \A x \in RegTypes : Holds(t, x) => x = ty
  BY <1>4, <1>5 DEF Holds
<1>9. ArraysTyped'
  <2>1. array' = [u \in RegThreads |-> [of |-> array'[u].of, objs |-> array'[u].objs]]
    BY <1>2, <1>3 DEF ArraysTyped
  <2>2. ASSUME NEW u \in RegThreads
        PROVE  /\ IsSeq(array'[u].objs)
               /\ \A i \in 1 .. Len(array'[u].objs) : TypeOf(array'[u].objs[i]) = array'[u].of
    <3>1. CASE u = t
      <4>1. array'[u].objs = list[ty] /\ array'[u].of = ty
        BY <1>2, <1>3, <3>1 DEF ArraysTyped
      <4> QED BY <1>3, <1>5, <4>1 DEF ListsTyped
    <3>2. CASE u # t
      <4>1. array'[u] = array[u]
        BY <1>2, <1>3, <3>2 DEF ArraysTyped
      <4> QED BY <1>3, <4>1 DEF ArraysTyped
    <3> QED BY <3>1, <3>2
  <2> QED BY <2>1, <2>2 DEF ArraysTyped
<1>10. RegTyped'
  <2>1. rlock' = [x \in RegTypes |-> rlock'[x]]
    BY <1>2, <1>3 DEF RegTyped
  <2> QED BY <1>2, <1>3, <1>9, <2>1, TypedFrame DEF RegTyped
<1>11. \A x \in RegTypes : \/ rlock'[x] = Null
                           \/ rlock'[x] = rlock[x] /\ (Holds(t, x) => Holds(t, x)')
  BY <1>2, <1>3, <1>8 DEF RegTyped
<1>12. \A u \in RegThreads \ {t} :
         rtodo'[u] = rtodo[u] /\ held'[u] = held[u] /\ array'[u] = array[u]
  BY <1>2, <1>3 DEF RThen, RegTyped, ArraysTyped
<1> QED BY <1>7, <1>10, <1>11, <1>12, OneThread

(* Calls that hold no lock for more than a step, or one at the end.        *)
LEMMA HarmlessStack ==
  ASSUME NEW t, IsSeq(rtodo'[t]),
         \A i \in 1 .. Len(rtodo'[t]) :
           \/ rtodo'[t][i][1] \in {"register", "functor", "dec", "delete", "get"}
           \/ rtodo'[t][i][1] = "add" /\ rtodo'[t][i][2] \in RegTypes
  PROVE  StackOK(t)'
BY DEF StackOK

LEMMA WithoutTyped ==
  ASSUME HeldTyped, NEW t, NEW o, held' = [held EXCEPT ![t] = Without(@, o)]
  PROVE  HeldTyped' /\ \A u \in RegThreads \ {t} : held'[u] = held[u]
BY WithoutIsSeq DEF HeldTyped

LEMMA CallStep ==
  ASSUME RegInv, NEW t \in RegThreads, RegCall(t)
  PROVE  RegInv'
<1>1. UNCHANGED <<rlock, list, free_vaq>> /\ rtodo[t] = <<>>
  BY DEF RegCall, body
<1>2. RegTyped /\ HeldTyped /\ ArraysTyped /\ ListsTyped /\ VaqsTyped
  BY DEF RegInv, RegTyped
<1>3. \A x \in RegTypes : ~Holds(t, x)
  BY <1>1, ShortSeqs DEF Holds
<1>4. ASSUME NEW r, rtodo' = [rtodo EXCEPT ![t] = r], HeldTyped', ArraysTyped',
             \A u \in RegThreads \ {t} : held'[u] = held[u] /\ array'[u] = array[u],
             rtodo'[t] = r => StackOK(t)'
      PROVE  RegInv'
  <2>1. rtodo' = [u \in RegThreads |-> rtodo'[u]] /\ rtodo'[t] = r
    BY <1>2, <1>4 DEF RegTyped
  <2>2. RegTyped'
    BY <1>1, <1>2, <1>4, <2>1 DEF RegTyped, ListsTyped, VaqsTyped
  <2>3. \A u \in RegThreads \ {t} : rtodo'[u] = rtodo[u]
    BY <1>2, <1>4 DEF RegTyped
  <2> QED BY <1>1, <1>3, <1>4, <2>1, <2>2, <2>3, OneThread
<1>5. UNCHANGED held => HeldTyped' /\ \A u \in RegThreads \ {t} : held'[u] = held[u]
  BY <1>2 DEF HeldTyped
<1>6. UNCHANGED array => ArraysTyped' /\ \A u \in RegThreads \ {t} : array'[u] = array[u]
  BY <1>2 DEF ArraysTyped
<1>7. ASSUME NEW r, rtodo' = [rtodo EXCEPT ![t] = r], UNCHANGED array,
             UNCHANGED held \/ \E o : held' = [held EXCEPT ![t] = Without(@, o)],
             IsSeq(r),
             \A i \in 1 .. Len(r) : \/ r[i][1] \in {"register", "functor", "dec", "delete", "get"}
                                    \/ r[i][1] = "add" /\ r[i][2] \in RegTypes
      PROVE  RegInv'
  <2>1. HeldTyped' /\ \A u \in RegThreads \ {t} : held'[u] = held[u]
    BY <1>2, <1>5, <1>7, WithoutTyped
  <2>2. rtodo'[t] = r => StackOK(t)'
    BY <1>7, HarmlessStack
  <2> QED BY <1>4, <1>6, <1>7, <2>1, <2>2
<1>8. ASSUME NEW x, rtodo' = [rtodo EXCEPT ![t] = <<x>>], UNCHANGED array,
             UNCHANGED held \/ \E o : held' = [held EXCEPT ![t] = Without(@, o)],
             x[1] \in {"dec", "delete", "get"} \/ (x[1] = "add" /\ x[2] \in RegTypes)
      PROVE  RegInv'
  <2>1. PICK r : r = <<x>>
    OBVIOUS
  <2>2. IsSeq(r) /\ \A i \in 1 .. Len(r) : r[i] = x
    BY <2>1, ShortSeqs
  <2>3. rtodo' = [rtodo EXCEPT ![t] = r]
    BY <1>8, <2>1
  <2> QED BY <1>7, <1>8, <2>2, <2>3
<1>9. CASE CtlCall /\ t = Ctl
  <2>1. ASSUME NEW n \in Names, NEW f \in Functors, UNCHANGED <<held, array>>,
               rtodo' = [rtodo EXCEPT ![Ctl] = <<<<"register", n>>, <<"functor", n, f>>>>]
        PROVE  RegInv'
    <3>1. PICK r : r = <<<<"register", n>>, <<"functor", n, f>>>>
      OBVIOUS
    <3>2. IsSeq(r) /\ Len(r) = 2 /\ r[1] = <<"register", n>> /\ r[2] = <<"functor", n, f>>
      BY <3>1, ShortSeqs
    <3>3. \A i \in 1 .. Len(r) : i = 1 \/ i = 2
      BY <3>2
    <3>4. \A i \in 1 .. Len(r) : r[i][1] \in {"register", "functor"}
      BY <3>2, <3>3
    <3>5. rtodo' = [rtodo EXCEPT ![t] = r]
      BY <1>9, <2>1, <3>1
    <3> QED BY <1>7, <2>1, <3>2, <3>4, <3>5
  <2>2. ASSUME UNCHANGED <<held, array>>,
               rtodo' = [rtodo EXCEPT ![Ctl] = <<<<"add", "PHYS">>, <<"add", "VIRT">>, <<"vaq">>>>]
        PROVE  RegInv'
    <3>1. PICK r : r = <<<<"add", "PHYS">>, <<"add", "VIRT">>, <<"vaq">>>>
      OBVIOUS
    <3>2. /\ IsSeq(r) /\ Len(r) = 3
          /\ r[1] = <<"add", "PHYS">> /\ r[2] = <<"add", "VIRT">> /\ r[3] = <<"vaq">>
      BY <3>1, ShortSeqs
    <3>3. \A i \in 1 .. Len(r) : i = 1 \/ i = 2 \/ i = 3
      BY <3>2
    <3>4. Adds(r[1], "PHYS") /\ Adds(r[2], "VIRT") /\ r[3][1] = "vaq"
      BY <3>2 DEF Adds
    <3>5. \A i \in 1 .. Len(r) : \/ r[i][1] = "add" /\ r[i][2] \in RegTypes
                                 \/ i = 3 /\ r[i][1] = "vaq"
      BY <3>3, <3>4 DEF Adds, RegTypes
    <3>6. ASSUME rtodo'[t] = r PROVE StackOK(t)'
      <4>1. Vaq(t)'
        BY <3>2, <3>4, <3>6 DEF Vaq
      <4> QED BY <3>2, <3>5, <3>6, <4>1 DEF StackOK
    <3>7. rtodo' = [rtodo EXCEPT ![t] = r]
      BY <1>9, <2>2, <3>1
    <3> QED BY <1>4, <1>5, <1>6, <2>2, <3>6, <3>7
  <2>3. ASSUME NEW i \in DOMAIN held[Ctl], NEW op \in {"dec", "delete"}, UNCHANGED array,
               rtodo' = [rtodo EXCEPT ![Ctl] = <<<<op, held[Ctl][i]>>>>],
               held' = [held EXCEPT ![Ctl] = Without(@, held[Ctl][i])]
        PROVE  RegInv'
    <3>1. PICK x : x = <<op, held[Ctl][i]>>
      OBVIOUS
    <3>2. x[1] \in {"dec", "delete", "get"}
      BY <3>1
    <3>3. rtodo' = [rtodo EXCEPT ![t] = <<x>>]
      BY <1>9, <2>3, <3>1
    <3> QED BY <1>8, <1>9, <2>3, <3>2, <3>3
  <2> QED BY <1>9, <2>1, <2>2, <2>3 DEF CtlCall
<1>10. CASE AppCall(t)
  <2>1. ASSUME NEW n \in Names, rtodo' = [rtodo EXCEPT ![t] = <<<<"get", n>>>>],
               UNCHANGED <<held, array>>
        PROVE  RegInv'
    <3>1. PICK x : x = <<"get", n>>
      OBVIOUS
    <3>2. x[1] = "get" /\ rtodo' = [rtodo EXCEPT ![t] = <<x>>]
      BY <2>1, <3>1
    <3> QED BY <1>8, <2>1, <3>2
  <2>2. ASSUME rtodo' = [rtodo EXCEPT ![t] = <<<<"add", "VIRT">>>>], UNCHANGED <<held, array>>
        PROVE  RegInv'
    <3>1. PICK x : x = <<"add", "VIRT">>
      OBVIOUS
    <3>2. x[1] = "add" /\ x[2] \in RegTypes /\ rtodo' = [rtodo EXCEPT ![t] = <<x>>]
      BY <2>2, <3>1 DEF RegTypes
    <3> QED BY <1>8, <2>2, <3>2
  <2>3. ASSUME NEW i \in DOMAIN held[t], rtodo' = [rtodo EXCEPT ![t] = <<<<"dec", held[t][i]>>>>],
               held' = [held EXCEPT ![t] = Without(@, held[t][i])], UNCHANGED array
        PROVE  RegInv'
    <3>1. PICK x : x = <<"dec", held[t][i]>>
      OBVIOUS
    <3>2. x[1] = "dec" /\ rtodo' = [rtodo EXCEPT ![t] = <<x>>]
      BY <2>3, <3>1
    <3> QED BY <1>8, <2>3, <3>2
  <2>4. ASSUME NEW ty \in {"PHYS", "VIRT"}, array[t].objs = <<>> \/ array[t].of = ty,
               rtodo' = [rtodo EXCEPT ![t] = <<<<"list", ty>>>>], UNCHANGED <<held, array>>
        PROVE  RegInv'
    <3>1. PICK r : r = <<<<"list", ty>>>>
      OBVIOUS
    <3>2. IsSeq(r) /\ Len(r) = 1 /\ r[1] = <<"list", ty>>
      BY <3>1, ShortSeqs
    <3>3. \A i \in 1 .. Len(r) : r[i][1] = "list" /\ r[i][2] = ty
      BY <3>2
    <3>4. ASSUME rtodo'[t] = r PROVE StackOK(t)'
      BY <2>4, <3>2, <3>3, <3>4 DEF StackOK
    <3>5. rtodo' = [rtodo EXCEPT ![t] = r]
      BY <2>4, <3>1
    <3> QED BY <1>4, <1>5, <1>6, <2>4, <3>4, <3>5
  <2>5. ASSUME rtodo' = [rtodo EXCEPT ![t] = RDrops(array[t].objs)],
               array' = [array EXCEPT ![t].objs = <<>>], UNCHANGED held
        PROVE  RegInv'
    <3>1. PICK r, objs : r = RDrops(objs) /\ objs = array[t].objs
      OBVIOUS
    <3>2. IsSeq(objs) /\ Len(objs) \in Nat
      BY <1>2, <3>1 DEF ArraysTyped, IsSeq
    <3>3. IsSeq(r) /\ \A i \in 1 .. Len(r) : r[i][1] = "dec"
      <4>1. DOMAIN objs = 1 .. Len(objs)
        BY <3>2 DEF IsSeq
      <4>2. r = [i \in 1 .. Len(objs) |-> <<"dec", objs[i]>>]
        BY <3>1, <4>1 DEF RDrops
      <4>3. r = [i \in 1 .. Len(objs) |-> r[i]]
        BY <4>2
      <4>4. IsSeq(r) /\ Len(r) = Len(objs)
        BY <3>2, <4>3, TableIsSeq
      <4>5. \A i \in 1 .. Len(r) : r[i] = <<"dec", objs[i]>>
        BY <4>2, <4>4
      <4> QED BY <4>4, <4>5
    <3>4. ArraysTyped' /\ \A u \in RegThreads \ {t} : array'[u] = array[u]
      <4>1. \A i \in 1 .. Len(<<>>) : FALSE
        BY ShortSeqs
      <4>2. array' = [u \in RegThreads |-> [of |-> array'[u].of, objs |-> array'[u].objs]]
        BY <1>2, <2>5 DEF ArraysTyped
      <4>3. array'[t].objs = <<>> /\ \A u \in RegThreads \ {t} : array'[u] = array[u]
        BY <1>2, <2>5 DEF ArraysTyped
      <4>4. ASSUME NEW u \in RegThreads
            PROVE  /\ IsSeq(array'[u].objs)
                   /\ \A i \in 1 .. Len(array'[u].objs) : TypeOf(array'[u].objs[i]) = array'[u].of
        <5>1. CASE u = t
          BY <4>1, <4>3, <5>1, ShortSeqs
        <5>2. CASE u # t
          BY <1>2, <4>3, <5>2 DEF ArraysTyped
        <5> QED BY <5>1, <5>2
      <4> QED BY <4>2, <4>3, <4>4 DEF ArraysTyped
    <3>5. rtodo'[t] = r => StackOK(t)'
      BY <3>3, HarmlessStack
    <3>6. rtodo' = [rtodo EXCEPT ![t] = r]
      BY <2>5, <3>1
    <3> QED BY <1>4, <1>5, <2>5, <3>4, <3>5, <3>6
  <2> QED BY <1>10, <2>1, <2>2, <2>3, <2>4, <2>5 DEF AppCall
<1> QED BY <1>9, <1>10 DEF RegCall

LEMMA RegStart ==
  ASSUME RegAssumption, RegInit
  PROVE  RegInv
<1>1. PICK p, v : p = (CHOOSE o \in PhysObjs : TRUE) /\ v = (CHOOSE o \in VirtObjs : TRUE)
  OBVIOUS
<1>2. TypeOf(p) = "PHYS" /\ TypeOf(v) = "VIRT"
  BY <1>1 DEF RegAssumption, TypeOf
<1>3. /\ rlock = [ty \in RegTypes |-> Null]
      /\ list = [PHYS |-> <<p>>, VIRT |-> <<v>>, PROC |-> <<>>]
      /\ free_vaq = [o \in PhysObjs |-> IF o = p THEN v ELSE Null]
      /\ rtodo = [t \in RegThreads |-> <<>>]
      /\ held = [t \in RegThreads |-> IF t = Ctl THEN <<p>> ELSE <<>>]
      /\ array = [t \in RegThreads |-> [of |-> "PHYS", objs |-> <<>>]]
  BY <1>1 DEF RegInit
<1>4. \A i \in 1 .. Len(<<>>) : FALSE
  BY ShortSeqs
<1>5. \A x : \A i \in 1 .. Len(<<x>>) : <<x>>[i] = x
  BY ShortSeqs
<1>6. ListsTyped
  <2>1. list = [ty \in RegTypes |-> list[ty]]
    BY <1>3 DEF RegTypes
  <2>2. ASSUME NEW ty \in RegTypes
        PROVE  IsSeq(list[ty]) /\ \A i \in 1 .. Len(list[ty]) : TypeOf(list[ty][i]) = ty
    <3>1. CASE ty = "PHYS"
      <4>1. list[ty] = <<p>>
        BY <1>3, <3>1
      <4> QED BY <1>2, <1>5, <3>1, <4>1, ShortSeqs
    <3>2. CASE ty = "VIRT"
      <4>1. list[ty] = <<v>>
        BY <1>3, <3>2
      <4> QED BY <1>2, <1>5, <3>2, <4>1, ShortSeqs
    <3>3. CASE ty = "PROC"
      <4>1. list[ty] = <<>>
        BY <1>3, <3>3
      <4> QED BY <1>4, <4>1, ShortSeqs
    <3> QED BY <3>1, <3>2, <3>3 DEF RegTypes
  <2> QED BY <2>1, <2>2 DEF ListsTyped
<1>7. VaqsTyped
  BY <1>2, <1>3 DEF VaqsTyped
<1>8. HeldTyped
  BY <1>3, ShortSeqs DEF HeldTyped
<1>9. ArraysTyped
  <2>1. array = [t \in RegThreads |-> [of |-> array[t].of, objs |-> array[t].objs]]
    BY <1>3
  <2>2. \A t \in RegThreads : array[t].objs = <<>>
    BY <1>3
  <2> QED BY <1>4, <2>1, <2>2, ShortSeqs DEF ArraysTyped
<1>10. \A t \in RegThreads : StackOK(t)
  <2> TAKE t \in RegThreads
  <2>1. rtodo[t] = <<>>
    BY <1>3
  <2> QED BY <1>4, <2>1, ShortSeqs DEF StackOK
<1>11. LocksOK
  BY <1>3 DEF LocksOK
<1>12. RegTyped
  BY <1>3, <1>6, <1>7, <1>8, <1>9 DEF RegTyped
<1> QED BY <1>10, <1>11, <1>12 DEF RegInv

LEMMA RegInvStep ==
  ASSUME RegAssumption, RegInv, [RegNext]_rvars
  PROVE  RegInv'
<1>1. CASE UNCHANGED rvars
  <2>1. UNCHANGED <<rlock, list, free_vaq, rtodo, held, array>>
    BY <1>1 DEF rvars
  <2>2. RegTyped'
    BY <2>1 DEF RegInv, RegTyped, ListsTyped, VaqsTyped, HeldTyped, ArraysTyped
  <2>3. \A t \in RegThreads : StackOK(t)'
    BY <2>1, OtherThread DEF RegInv
  <2>4. LocksOK'
    <3>1. \A u, ty : Holds(u, ty) => Holds(u, ty)'
      BY <2>1 DEF Holds
    <3> QED BY <2>1, <3>1 DEF RegInv, LocksOK, Holds
  <2> QED BY <2>2, <2>3, <2>4 DEF RegInv
<1>2. ASSUME NEW t \in RegThreads, RegStep(t) PROVE RegInv'
  BY <1>2, AddStep, PlainStep, VaqStep, IncStep, DecLocks, UnlinkStep, DestroyStep, ListStep, DropStep,
     FillStep DEF RegStep
<1> QED BY <1>1, <1>2, CallStep DEF RegNext

(* A thread with a lock waits for no other, or has that of the physical    *)
(* accelerators and waits for that of the virtual ones.                    *)
LEMMA HolderMoves ==
  ASSUME RegInv, NEW ty \in RegTypes, rlock[ty] # Null
  PROVE  LET t == rlock[ty]
         IN  /\ t \in RegThreads /\ rtodo[t] # <<>>
             /\ Needs(t) \subseteq (IF ty = "PHYS" THEN {"VIRT"} ELSE {})
<1>1. PICK t \in RegThreads : t = rlock[ty] /\ Holds(t, ty) /\ StackOK(t)
  BY DEF RegInv, LocksOK
<1>2. PICK s : s = rtodo[t]
  OBVIOUS
<1>3. Len(s) > 0 /\ Len(s) \in Nat /\ IsSeq(s) /\ s # <<>> /\ Head(s) = s[1]
  <2>1. IsSeq(s) /\ Len(s) > 0 /\ Len(s) \in Nat
    BY <1>1, <1>2 DEF StackOK, Holds, IsSeq
  <2> DEFINE S == {s[i] : i \in 1 .. Len(s)}
  <2>2. \A i \in 1 .. Len(s) : s[i] \in S
    OBVIOUS
  <2> HIDE DEF S
  <2>3. s \in Seq(S)
    BY <2>1, <2>2, SeqOfItself
  <2> QED BY <2>1, <2>3
<1>4. CASE s[1][1] = "unlink"
  <2>1. Needs(t) = {}
    BY <1>2, <1>3, <1>4 DEF Needs
  <2> QED BY <1>1, <1>2, <1>3, <2>1
<1>5. CASE s[Len(s)][1] = "fill" /\ s[Len(s)][2] = ty
  <2>1. CASE Len(s) = 1
    <3>1. Needs(t) = {}
      BY <1>2, <1>3, <1>5, <2>1 DEF Needs
    <3> QED BY <1>1, <1>2, <1>3, <3>1
  <2>2. CASE Len(s) # 1
    <3>1. 1 \in 1 .. Len(s) - 1 /\ Len(s) \in 1 .. Len(s)
      BY <1>3, <2>2, FirstBelow
    <3>2. Under(s[1], ty)
      BY <1>1, <1>2, <1>5, <3>1 DEF StackOK
    <3>3. CASE s[1][1] \in {"free", "drop", "destroy", "unlink"}
      <4>1. Needs(t) = {}
        BY <1>2, <1>3, <3>3 DEF Needs
      <4> QED BY <1>1, <1>2, <1>3, <4>1
    <3>4. CASE s[1][1] = "dec" /\ ty = "PHYS" /\ TypeOf(s[1][2]) = "VIRT"
      <4>1. Needs(t) = {"VIRT"}
        BY <1>2, <1>3, <3>4 DEF Needs, RArg
      <4> QED BY <1>1, <1>2, <1>3, <3>4, <4>1
    <3> QED BY <3>2, <3>3, <3>4 DEF Under
  <2> QED BY <2>1, <2>2
<1> QED BY <1>1, <1>2, <1>4, <1>5 DEF Holds

LEMMA NeedsTyped ==
  ASSUME RegInv, NEW t \in RegThreads, rtodo[t] # <<>>
  PROVE  Needs(t) \subseteq RegTypes
<1>1. PICK s : s = rtodo[t]
  OBVIOUS
<1>2. IsSeq(s) /\ s # <<>> /\ StackOK(t)
  BY <1>1 DEF RegInv, StackOK
<1>3. 1 \in 1 .. Len(s) /\ Head(s) = s[1]
  <2> DEFINE S == {s[i] : i \in 1 .. Len(s)}
  <2>1. \A i \in 1 .. Len(s) : s[i] \in S
    OBVIOUS
  <2> HIDE DEF S
  <2>2. s \in Seq(S)
    BY <1>2, <2>1, SeqOfItself
  <2> QED BY <1>2, <2>2
<1>4. Head(s)[1] \in {"add", "list"} => Head(s)[2] \in RegTypes
  BY <1>1, <1>2, <1>3 DEF StackOK, RegTypes
<1>5. \A o : TypeOf(o) \in RegTypes
  BY DEF TypeOf, RegTypes
<1> QED BY <1>1, <1>4, <1>5 DEF Needs, RArg, RegTypes

(* However many threads call the repository, and whatever they list, look  *)
(* up and release, they never all wait for locks: one that has something   *)
(* to do can do it.                                                        *)
THEOREM RepositoryNobodyStuck == RegAssumption => (RegSpec => []NobodyStuck)
<1> SUFFICES ASSUME RegAssumption PROVE RegSpec => []NobodyStuck
  OBVIOUS
<1>1. RegInit => RegInv
  BY RegStart
<1>2. RegInv /\ [RegNext]_rvars => RegInv'
  BY RegInvStep
<1>3. RegInv => NobodyStuck
  <2> DEFINE busy == {t \in RegThreads : rtodo[t] # <<>>}
  <2> SUFFICES ASSUME RegInv, NEW t \in busy
               PROVE  \E u \in busy : \A ty \in Needs(u) : rlock[ty] = Null
    BY DEF NobodyStuck
  <2>1. CASE \A ty \in Needs(t) : rlock[ty] = Null
    BY <2>1
  <2>2. ASSUME NEW ty \in Needs(t), rlock[ty] # Null
        PROVE  \E u \in busy : \A x \in Needs(u) : rlock[x] = Null
    <3>1. ty \in RegTypes
      BY <2>2, NeedsTyped
    <3>2. PICK u \in busy : Needs(u) \subseteq {"VIRT"}
      BY <2>2, <3>1, HolderMoves
    <3>3. CASE rlock["VIRT"] = Null
      BY <3>2, <3>3
    <3>4. CASE rlock["VIRT"] # Null
      <4>1. PICK w \in busy : Needs(w) = {}
        BY <3>4, HolderMoves DEF RegTypes
      <4> QED BY <4>1
    <3> QED BY <3>3, <3>4
  <2> QED BY <2>1, <2>2
<1> QED BY <1>1, <1>2, <1>3, PTL DEF RegSpec

-----------------------------------------------------------------------------
(* The completions, semaphores and conditions of the mutex and spin builds *)

USE AsyncAssumption

(* Every step keeps the types.                                             *)
LEMMA AsyncTypes ==
  ASSUME AsyncTypeOK, [AsyncNext]_avars, DecInv
  PROVE  AsyncTypeOK'
<1> USE DEF AsyncTypeOK, AsyncPC, Sleeping, Goto
<1>1. CASE UNCHANGED avars
  BY <1>1 DEF avars
<1>2. ASSUME NEW t \in Threads, Call(t) PROVE AsyncTypeOK'
  BY <1>2 DEF Call, condition
<1>3. ASSUME NEW t \in Threads,
             \/ async_completion_complete(t) \/ CompleteUnlock(t) \/ async_completion_wait(t)
             \/ async_completion_check(t) \/ CheckUnlock(t)
      PROVE  AsyncTypeOK'
  <2>1. CASE async_completion_complete(t)
    BY <2>1 DEF async_completion_complete, condition
  <2>2. CASE CompleteUnlock(t) \/ CheckUnlock(t)
    BY <2>2 DEF CompleteUnlock, CheckUnlock, condition
  <2>3. CASE async_completion_wait(t)
    <3>1. /\ bit' = FALSE /\ awaited' = awaited + 1 /\ at' = [at EXCEPT ![t] = "idle"]
          /\ UNCHANGED <<arch, value, free, tokens, asleep, store, val, calls>>
      BY <2>3 DEF async_completion_wait, condition
    <3>2. awaited' \in Nat
      BY <3>1
    <3>3. bit' \in BOOLEAN
      BY <3>1
    <3>4. at' \in [Threads -> AsyncPC]
      BY <3>1
    <3> QED BY <3>1, <3>2, <3>3, <3>4
  <2>4. CASE async_completion_check(t)
    BY <2>4 DEF async_completion_check, condition
  <2> QED BY <1>3, <2>1, <2>2, <2>3, <2>4
<1>4. ASSUME NEW t \in Threads, async_semaphore_inc(t) \/ async_semaphore_dec(t) PROVE AsyncTypeOK'
  BY <1>4 DEF async_semaphore_inc, async_semaphore_dec, condition
<1>5. ASSUME NEW t \in Threads, DecCas(t) PROVE AsyncTypeOK'
  <2>1. at[t] = "decCas" /\ val[t] > 0 /\ val[t] \in Nat
    BY <1>5 DEF DecCas, DecInv
  <2> QED BY <1>5, <2>1 DEF DecCas, condition
<1>6. ASSUME NEW t \in Threads,
             \/ async_condition_lock(t) \/ async_condition_wait(t) \/ async_condition_notify(t)
             \/ async_condition_unlock(t) \/ Put(t)
      PROVE  AsyncTypeOK'
  <2>1. CASE async_condition_lock(t)
    BY <2>1 DEF async_condition_lock
  <2>2. CASE async_condition_wait(t)
    BY <2>2 DEF async_condition_wait
  <2>3. CASE async_condition_notify(t)
    BY <2>3 DEF async_condition_notify
  <2>4. CASE async_condition_unlock(t)
    BY <2>4 DEF async_condition_unlock
  <2>5. CASE Put(t)
    BY <2>5 DEF Put
  <2> QED BY <1>6, <2>1, <2>2, <2>3, <2>4, <2>5
<1>7. ASSUME NEW t \in Threads, Take(t) PROVE AsyncTypeOK'
  <2>1. store \in Nat /\ Need[arch][t] \in Nat /\ store >= Need[arch][t]
    BY <1>7 DEF Take
  <2>2. store - Need[arch][t] \in Nat
    BY <2>1
  <2> QED BY <1>7, <2>2 DEF Take
<1>8. ASSUME NEW t \in Threads, Woken(t) \/ CondWakes(t) PROVE AsyncTypeOK'
  BY <1>8 DEF Woken, CondWakes, condition
<1>9. ASSUME NEW t \in Threads, WokenCas(t) PROVE AsyncTypeOK'
  <2>1. at[t] = "sleepCas" /\ val[t] > 0 /\ val[t] \in Nat
    BY <1>9 DEF WokenCas, DecInv
  <2> QED BY <1>9, <2>1 DEF WokenCas
<1> QED BY <1>1, <1>2, <1>3, <1>4, <1>5, <1>6, <1>7, <1>8, <1>9 DEF AsyncNext, Step

(* What spin has read is positive while it tries to lower it.              *)
LEMMA DecStep ==
  ASSUME AsyncTypeOK, [AsyncNext]_avars, DecInv
  PROVE  DecInv'
<1> USE DEF AsyncTypeOK, DecInv, Goto
<1>1. CASE UNCHANGED avars
  BY <1>1 DEF avars
<1>2. ASSUME NEW t \in Threads, Call(t) PROVE DecInv'
  BY <1>2 DEF Call
<1>3. ASSUME NEW t \in Threads,
             \/ async_completion_complete(t) \/ CompleteUnlock(t) \/ async_completion_wait(t)
             \/ async_completion_check(t) \/ CheckUnlock(t)
      PROVE  DecInv'
  BY <1>3 DEF async_completion_complete, CompleteUnlock, async_completion_wait,
              async_completion_check, CheckUnlock
<1>4. ASSUME NEW t \in Threads, async_semaphore_inc(t) \/ async_semaphore_dec(t) \/ DecCas(t)
      PROVE  DecInv'
  BY <1>4 DEF async_semaphore_inc, async_semaphore_dec, DecCas
<1>5. ASSUME NEW t \in Threads,
             \/ async_condition_lock(t) \/ async_condition_wait(t) \/ async_condition_notify(t)
             \/ async_condition_unlock(t) \/ Put(t) \/ Take(t)
      PROVE  DecInv'
  BY <1>5 DEF async_condition_lock, async_condition_wait, async_condition_notify,
              async_condition_unlock, Put, Take
<1>6. ASSUME NEW t \in Threads, Woken(t) \/ WokenCas(t) \/ CondWakes(t) PROVE DecInv'
  BY <1>6 DEF Woken, WokenCas, CondWakes
<1> QED BY <1>1, <1>2, <1>3, <1>4, <1>5, <1>6 DEF AsyncNext, Step

(* The lock of the condition has one owner.                                *)
LEMMA ExclusionStep ==
  ASSUME AsyncTypeOK, [AsyncNext]_avars, MutualExclusion
  PROVE  MutualExclusion'
<1> USE DEF AsyncTypeOK, MutualExclusion, Goto, Owning
<1>1. CASE UNCHANGED avars
  BY <1>1 DEF avars
<1>2. ASSUME NEW t \in Threads, Call(t) PROVE MutualExclusion'
  BY <1>2 DEF Call, condition
<1>3. ASSUME NEW t \in Threads,
             \/ async_completion_complete(t) \/ CompleteUnlock(t) \/ async_completion_wait(t)
             \/ async_completion_check(t) \/ CheckUnlock(t)
      PROVE  MutualExclusion'
  BY <1>3 DEF async_completion_complete, CompleteUnlock, async_completion_wait,
              async_completion_check, CheckUnlock, condition
<1>4. ASSUME NEW t \in Threads, async_semaphore_inc(t) \/ async_semaphore_dec(t) \/ DecCas(t)
      PROVE  MutualExclusion'
  BY <1>4 DEF async_semaphore_inc, async_semaphore_dec, DecCas, condition
<1>5. ASSUME NEW t \in Threads, async_condition_lock(t) PROVE MutualExclusion'
  BY <1>5 DEF async_condition_lock
<1>6. ASSUME NEW t \in Threads, async_condition_wait(t) \/ async_condition_unlock(t)
      PROVE  MutualExclusion'
  BY <1>6 DEF async_condition_wait, async_condition_unlock
<1>7. ASSUME NEW t \in Threads, async_condition_notify(t) \/ Put(t) \/ Take(t)
      PROVE  MutualExclusion'
  BY <1>7 DEF async_condition_notify, Put, Take
<1>8. ASSUME NEW t \in Threads, Woken(t) \/ WokenCas(t) \/ CondWakes(t) PROVE MutualExclusion'
  BY <1>8 DEF Woken, WokenCas, CondWakes, condition
<1> QED BY <1>1, <1>2, <1>3, <1>4, <1>5, <1>6, <1>7, <1>8 DEF AsyncNext, Step

-----------------------------------------------------------------------------
(* The mutex of a completion *)

(* Where the bit, and who has the mutex, matter.                           *)
Lending == {"complete", "completeFirst", "completeAgain", "check", "giveBack"}

(* A step of t elsewhere.                                                  *)
LEMMA LendFrame ==
  ASSUME LendInv, bit' = bit, NEW t \in Threads,
         \A u \in Threads : u # t => at'[u] = at[u],
         at[t] \notin Lending \/ at'[t] = at[t], at'[t] \notin Lending \/ at'[t] = at[t]
  PROVE  LendInv' /\ (Completed' <=> Completed)
<1>1. \A u \in Threads : at'[u] = at[u] \/ (u = t /\ at[u] \notin Lending /\ at'[u] \notin Lending)
  OBVIOUS
<1> QED BY <1>1 DEF LendInv, Completed, Borrowed, Busy, Lending

(* A call begins: complete and check, as the callers use them.             *)
LEMMA LendCall ==
  ASSUME AsyncTypeOK, LendInv, NEW t \in Threads, Call(t)
  PROVE  LendInv' /\ (Completed' <=> Completed)
<1>1. PICK l \in {"complete", "await", "check", "inc", "dec", "take", "give"} :
        /\ l = "complete" => ~Busy({"complete", "completeFirst", "completeAgain"})
        /\ l = "complete" /\ Completed => ~Busy({"check", "giveBack"})
        /\ l = "check" /\ Completed => ~Busy({"complete", "completeAgain"})
        /\ Goto(t, l)
  BY DEF Call
<1>2. at[t] = "idle" /\ at'[t] = l /\ (\A u \in Threads : u # t => at'[u] = at[u]) /\ bit' = bit
  BY <1>1 DEF Call, Goto, AsyncTypeOK
<1>3. Completed' <=> Completed
  BY <1>1, <1>2 DEF Completed, Borrowed
<1>4. CASE l = "complete"
  BY <1>1, <1>2, <1>3, <1>4 DEF LendInv, Completed, Borrowed, Busy
<1>5. CASE l = "check"
  BY <1>1, <1>2, <1>3, <1>5 DEF LendInv, Completed, Borrowed, Busy
<1>6. CASE l \notin Lending
  BY <1>2, <1>6, LendFrame DEF Lending
<1> QED BY <1>3, <1>4, <1>5, <1>6 DEF Lending

(* The mutex is taken, tried and given back; what the API sees of it.      *)
LEMMA LendComplete ==
  ASSUME AsyncTypeOK, LendInv, NEW t \in Threads, async_completion_complete(t)
  PROVE  LendInv' /\ (Completed' \/ (Completed' <=> Completed))
<1>1. at[t] = "complete" /\ \A u \in Threads : u # t => at'[u] = at[u]
  BY DEF async_completion_complete, Goto, AsyncTypeOK
<1>2. CASE arch = "spin"
  <2>1. bit' = TRUE /\ at'[t] = "idle"
    BY <1>2 DEF async_completion_complete, Goto, AsyncTypeOK
  <2> QED BY <1>1, <2>1 DEF LendInv, Completed, Borrowed, Busy
<1>3. CASE arch # "spin" /\ bit
  <2>1. bit' = FALSE /\ at'[t] = "completeAgain"
    BY <1>3 DEF async_completion_complete, Goto, AsyncTypeOK
  <2> QED BY <1>1, <1>3, <2>1 DEF LendInv, Completed, Borrowed, Busy
<1>4. CASE arch # "spin" /\ ~bit
  <2>1. bit' = FALSE /\ at'[t] = "completeFirst"
    BY <1>4 DEF async_completion_complete, Goto, AsyncTypeOK
  <2> QED BY <1>1, <1>4, <2>1 DEF LendInv, Completed, Borrowed, Busy
<1> QED BY <1>2, <1>3, <1>4

(* Whoever has the mutex gives it back.                                    *)
LEMMA LendUnlock ==
  ASSUME AsyncTypeOK, LendInv, NEW t \in Threads, CompleteUnlock(t) \/ CheckUnlock(t)
  PROVE  LendInv' /\ Completed'
<1>1. /\ at[t] \in {"completeFirst", "completeAgain", "giveBack"} /\ at'[t] = "idle"
      /\ bit' = TRUE /\ \A u \in Threads : u # t => at'[u] = at[u]
  BY DEF CompleteUnlock, CheckUnlock, Goto, AsyncTypeOK
<1>2. \A u \in Threads : u # t => ~Borrowed(u)
  BY <1>1 DEF LendInv, Completed, Borrowed
<1>3. Completed'
  BY <1>1 DEF Completed
<1>4. ASSUME NEW u \in Threads, at'[u] = "completeFirst" \/ at'[u] = "completeAgain" PROVE FALSE
  <2>1. u # t /\ at[u] = at'[u]
    BY <1>1, <1>4
  <2>2. at[u] = "completeFirst"
    BY <1>2, <1>4, <2>1 DEF Borrowed
  <2>3. at[t] = "giveBack"
    BY <1>1, <2>1, <2>2 DEF LendInv
  <2> QED BY <2>2, <2>3 DEF LendInv, Completed, Borrowed
<1>5. ASSUME NEW u \in Threads, at'[u] = "complete", NEW w \in Threads, at'[w] \in {"check", "giveBack"}
      PROVE  FALSE
  <2>1. u # t /\ at[u] = "complete" /\ w # t /\ at[w] \in {"check", "giveBack"}
    BY <1>1, <1>5
  <2>2. at[t] = "giveBack"
    BY <1>1, <2>1 DEF LendInv
  <2> QED BY <2>1, <2>2 DEF LendInv, Completed, Borrowed, Busy
<1> QED BY <1>1, <1>2, <1>3, <1>4, <1>5 DEF LendInv, Borrowed, Busy

(* A wait takes the bit from nobody: nobody has the mutex.                 *)
LEMMA LendWait ==
  ASSUME AsyncTypeOK, LendInv, NEW t \in Threads, async_completion_wait(t)
  PROVE  LendInv' /\ Completed /\ ~Completed'
<1>1. /\ at[t] = "await" /\ at'[t] = "idle" /\ bit /\ bit' = FALSE
      /\ \A u \in Threads : u # t => at'[u] = at[u]
  BY DEF async_completion_wait, Goto, AsyncTypeOK
<1>2. \A u \in Threads : ~Borrowed(u)
  BY <1>1 DEF LendInv
<1> QED BY <1>1, <1>2 DEF LendInv, Completed, Borrowed, Busy

(* A check borrows the mutex, or finds it taken.                           *)
LEMMA LendCheck ==
  ASSUME AsyncTypeOK, LendInv, NEW t \in Threads, async_completion_check(t)
  PROVE  LendInv' /\ (Completed' <=> Completed)
<1>1. at[t] = "check" /\ \A u \in Threads : u # t => at'[u] = at[u]
  BY DEF async_completion_check, Goto, AsyncTypeOK
<1>2. CASE arch = "mutex" /\ bit
  <2>1. bit' = FALSE /\ at'[t] = "giveBack"
    BY <1>2 DEF async_completion_check, Goto, AsyncTypeOK
  <2> QED BY <1>1, <1>2, <2>1 DEF LendInv, Completed, Borrowed, Busy
<1>3. CASE ~(arch = "mutex" /\ bit)
  <2>1. bit' = bit /\ at'[t] = "idle"
    BY <1>3 DEF async_completion_check, Goto, AsyncTypeOK
  <2> QED BY <1>1, <2>1 DEF LendInv, Completed, Borrowed, Busy
<1> QED BY <1>2, <1>3

(* The other steps are elsewhere.                                          *)
LEMMA Elsewhere ==
  ASSUME AsyncTypeOK, NEW t \in Threads,
         \/ async_semaphore_inc(t) \/ async_semaphore_dec(t) \/ DecCas(t)
         \/ async_condition_lock(t) \/ async_condition_wait(t) \/ async_condition_notify(t)
         \/ async_condition_unlock(t) \/ Take(t) \/ Put(t) \/ Woken(t) \/ WokenCas(t)
         \/ CondWakes(t)
  PROVE  /\ bit' = bit /\ awaited' = awaited
         /\ \A u \in Threads : u # t => at'[u] = at[u]
         /\ at[t] \notin Lending \/ at'[t] = at[t]
         /\ at'[t] \notin Lending \/ at'[t] = at[t]
<1> USE DEF AsyncTypeOK, Goto, Lending
<1>1. CASE async_semaphore_inc(t) \/ async_semaphore_dec(t) \/ DecCas(t)
  BY <1>1 DEF async_semaphore_inc, async_semaphore_dec, DecCas
<1>2. CASE async_condition_lock(t) \/ async_condition_wait(t)
  BY <1>2 DEF async_condition_lock, async_condition_wait
<1>3. CASE async_condition_notify(t) \/ async_condition_unlock(t) \/ Take(t) \/ Put(t)
  BY <1>3 DEF async_condition_notify, async_condition_unlock, Take, Put
<1>4. CASE Woken(t) \/ WokenCas(t) \/ CondWakes(t)
  BY <1>4 DEF Woken, WokenCas, CondWakes
<1> QED BY <1>1, <1>2, <1>3, <1>4

-----------------------------------------------------------------------------
(* The theorems *)

(* Every step keeps the invariant, and is a step of the API: what each     *)
(* kind of step is to the completion of the API.                           *)
LEMMA LendStep ==
  ASSUME AsyncInv, [AsyncNext]_avars
  PROVE  LendInv'
<1>1. AsyncTypeOK /\ LendInv
  BY DEF AsyncInv
<1>2. CASE UNCHANGED avars
  BY <1>1, <1>2 DEF avars, LendInv, Completed, Borrowed, Busy
<1>3. ASSUME NEW t \in Threads,
             \/ async_semaphore_inc(t) \/ async_semaphore_dec(t) \/ DecCas(t)
             \/ async_condition_lock(t) \/ async_condition_wait(t) \/ async_condition_notify(t)
             \/ async_condition_unlock(t) \/ Take(t) \/ Put(t) \/ Woken(t) \/ WokenCas(t)
             \/ CondWakes(t)
      PROVE  LendInv'
  BY <1>1, <1>3, Elsewhere, LendFrame
<1> QED BY <1>1, <1>2, <1>3, LendCall, LendComplete, LendUnlock, LendWait, LendCheck
    DEF AsyncNext, Step

(* Init satisfies the invariant.                                           *)
LEMMA AsyncInitInv == AsyncInit => AsyncInv
<1> SUFFICES ASSUME AsyncInit PROVE AsyncInv
  OBVIOUS
<1>1. AsyncTypeOK
  BY DEF AsyncInit, AsyncTypeOK, AsyncPC
<1>2. MutualExclusion /\ LendInv /\ DecInv
  BY DEF AsyncInit, MutualExclusion, Owning, LendInv, DecInv, Borrowed, Completed, Busy
<1> QED BY <1>1, <1>2 DEF AsyncInv

(* The inductive invariant of the primitives of both builds.               *)
THEOREM AsyncInvariant == AsyncSpec => []AsyncInv
<1>1. AsyncInv /\ [AsyncNext]_avars => AsyncInv'
  BY AsyncTypes, DecStep, ExclusionStep, LendStep DEF AsyncInv
<1> QED BY <1>1, AsyncInitInv, PTL DEF AsyncSpec

-----------------------------------------------------------------------------
(* The refinement *)

(* Who holds the lock of the condition, in this state and in the next.     *)
LEMMA HolderIs ==
  ASSUME AsyncTypeOK
  PROVE  /\ MutualExclusion => \A t \in Threads : at[t] \in Owning => Holder = t
         /\ MutualExclusion' => \A t \in Threads : at'[t] \in Owning => Holder' = t
         /\ (\A t \in Threads : at[t] \notin Owning) => Holder = NoThread
         /\ (\A t \in Threads : at'[t] \notin Owning) => Holder' = NoThread
<1>1. ASSUME NEW f, NEW t \in Threads, f[t] \in Owning,
             \A u, w \in Threads : f[u] \in Owning /\ f[w] \in Owning => u = w
      PROVE  (IF \E u \in Threads : f[u] \in Owning
                THEN CHOOSE u \in Threads : f[u] \in Owning ELSE NoThread) = t
  <2>1. \E u \in Threads : f[u] \in Owning
    BY <1>1
  <2>2. (CHOOSE u \in Threads : f[u] \in Owning) \in Threads
        /\ f[CHOOSE u \in Threads : f[u] \in Owning] \in Owning
    BY <2>1
  <2> QED BY <1>1, <2>1, <2>2
<1>2. MutualExclusion => \A t \in Threads : at[t] \in Owning => Holder = t
  BY <1>1, Zenon DEF MutualExclusion, Holder
<1>3. MutualExclusion' => \A t \in Threads : at'[t] \in Owning => Holder' = t
  BY <1>1, Zenon DEF MutualExclusion, Holder, Owning
<1>4. /\ (\A t \in Threads : at[t] \notin Owning) => Holder = NoThread
      /\ (\A t \in Threads : at'[t] \notin Owning) => Holder' = NoThread
  BY DEF Holder, Owning
<1> QED BY <1>2, <1>3, <1>4

(* A step that changes neither owner nor sleepers.                         *)
LEMMA OwnersKept ==
  ASSUME AsyncTypeOK, MutualExclusion, MutualExclusion',
         \A t \in Threads : /\ at'[t] \in Owning <=> at[t] \in Owning
                            /\ at'[t] \in Sleeping <=> at[t] \in Sleeping
  PROVE  Holder' = Holder /\ Waiting' = Waiting
<1>1. Waiting' = Waiting
  BY DEF Waiting, Sleeping
<1>2. CASE \E t \in Threads : at[t] \in Owning
  <2>1. PICK t \in Threads : at[t] \in Owning
    BY <1>2
  <2> QED BY <1>1, <2>1, HolderIs
<1>3. CASE \A t \in Threads : at[t] \notin Owning
  BY <1>1, <1>3, HolderIs
<1> QED BY <1>2, <1>3

(* Completed is a Boolean: equivalent is equal.                            *)
LEMMA Same ==
  /\ (Completed' <=> Completed) => Completed' = Completed
  /\ Completed' => Completed' = TRUE
BY DEF Completed

(* Both builds implement async_api.h: every step is a step of the API, or  *)
(* one that it does not see.                                               *)
THEOREM AsyncImplementsApi == AsyncSpec => ImplementsApi
<1>1. AsyncInit => Api!Init
  <2> SUFFICES ASSUME AsyncInit PROVE Api!Init
    OBVIOUS
  <2>1. Completed = FALSE /\ awaited = 0 /\ value = 0
    BY DEF AsyncInit, Completed, Borrowed
  <2>2. Holder = NoThread /\ Waiting = {}
    BY DEF AsyncInit, Holder, Waiting, Owning, Sleeping
  <2> QED BY <2>1, <2>2 DEF Api!Init
<1>2. AsyncInv /\ AsyncInv' /\ [AsyncNext]_avars => [Api!Next]_Api!vars
  <2> SUFFICES ASSUME AsyncInv, AsyncInv', [AsyncNext]_avars
               PROVE  Api!Next \/ UNCHANGED <<Completed, awaited, value, Holder, Waiting>>
    BY DEF Api!vars
  <2> DEFINE Stutter == UNCHANGED <<Completed, awaited, value, Holder, Waiting>>
  <2>1. AsyncTypeOK /\ MutualExclusion /\ MutualExclusion' /\ LendInv /\ DecInv
    BY DEF AsyncInv
  <2>2. ASSUME \A t \in Threads : /\ at'[t] \in Owning <=> at[t] \in Owning
                                  /\ at'[t] \in Sleeping <=> at[t] \in Sleeping
        PROVE  Holder' = Holder /\ Waiting' = Waiting
    BY <2>1, <2>2, OwnersKept
  <2>3. CASE UNCHANGED avars
    <3>1. Holder' = Holder /\ Waiting' = Waiting
      BY <2>2, <2>3 DEF avars
    <3> QED BY <2>3, <3>1 DEF avars, Completed, Borrowed
  <2>4. ASSUME NEW t \in Threads, Call(t) PROVE Stutter
    <3>0. Completed' <=> Completed
      BY <2>1, <2>4, LendCall
    <3>1. Completed' = Completed
      BY <3>0, Same
    <3>2. Holder' = Holder /\ Waiting' = Waiting
      BY <2>1, <2>2, <2>4 DEF Call, Goto, AsyncTypeOK, Owning, Sleeping
    <3> QED BY <2>4, <3>1, <3>2 DEF Call
  <2>5. ASSUME NEW t \in Threads,
               async_completion_complete(t) \/ CompleteUnlock(t) \/ CheckUnlock(t)
                 \/ async_completion_check(t)
        PROVE  Api!Complete \/ Stutter
    <3>0. Completed' \/ (Completed' <=> Completed)
      BY <2>1, <2>5, LendComplete, LendUnlock, LendCheck
    <3>1. Completed' = TRUE \/ Completed' = Completed
      BY <3>0, Same
    <3>2. Holder' = Holder /\ Waiting' = Waiting
      BY <2>1, <2>2, <2>5 DEF async_completion_complete, CompleteUnlock, CheckUnlock,
         async_completion_check, Goto, AsyncTypeOK, Owning, Sleeping
    <3>3. UNCHANGED <<awaited, value>>
      BY <2>5 DEF async_completion_complete, CompleteUnlock, CheckUnlock, async_completion_check
    <3> QED BY <3>1, <3>2, <3>3 DEF Api!Complete
  <2>6. ASSUME NEW t \in Threads, async_completion_wait(t) PROVE Api!Await
    <3>1. Completed /\ Completed' = FALSE
      BY <2>1, <2>6, LendWait
    <3>2. Holder' = Holder /\ Waiting' = Waiting
      BY <2>1, <2>2, <2>6 DEF async_completion_wait, Goto, AsyncTypeOK, Owning, Sleeping
    <3> QED BY <2>6, <3>1, <3>2 DEF async_completion_wait, Api!Await
  <2>7. ASSUME NEW t \in Threads,
               \/ async_semaphore_inc(t) \/ async_semaphore_dec(t) \/ DecCas(t)
               \/ async_condition_lock(t) \/ async_condition_wait(t) \/ async_condition_notify(t)
               \/ async_condition_unlock(t) \/ Take(t) \/ Put(t) \/ Woken(t) \/ WokenCas(t)
               \/ CondWakes(t)
        PROVE  Completed' = Completed /\ awaited' = awaited
    <3>1. Completed' <=> Completed
      BY <2>1, <2>7, Elsewhere, LendFrame
    <3>2. Completed' = Completed
      BY <3>1, Same
    <3> QED BY <2>1, <2>7, <3>2, Elsewhere
  <2>8. ASSUME NEW t \in Threads, async_semaphore_inc(t) PROVE Api!Inc
    <3>1. Holder' = Holder /\ Waiting' = Waiting
      BY <2>1, <2>2, <2>8 DEF async_semaphore_inc, Goto, AsyncTypeOK, Owning, Sleeping
    <3> QED BY <2>7, <2>8, <3>1 DEF async_semaphore_inc, Api!Inc
  <2>9. ASSUME NEW t \in Threads, async_semaphore_dec(t) \/ DecCas(t) PROVE Api!Dec \/ Stutter
    <3>1. Holder' = Holder /\ Waiting' = Waiting
      BY <2>1, <2>2, <2>9 DEF async_semaphore_dec, DecCas, Goto, AsyncTypeOK, Owning, Sleeping
    <3>2. value' = value \/ (value > 0 /\ value' = value - 1)
      BY <2>1, <2>9 DEF async_semaphore_dec, DecCas, DecInv
    <3> QED BY <2>7, <2>9, <3>1, <3>2 DEF Api!Dec
  <2>10. ASSUME NEW t \in Threads, async_condition_lock(t) PROVE Api!Lock(t)
    <3>1. /\ at[t] \in {"take", "give", "relock"} /\ free /\ value' = value
          /\ at'[t] \in {"put", "test"} /\ \A u \in Threads : u # t => at'[u] = at[u]
      BY <2>1, <2>10 DEF async_condition_lock, Goto, AsyncTypeOK
    <3>2. Holder = NoThread /\ Holder' = t
      BY <2>1, <3>1, HolderIs DEF MutualExclusion, Owning
    <3>3. Waiting' = Waiting /\ t \notin Waiting
      BY <3>1 DEF Waiting, Sleeping
    <3> QED BY <2>7, <2>10, <3>1, <3>2, <3>3 DEF Api!Lock
  <2>11. ASSUME NEW t \in Threads, async_condition_wait(t) PROVE Api!Wait
    <3>1. /\ at[t] = "test" /\ value' = value
          /\ at'[t] = "sleep" /\ \A u \in Threads : u # t => at'[u] = at[u]
      BY <2>1, <2>11 DEF async_condition_wait, Goto, AsyncTypeOK
    <3>2. Holder = t /\ Holder' = NoThread
      BY <2>1, <3>1, HolderIs DEF MutualExclusion, Owning
    <3>3. Waiting' = Waiting \cup {t}
      BY <3>1 DEF Waiting, Sleeping
    <3> QED BY <2>7, <2>11, <3>1, <3>2, <3>3 DEF Api!Wait
  <2>12. ASSUME NEW t \in Threads, async_condition_unlock(t) PROVE Api!Unlock
    <3>1. /\ at[t] = "unlock" /\ value' = value
          /\ at'[t] = "idle" /\ \A u \in Threads : u # t => at'[u] = at[u]
      BY <2>1, <2>12 DEF async_condition_unlock, Goto, AsyncTypeOK
    <3>2. Holder = t /\ Holder' = NoThread
      BY <2>1, <3>1, HolderIs DEF MutualExclusion, Owning
    <3>3. Waiting' = Waiting
      BY <3>1 DEF Waiting, Sleeping
    <3> QED BY <2>7, <2>12, <3>1, <3>2, <3>3 DEF Api!Unlock
  <2>13. ASSUME NEW t \in Threads,
                async_condition_notify(t) \/ Take(t) \/ Put(t) \/ CondWakes(t)
         PROVE  Stutter
    <3>1. Holder' = Holder /\ Waiting' = Waiting
      BY <2>1, <2>2, <2>13 DEF async_condition_notify, Take, Put, CondWakes, Goto, AsyncTypeOK,
         Owning, Sleeping
    <3>2. value' = value
      BY <2>13 DEF async_condition_notify, Take, Put, CondWakes
    <3> QED BY <2>7, <2>13, <3>1, <3>2
  <2>14. ASSUME NEW t \in Threads, Woken(t) \/ WokenCas(t) PROVE Api!Wake
    <3>1. /\ at[t] \in Sleeping /\ at'[t] \in {"relock", "sleep", "sleepCas"} /\ value' = value
          /\ \A u \in Threads : u # t => at'[u] = at[u]
      BY <2>1, <2>14 DEF Woken, WokenCas, Goto, AsyncTypeOK, Sleeping
    <3>2. Holder' = Holder
      <4>1. \A u \in Threads : at'[u] \in Owning <=> at[u] \in Owning
        BY <3>1 DEF Owning, Sleeping
      <4>2. CASE \E u \in Threads : at[u] \in Owning
        BY <2>1, <4>1, <4>2, HolderIs
      <4>3. CASE \A u \in Threads : at[u] \notin Owning
        BY <2>1, <4>1, <4>3, HolderIs
      <4> QED BY <4>2, <4>3
    <3>3. Waiting' = Waiting \ {} \/ Waiting' = Waiting \ {t}
      BY <3>1 DEF Waiting, Sleeping
    <3>4. {} \in SUBSET Waiting /\ {t} \in SUBSET Waiting
      BY <3>1 DEF Waiting
    <3> QED BY <2>7, <2>14, <3>1, <3>2, <3>3, <3>4 DEF Api!Wake
  <2> QED BY <2>3, <2>4, <2>5, <2>6, <2>8, <2>9, <2>10, <2>11, <2>12, <2>13, <2>14
      DEF AsyncNext, Step, Api!Next
<1> QED BY <1>1, <1>2, AsyncInvariant, PTL DEF AsyncSpec, ImplementsApi, Api!Spec

-----------------------------------------------------------------------------
(* The completions of guests                                               *)

(* A wait in a guest returns only after the completion, whatever rings the *)
(* bell: async_thread unlocks the mutex of a completed completion only.    *)
THEOREM IvshmemWaitAfterComplete == IvSpec => []WaitAfterComplete
<1> USE DEF WaitAfterComplete
<1>1. IvInit => WaitAfterComplete
  BY DEF IvInit
<1>2. ASSUME WaitAfterComplete, [IvNext]_ivars PROVE WaitAfterComplete'
  <2>1. CASE UNCHANGED ivars
    BY <1>2, <2>1 DEF ivars
  <2>2. CASE AsyncThread
    BY <1>2, <2>2 DEF AsyncThread, AsyncRead, AsyncWalk
  <2>3. ASSUME NEW t \in IvThreads, IvCall(t) PROVE WaitAfterComplete'
    BY <1>2, <2>3 DEF IvCall
  <2>4. ASSUME NEW t \in IvThreads, IvStep(t) PROVE WaitAfterComplete'
    <3>1. CASE Complete(t) \/ WaitReturns(t)
      BY <1>2, <3>1 DEF Complete, WaitReturns
    <3>2. CASE ~(Complete(t) \/ WaitReturns(t))
      BY <1>2, <2>4, <3>2
         DEF IvStep, Ring, _add_completion, SetVm, async_meta_exit, Inc, DecRead, DecSwap
    <3> QED BY <3>1, <3>2
  <2> QED BY <1>2, <2>1, <2>2, <2>3, <2>4 DEF IvNext
<1> QED BY <1>1, <1>2, PTL DEF IvSpec

-----------------------------------------------------------------------------
(* The parameters of the allocator                                         *)

USE MpAssumption

(* The fields that init_mparams writes, and that it writes none of them 0, *)
(* and a granularity that granularity_align can work with.                 *)
LEMMA Defaults ==
  /\ Fields = {"granularity", "page_size", "mmap_threshold", "trim_threshold", "default_mflags"}
  /\ Options \subseteq Fields /\ "magic" \notin Fields /\ "page_size" \notin Options
  /\ Writes \in Seq(Fields)
  /\ \A f \in Fields : Default[f] \in Nat \ {0} /\ \E i \in 1 .. Len(Writes) : Writes[i] = f
  /\ IsPowerOfTwo(Default["granularity"])
  /\ Default["granularity"] >= Default["page_size"]
<1>1. Len(Writes) = 5
  BY DEF Writes
<1>2. 1 .. 5 = {1, 2, 3, 4, 5}
  OBVIOUS
<1>3. Fields = {"granularity", "page_size", "mmap_threshold", "trim_threshold", "default_mflags"}
  BY <1>1, <1>2 DEF Fields, Writes
<1>4. Writes \in Seq(Fields)
  BY <1>3 DEF Writes
<1>5. \A f \in Fields : Default[f] \in Nat \ {0}
  BY <1>3 DEF Default
<1>6. \A f \in Fields : \E i \in 1 .. Len(Writes) : Writes[i] = f
  BY <1>1 DEF Fields
<1>7. IsPowerOfTwo(Default["granularity"])
  <2>1. 8 = 2 ^ 3
    OBVIOUS
  <2>2. Default["granularity"] = 8
    BY DEF Default
  <2>3. \E k \in 0 .. 8 : 8 = 2 ^ k
    <3>1. 3 \in 0 .. 8
      OBVIOUS
    <3> QED BY <2>1, <3>1, Zenon
  <2> QED BY <2>2, <2>3 DEF IsPowerOfTwo
<1> QED BY <1>3, <1>4, <1>5, <1>6, <1>7 DEF Options, Default

(* The lock has one holder: it is taken only when nobody is inside.        *)
LEMMA LockStep ==
  ASSUME MpTypeOK, LockHeld, [MpNext]_pvars
  PROVE  LockHeld'
<1> USE DEF MpTypeOK, LockHeld, Inside, At
<1>1. CASE UNCHANGED pvars
  BY <1>1 DEF pvars
<1>2. ASSUME NEW t \in MpThreads, MpCall(t) \/ mspace_mallopt(t) \/ ensure_initialization(t)
      PROVE  LockHeld'
  BY <1>2 DEF MpCall, mspace_mallopt, ensure_initialization
<1>3. ASSUME NEW t \in MpThreads, AcquireLock(t) PROVE LockHeld'
  BY <1>3 DEF AcquireLock
<1>4. ASSUME NEW t \in MpThreads, init_mparams(t) \/ WriteField(t) \/ WriteMagic(t)
      PROVE  LockHeld'
  BY <1>4 DEF init_mparams, WriteField, WriteMagic
<1>5. ASSUME NEW t \in MpThreads, ReleaseLock(t) PROVE LockHeld'
  BY <1>5 DEF ReleaseLock
<1>6. ASSUME NEW t \in MpThreads, change_mparam(t) \/ UseParams(t) PROVE LockHeld'
  BY <1>6 DEF change_mparam, UseParams
<1> QED BY <1>1, <1>2, <1>3, <1>4, <1>5, <1>6 DEF MpNext, MpStep

(* A step that writes nothing keeps what is said of the parameters, if the *)
(* place that it goes to is one for which nothing is asked.                *)
LEMMA MpQuiet ==
  ASSUME MpInv, UNCHANGED <<mparams, unset, accepted>>,
         NEW t \in MpThreads, NEW l \in {"idle", "ensure", "cas", "spin", "locked", "release", "use"},
         step' = [step EXCEPT ![t] = l],
         l \in {"release", "use"} => mparams["magic"] # 0
  PROVE  Initialising' /\ Initialised' /\ OptionsKept'
BY DEF MpInv, MpTypeOK, Initialising, Initialised, AllSet, OptionsKept

(* No thread passes the test of magic before everything is written, and    *)
(* nobody writes a default once mallopt may have changed something.        *)
LEMMA MpInvStep ==
  ASSUME MpInv, [MpNext]_pvars
  PROVE  MpInv'
<1>1. CASE UNCHANGED pvars
  BY <1>1 DEF pvars, MpInv, MpTypeOK, LockHeld, Inside, Initialising, Initialised, AllSet,
              OptionsKept
<1>l. LockHeld'
  BY LockStep DEF MpInv
<1>2. ASSUME NEW t \in MpThreads, MpCall(t) \/ mspace_mallopt(t) PROVE MpInv'
  <2>1. MpTypeOK'
    <3>1. CASE MpCall(t)
      BY <3>1 DEF MpInv, MpTypeOK, MpCall, At
    <3>2. CASE mspace_mallopt(t)
      <4>1. PICK o \in Options, v \in Asked : option' = [option EXCEPT ![t] = <<o, v>>]
        BY <3>2 DEF mspace_mallopt
      <4>2. <<o, v>> \in Options \X Asked
        OBVIOUS
      <4>3. option' \in [MpThreads -> {<<>>} \cup Options \X Asked]
        BY <4>1, <4>2 DEF MpInv, MpTypeOK
      <4> QED BY <3>2, <4>3 DEF MpInv, MpTypeOK, mspace_mallopt, At
    <3> QED BY <1>2, <3>1, <3>2
  <2>2. /\ step' = [step EXCEPT ![t] = "ensure"]
        /\ UNCHANGED <<mparams, unset, accepted>>
    BY <1>2 DEF MpCall, mspace_mallopt, At
  <2> QED BY <1>l, <2>1, <2>2, MpQuiet DEF MpInv
<1>3. ASSUME NEW t \in MpThreads, ensure_initialization(t) \/ AcquireLock(t) PROVE MpInv'
  <2>1. MpTypeOK'
    BY <1>3 DEF MpInv, MpTypeOK, ensure_initialization, AcquireLock, At
  <2>2. PICK l \in {"cas", "spin", "locked", "use"} :
          step' = [step EXCEPT ![t] = l] /\ (l = "use" => mparams["magic"] # 0)
    BY <1>3 DEF ensure_initialization, AcquireLock, At
  <2>3. UNCHANGED <<mparams, unset, accepted>>
    BY <1>3 DEF ensure_initialization, AcquireLock
  <2>4. Initialising' /\ Initialised' /\ OptionsKept'
    BY <2>2, <2>3, MpQuiet
  <2> QED BY <1>l, <2>1, <2>4 DEF MpInv
<1>4. ASSUME NEW t \in MpThreads, init_mparams(t) PROVE MpInv'
  <2>1. CASE mparams["magic"] # 0
    <3>1. MpTypeOK'
      BY <1>4, <2>1 DEF MpInv, MpTypeOK, init_mparams, At
    <3>2. /\ step' = [step EXCEPT ![t] = "release"]
          /\ UNCHANGED <<mparams, unset, accepted>>
      BY <1>4, <2>1 DEF init_mparams, At
    <3> QED BY <1>l, <2>1, <3>1, <3>2, MpQuiet DEF MpInv
  <2>2. CASE mparams["magic"] = 0
    <3>1. /\ step[t] = "locked" /\ step' = [step EXCEPT ![t] = "write"] /\ unset' = Writes
          /\ UNCHANGED <<mparams, mutex, option, accepted>>
      BY <1>4, <2>2 DEF init_mparams, At
    <3>2. MpTypeOK'
      BY <3>1, Defaults DEF MpInv, MpTypeOK
    <3>3. Initialising'
      BY <2>2, <3>1, Defaults DEF MpInv, MpTypeOK, Initialising
    <3>4. Initialised' /\ OptionsKept'
      BY <3>1 DEF MpInv, Initialised, AllSet, OptionsKept
    <3> QED BY <1>l, <3>2, <3>3, <3>4 DEF MpInv
  <2> QED BY <2>1, <2>2
<1>5. ASSUME NEW t \in MpThreads, WriteField(t) PROVE MpInv'
  <2> DEFINE f == Head(unset)
  <2>1. /\ step[t] = "write" /\ unset # <<>> /\ unset' = Tail(unset)
        /\ mparams' = [mparams EXCEPT ![f] = Default[f]]
        /\ UNCHANGED <<mutex, step, option, accepted>>
    BY <1>5 DEF WriteField
  <2>2. f \in Fields /\ unset \in Seq(Fields) /\ Tail(unset) \in Seq(Fields)
    BY <2>1 DEF MpInv, MpTypeOK
  <2> HIDE DEF f
  <2>3. MpTypeOK'
    BY <2>1, <2>2, Defaults DEF MpInv, MpTypeOK
  <2>4. mparams["magic"] = 0 /\ mparams'["magic"] = 0
    BY <2>1, <2>2, Defaults DEF MpInv, MpTypeOK, Initialising
  <2>5. ASSUME NEW g \in Fields
        PROVE  mparams'[g] = Default[g] \/ \E i \in 1 .. Len(unset') : unset'[i] = g
    <3>1. CASE g = f
      BY <2>1, <2>2, <3>1 DEF MpInv, MpTypeOK
    <3>2. CASE g # f
      <4>1. mparams[g] = Default[g] \/ \E i \in 1 .. Len(unset) : unset[i] = g
        BY <2>1 DEF MpInv, Initialising
      <4>2. mparams'[g] = mparams[g]
        BY <2>1, <3>2 DEF MpInv, MpTypeOK
      <4>3. ASSUME NEW i \in 1 .. Len(unset), unset[i] = g
            PROVE  \E j \in 1 .. Len(unset') : unset'[j] = g
        <5>1. i # 1
          BY <2>1, <2>2, <3>2, <4>3 DEF f
        <5>2. i - 1 \in 1 .. Len(Tail(unset)) /\ Tail(unset)[i - 1] = unset[i]
          BY <2>1, <2>2, <5>1
        <5> QED BY <2>1, <4>3, <5>2
      <4> QED BY <4>1, <4>2, <4>3
    <3> QED BY <3>1, <3>2
  <2>6. Initialising'
    BY <2>1, <2>4, <2>5 DEF MpInv, Initialising
  <2>7. Initialised' /\ OptionsKept'
    BY <2>1, <2>4 DEF MpInv, MpTypeOK, Initialised, OptionsKept
  <2> QED BY <1>l, <2>3, <2>6, <2>7 DEF MpInv
<1>6. ASSUME NEW t \in MpThreads, WriteMagic(t) PROVE MpInv'
  <2>1. /\ unset = <<>> /\ step[t] = "write" /\ step' = [step EXCEPT ![t] = "release"]
        /\ mparams' = [mparams EXCEPT !["magic"] = 1]
        /\ UNCHANGED <<mutex, option, unset, accepted>>
    BY <1>6 DEF WriteMagic, At
  <2>2. MpTypeOK'
    BY <2>1 DEF MpInv, MpTypeOK
  <2>3. \A f \in Fields : mparams[f] = Default[f] /\ mparams'[f] = mparams[f]
    BY <2>1, Defaults DEF MpInv, MpTypeOK, Initialising
  <2>4. /\ mparams'["magic"] = 1 /\ mparams["magic"] = 0
        /\ \A o \in Options : accepted[o] = Unasked /\ accepted'[o] = Unasked
    BY <2>1 DEF MpInv, MpTypeOK, Initialising, Initialised
  <2>5. \A u \in MpThreads : step'[u] # "write"
    BY <2>1 DEF MpInv, MpTypeOK, LockHeld, Inside
  <2>6. Initialising'
    BY <2>4, <2>5 DEF Initialising
  <2>7. AllSet'
    BY <2>3, Defaults, SMTT(30) DEF AllSet
  <2> QED BY <1>l, <2>2, <2>4, <2>6, <2>7 DEF MpInv, Initialised, OptionsKept
<1>7. ASSUME NEW t \in MpThreads, ReleaseLock(t) PROVE MpInv'
  <2>1. /\ step[t] = "release" /\ step' = [step EXCEPT ![t] = "use"]
        /\ UNCHANGED <<mparams, unset, accepted>>
    BY <1>7 DEF ReleaseLock, At
  <2>2. MpTypeOK' /\ mparams["magic"] # 0
    BY <1>7, <2>1 DEF MpInv, MpTypeOK, Initialising, ReleaseLock, At
  <2> QED BY <1>l, <2>1, <2>2, MpQuiet DEF MpInv
<1>8. ASSUME NEW t \in MpThreads, UseParams(t) PROVE MpInv'
  <2>1. step' = [step EXCEPT ![t] = "idle"] /\ UNCHANGED <<mparams, unset, accepted>>
    BY <1>8 DEF UseParams, At
  <2>2. MpTypeOK'
    BY <1>8 DEF MpInv, MpTypeOK, UseParams, At
  <2> QED BY <1>l, <2>1, <2>2, MpQuiet DEF MpInv
<1>9. ASSUME NEW t \in MpThreads, change_mparam(t) PROVE MpInv'
  <2> DEFINE o == option[t][1]
             v == option[t][2]
  <2>1. /\ step[t] = "use" /\ step' = [step EXCEPT ![t] = "idle"]
        /\ option' = [option EXCEPT ![t] = <<>>]
        /\ o \in Options /\ v \in Nat
        /\ UNCHANGED <<mutex, unset>>
    BY <1>9 DEF MpInv, MpTypeOK, change_mparam, At
  <2>2. \/ UNCHANGED <<mparams, accepted>>
        \/ /\ mparams' = [mparams EXCEPT ![o] = v] /\ accepted' = [accepted EXCEPT ![o] = v]
           /\ o = "granularity" => v >= mparams["page_size"] /\ IsPowerOfTwo(v)
    BY <1>9 DEF change_mparam, Change
  <2> HIDE DEF o, v
  <2>3. CASE UNCHANGED <<mparams, accepted>>
    <3>1. MpTypeOK'
      BY <2>1, <2>3 DEF MpInv, MpTypeOK
    <3> QED BY <1>l, <2>1, <2>3, <3>1, MpQuiet DEF MpInv
  <2>4. CASE /\ mparams' = [mparams EXCEPT ![o] = v] /\ accepted' = [accepted EXCEPT ![o] = v]
             /\ o = "granularity" => v >= mparams["page_size"] /\ IsPowerOfTwo(v)
    <3>1. mparams["magic"] # 0 /\ mparams'["magic"] = mparams["magic"]
      BY <2>1, <2>4, Defaults DEF MpInv, MpTypeOK, Initialising
    <3>2. MpTypeOK'
      BY <2>1, <2>4, Defaults DEF MpInv, MpTypeOK
    <3>3. Initialising'
      BY <2>1, <3>1 DEF MpInv, MpTypeOK, Initialising
    <3>4. \A f \in Fields \ {o} :
            mparams'[f] = mparams[f] /\ (f \in Options => accepted'[f] = accepted[f])
      BY <2>4 DEF MpInv, MpTypeOK
    <3>5. mparams'[o] = v /\ accepted'[o] = v
      BY <2>1, <2>4, Defaults DEF MpInv, MpTypeOK
    <3>6. AllSet'
      <4>1. AllSet
        BY <3>1 DEF MpInv, Initialised
      <4>2. \A f \in Fields : mparams'[f] # 0 \/ (f \in Options /\ accepted'[f] = 0)
        BY <2>1, <3>4, <3>5, <4>1 DEF AllSet
      <4>3. mparams'["page_size"] = mparams["page_size"]
        BY <2>1, <3>4, Defaults
      <4>4. IsPowerOfTwo(mparams'["granularity"]) /\ mparams'["granularity"] >= mparams["page_size"]
        BY <2>4, <3>4, <3>5, <4>1, Defaults DEF AllSet
      <4> QED BY <4>2, <4>3, <4>4 DEF AllSet
    <3>7. OptionsKept'
      <4>1. ASSUME NEW f \in Options, accepted'[f] # Unasked PROVE mparams'[f] = accepted'[f]
        <5>1. CASE f = o
          BY <3>5, <5>1
        <5>2. CASE f # o
          <6>1. f \in Fields \ {o}
            BY <5>2, Defaults
          <6> QED BY <3>4, <4>1, <6>1 DEF MpInv, OptionsKept
        <5> QED BY <5>1, <5>2
      <4> QED BY <4>1 DEF OptionsKept
    <3> QED BY <1>l, <3>1, <3>2, <3>3, <3>6, <3>7 DEF MpInv, Initialised
  <2> QED BY <2>2, <2>3, <2>4
<1> QED BY <1>1, <1>2, <1>3, <1>4, <1>5, <1>6, <1>7, <1>8, <1>9 DEF MpNext, MpStep

(* The test of magic outside the lock is enough: whichever threads come    *)
(* first, whoever passes ensure_initialization finds all parameters set    *)
(* and a granularity that can be worked with, and what mallopt accepted is *)
(* never overwritten by a default.                                         *)
THEOREM MparamsSound == MpSpec => []ParamsSound
<1>1. MpInit => MpInv
  BY Defaults DEF MpInit, MpInv, MpTypeOK, LockHeld, Inside, Initialising, Initialised, OptionsKept
<1>2. MpInv /\ [MpNext]_pvars => MpInv'
  BY MpInvStep
<1>3. MpInv => ParamsSound
  BY DEF MpInv, Initialising, Initialised, ParamsSound, ParamsUsable
<1> QED BY <1>1, <1>2, <1>3, PTL DEF MpSpec
=============================================================================
