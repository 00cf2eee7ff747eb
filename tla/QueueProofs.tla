---------------------------- MODULE QueueProofs ----------------------------
(***************************************************************************)
(* Proofs about utils_queue_s, for any threads, any capacity and any width *)
(* of the counters that the capacity divides.                              *)
(***************************************************************************)
EXTENDS Queue, TLAPS

-----------------------------------------------------------------------------
(* Counters that wrap.                                                     *)

\* Quotient and remainder of a natural number.
LEMMA DivMod ==
  ASSUME NEW W \in Nat \ {0}, NEW n \in Nat
  PROVE  /\ n \div W \in Nat
         /\ n % W \in 0 .. W - 1
         /\ n = W * (n \div W) + (n % W)
  OBVIOUS

\* A multiple of W that is smaller than W is zero.
LEMMA SmallMultiple ==
  ASSUME NEW W \in Nat \ {0}, NEW k \in Int, W * k < W, -W < W * k
  PROVE  k = 0
<1>1. CASE k >= 1
  BY <1>1
<1>2. CASE k <= -1
  BY <1>2
<1> QED BY <1>1, <1>2

\* A number below the width is its own remainder after whole turns.
LEMMA ModUnique ==
  ASSUME NEW W \in Nat \ {0}, NEW q \in Int, NEW r \in 0 .. W - 1,
         NEW n \in Nat, n = W * q + r
  PROVE  n % W = r
  OBVIOUS

\* Two counters less than a full turn apart that look equal are equal.
LEMMA ModInjective ==
  ASSUME NEW W \in Nat \ {0}, NEW x \in Nat, NEW y \in Nat,
         x <= y, y - x < W, x % W = y % W
  PROVE  x = y
<1> DEFINE k == (y \div W) - (x \div W)
<1>1. y - x = W * k /\ k \in Int
  BY DivMod
<1>2. k = 0
  BY <1>1, SmallMultiple
<1> QED BY <1>1, <1>2

\* Incrementing the wrapped counter is wrapping the incremented one.
LEMMA ModInc ==
  ASSUME NEW W \in Nat \ {0}, NEW n \in Nat
  PROVE  ((n % W) + 1) % W = (n + 1) % W
<1> DEFINE q == n \div W
           r == n % W
<1>1. q \in Nat /\ r \in 0 .. W - 1 /\ n = W * q + r
  BY DivMod
<1>2. CASE r + 1 < W
  <2>1. (n + 1) % W = r + 1
    <3> HIDE DEF q, r
    <3>1. n + 1 = W * q + (r + 1)
      BY <1>1
    <3> QED BY <1>1, <1>2, <3>1, ModUnique
  <2>2. (r + 1) % W = r + 1
    <3> HIDE DEF q, r
    <3>1. r + 1 = W * 0 + (r + 1)
      BY <1>1
    <3> QED BY <1>1, <1>2, <3>1, ModUnique
  <2> QED BY <2>1, <2>2
<1>3. CASE r + 1 = W
  <2>1. (n + 1) % W = 0
    <3> HIDE DEF q, r
    <3>1. n + 1 = W * (q + 1) + 0
      BY <1>1, <1>3
    <3> QED BY <1>1, <3>1, ModUnique
  <2>2. (r + 1) % W = 0
    <3> HIDE DEF q, r
    <3>1. r + 1 = W * 1 + 0
      BY <1>1, <1>3
    <3> QED BY <1>1, <3>1, ModUnique
  <2> QED BY <2>1, <2>2
<1> QED BY <1>1, <1>2, <1>3

\* UTILS_QUEUE_CAPACITY and the width of the counters, as the proofs use them.
LEMMA Sizes == Wrap \in Nat \ {0} /\ Capacity \in Nat \ {0} /\ Capacity < Wrap
  BY QueueAssumption

\* Capacity divides Wrap, so the slot of a wrapped counter is the slot of
\* the counter itself.
LEMMA SlotOfWrapped ==
  ASSUME NEW n \in Nat
  PROVE  Slot(n % Wrap) = n % Capacity
<1> DEFINE q == n \div Wrap
           r == n % Wrap
           u == Wrap \div Capacity
           v == r \div Capacity
           s == r % Capacity
           w == u * q + v
<1>1. q \in Nat /\ r \in 0 .. Wrap - 1 /\ n = Wrap * q + r
  BY DivMod, Sizes
<1>2. u \in Nat /\ Wrap = Capacity * u
  <2>1. u \in Nat /\ Wrap = Capacity * u + (Wrap % Capacity)
    BY DivMod, Sizes
  <2> HIDE DEF u
  <2> QED BY <2>1, QueueAssumption
<1>3. v \in Nat /\ s \in 0 .. Capacity - 1 /\ r = Capacity * v + s
  <2>1. r \in Nat
    BY <1>1, Sizes
  <2> HIDE DEF r
  <2> QED BY <2>1, DivMod, Sizes
<1>4. n = Capacity * w + s /\ w \in Int
  <2> HIDE DEF q, r, u, v, s
  <2>1. Wrap * q = Capacity * (u * q) /\ u * q \in Int
    BY <1>1, <1>2, Sizes
  <2>2. Capacity * (u * q + v) = Capacity * (u * q) + Capacity * v
    BY <1>3, <2>1, Sizes
  <2> QED BY <1>1, <1>3, <2>1, <2>2, Sizes
<1>5. n % Capacity = s
  <2> HIDE DEF q, r, u, v, s, w
  <2> QED BY <1>3, <1>4, ModUnique, Sizes
<1> QED BY <1>5 DEF Slot

\* used_slots of two wrapped counters at most Capacity apart is their distance.
LEMMA UsedOfWrapped ==
  ASSUME NEW x \in Nat, NEW y \in Nat, y <= x, x - y <= Capacity
  PROVE  Used(x % Wrap, y % Wrap) = x - y
<1> DEFINE qx == x \div Wrap
           qy == y \div Wrap
           rx == x % Wrap
           ry == y % Wrap
           k == qx - qy
<1>1. /\ qx \in Nat /\ rx \in 0 .. Wrap - 1 /\ x = Wrap * qx + rx
      /\ qy \in Nat /\ ry \in 0 .. Wrap - 1 /\ y = Wrap * qy + ry
  BY DivMod, Sizes
<1>2. k \in Int /\ x - y = Wrap * k + (rx - ry)
  <2> HIDE DEF rx, ry
  <2> QED BY <1>1, QueueAssumption
<1>3. k = 0 \/ k = 1
  <2> HIDE DEF qx, qy, rx, ry, k
  <2>1. CASE k >= 2
    <3>1. Wrap * k >= 2 * Wrap
      BY <2>1, <1>2, QueueAssumption
    <3> QED BY <3>1, <1>1, <1>2, QueueAssumption
  <2>2. CASE k <= -1
    <3>1. Wrap * k <= -Wrap
      BY <2>2, <1>2, QueueAssumption
    <3> QED BY <3>1, <1>1, <1>2, QueueAssumption
  <2> QED BY <1>2, <2>1, <2>2
<1>4. rx - ry = x - y \/ (rx - ry < 0 /\ rx - ry + Wrap = x - y)
  <2> HIDE DEF qx, qy, rx, ry, k
  <2> QED BY <1>1, <1>2, <1>3, QueueAssumption
<1> QED BY <1>1, <1>4 DEF Used

-----------------------------------------------------------------------------
(* The inductive invariant.                                                *)

\* utils_queue_init establishes the invariant.
LEMMA InitIInv == Init => IInv
<1> SUFFICES ASSUME Init PROVE IInv
  OBVIOUS
<1> USE Sizes, QueueAssumption DEF Init
<1>1. 0 % Wrap = 0
  OBVIOUS
<1>2. TypeOK
  BY DEF TypeOK, Threads, PushPC, PopPC
<1>3. RingInv
  BY <1>1 DEF RingInv
<1>4. PushInv /\ PopInv
  BY DEF PushInv, PopInv, Threads, PushPC, PopPC
<1>5. OrderInv
  BY DEF OrderInv
<1> QED BY <1>2, <1>3, <1>4, <1>5 DEF IInv

\* Taking the lock of utils_queue_push: one pusher is between lock and unlock.
LEMMA PushLockIInv ==
  ASSUME IInv, NEW p \in Pushers, NEW d \in Data, PushLock(p, d)
  PROVE  IInv'
<1> USE QueueAssumption DEF IInv, PushLock, Goto
<1>1. TypeOK'
  BY DEF TypeOK, Threads, PushPC, PopPC
<1>2. RingInv'
  BY DEF RingInv
<1>3. PushInv'
  BY DEF PushInv, TypeOK, Threads, PushPC, PopPC
<1>4. PopInv'
  BY DEF PopInv, TypeOK, Threads
<1>5. OrderInv'
  BY DEF OrderInv
<1> QED BY <1>1, <1>2, <1>3, <1>4, <1>5

\* The test for a full queue: a pusher that goes on has a free slot.
LEMMA PushCheckIInv ==
  ASSUME IInv, NEW p \in Pushers, PushCheck(p)
  PROVE  IInv'
<1> USE QueueAssumption DEF IInv, PushCheck, Goto
<1>1. TypeOK'
  BY DEF TypeOK, Threads, PushPC, PopPC
<1>2. RingInv'
  BY DEF RingInv
<1>3. PushInv'
  <2>1. Used(bottom, top) = Len(pushed) - Len(popped)
    BY UsedOfWrapped DEF RingInv, TypeOK
  <2>2. Used(bottom, top) # Capacity => Len(pushed) - Len(popped) < Capacity
    BY <2>1 DEF RingInv, TypeOK
  <2> QED BY <2>2 DEF PushInv, TypeOK, Threads, PushPC, PopPC
<1>4. PopInv'
  BY DEF PopInv, TypeOK, Threads
<1>5. OrderInv'
  BY DEF OrderInv
<1> QED BY <1>1, <1>2, <1>3, <1>4, <1>5

\* The slot a pusher stores to is the one at the number of pushes.
LEMMA StoreSlot ==
  ASSUME IInv, NEW p \in Pushers, pc[p] \in {"store", "publish"}
  PROVE  /\ Slot(b[p]) = Len(pushed) % Capacity
         /\ Slot(b[p]) \in 0 .. Capacity - 1
<1>1. Len(pushed) \in Nat /\ b[p] = Len(pushed) % Wrap
  BY DEF IInv, PushInv, RingInv, TypeOK
<1>2. Slot(b[p]) = Len(pushed) % Capacity
  BY <1>1, SlotOfWrapped
<1> QED BY <1>1, <1>2, DivMod, Sizes

\* The store goes to a slot that holds no entry of the FIFO.
LEMMA PushStoreIInv ==
  ASSUME IInv, NEW p \in Pushers, PushStore(p)
  PROVE  IInv'
<1> USE QueueAssumption DEF IInv, PushStore, Goto
<1>0. /\ Slot(b[p]) = Len(pushed) % Capacity
      /\ Slot(b[p]) \in 0 .. Capacity - 1
  BY StoreSlot
<1>1. TypeOK'
  BY <1>0 DEF TypeOK, Threads, PushPC, PopPC
<1>2. RingInv'
  <2> SUFFICES ASSUME NEW i \in Len(popped) .. Len(pushed) - 1
               PROVE  entries'[i % Capacity] = pushed[i + 1]
    BY DEF RingInv
  <2>1. i \in Nat /\ Len(pushed) \in Nat /\ i < Len(pushed) /\ Len(pushed) - i < Capacity
    BY DEF TypeOK, PushInv
  <2>2. i % Capacity # Len(pushed) % Capacity
    BY <2>1, ModInjective, Sizes
  <2>3. entries'[i % Capacity] = entries[i % Capacity]
    BY <1>0, <2>1, <2>2, DivMod, Sizes DEF TypeOK
  <2> QED BY <2>3 DEF RingInv
<1>3. PushInv'
  BY <1>0 DEF PushInv, TypeOK, Threads, PushPC, PopPC
<1>4. PopInv'
  BY DEF PopInv, TypeOK, Threads
<1>5. OrderInv'
  BY DEF OrderInv
<1> QED BY <1>1, <1>2, <1>3, <1>4, <1>5

\* Incrementing bottom makes the stored entry the last of the FIFO.
LEMMA PushPublishIInv ==
  ASSUME IInv, NEW p \in Pushers, PushPublish(p)
  PROVE  IInv'
<1> DEFINE n == Len(pushed)
           m == Len(popped)
<1>1. /\ TypeOK /\ RingInv /\ PushInv /\ PopInv /\ OrderInv
      /\ pushed \in Seq(Data) /\ popped \in Seq(Data)
      /\ n \in Nat /\ m \in Nat
  BY DEF IInv, TypeOK
<1>2. val[p] \in Data /\ b[p] = n % Wrap /\ n - m < Capacity
  BY <1>1 DEF PushPublish, PushInv, RingInv
<1>3. entries[n % Capacity] = val[p]
  BY <1>1, StoreSlot DEF PushPublish, PushInv
<1>4. /\ pushed' \in Seq(Data)
      /\ Len(pushed') = n + 1
      /\ pushed'[n + 1] = val[p]
      /\ \A i \in 1 .. n : pushed'[i] = pushed[i]
  BY <1>1, <1>2 DEF PushPublish
<1>5. bottom' = (n + 1) % Wrap
  BY <1>1, <1>2, ModInc, Sizes DEF PushPublish, Inc
<1>6. bottom' \in 0 .. Wrap - 1
  <2>1. n + 1 \in Nat
    BY <1>1
  <2> QED BY <1>5, <2>1, DivMod, Sizes
<1>7. TypeOK'
  BY <1>1, <1>4, <1>6 DEF PushPublish, Goto, TypeOK, Threads, PushPC, PopPC
<1>8. RingInv'
  <2>1. ASSUME NEW i \in m .. n
        PROVE  entries[i % Capacity] = pushed'[i + 1]
    <3>1. CASE i = n
      BY <1>3, <1>4, <3>1
    <3>2. CASE i # n
      BY <1>1, <1>4, <3>2 DEF RingInv
    <3> QED BY <3>1, <3>2
  <2> HIDE DEF n, m
  <2>2. m <= n /\ top = m % Wrap
    BY <1>1 DEF RingInv, n, m
  <2>3. /\ bottom' = Len(pushed') % Wrap
        /\ top' = Len(popped') % Wrap
        /\ Len(popped') <= Len(pushed')
        /\ Len(pushed') - Len(popped') <= Capacity
    BY <1>1, <1>2, <1>4, <1>5, <2>2, Sizes DEF PushPublish, m
  <2>4. \A i \in Len(popped') .. Len(pushed') - 1 : entries'[i % Capacity] = pushed'[i + 1]
    <3>1. Len(popped') = m /\ Len(pushed') - 1 = n /\ entries' = entries
      BY <1>1, <1>4 DEF PushPublish, m
    <3> QED BY <2>1, <3>1
  <2> QED BY <2>3, <2>4 DEF RingInv
<1>9. PushInv'
  BY <1>1, QueueAssumption DEF PushPublish, Goto, PushInv, TypeOK, Threads, PushPC, PopPC
<1>10. PopInv'
  <2>1. /\ UNCHANGED <<seen, t, val, popped>>
        /\ \A c \in Poppers : pc'[c] = pc[c]
    BY <1>1, QueueAssumption DEF PushPublish, Goto, TypeOK, Threads
  <2> QED BY <1>1, <1>4, <2>1 DEF PopInv
<1>11. OrderInv'
  BY <1>1, <1>4 DEF PushPublish, OrderInv, RingInv
<1> QED BY <1>7, <1>8, <1>9, <1>10, <1>11 DEF IInv

\* Releasing the lock of utils_queue_push.
LEMMA PushUnlockIInv ==
  ASSUME IInv, NEW p \in Pushers, PushUnlock(p)
  PROVE  IInv'
<1> USE QueueAssumption DEF IInv, PushUnlock, Goto, Return
<1>1. TypeOK'
  BY Sizes DEF TypeOK, Threads, PushPC, PopPC
<1>2. RingInv'
  BY DEF RingInv
<1>3. PushInv'
  BY DEF PushInv, TypeOK, Threads, PushPC, PopPC
<1>4. PopInv'
  BY DEF PopInv, TypeOK, Threads
<1>5. OrderInv'
  BY DEF OrderInv
<1> QED BY <1>1, <1>2, <1>3, <1>4, <1>5

\* utils_queue_pop or utils_queue_peek copies top.
LEMMA ReadTopIInv ==
  ASSUME IInv, NEW c \in Poppers, ReadTop(c)
  PROVE  IInv'
<1> USE QueueAssumption DEF IInv, ReadTop, Goto
<1>1. TypeOK'
  BY DEF TypeOK, Threads, PushPC, PopPC
<1>2. RingInv'
  BY DEF RingInv
<1>3. PushInv'
  BY DEF PushInv, TypeOK, Threads
<1>4. PopInv'
  BY Sizes DEF PopInv, TypeOK, Threads, RingInv, PopPC
<1>5. OrderInv'
  BY DEF OrderInv
<1> QED BY <1>1, <1>2, <1>3, <1>4, <1>5

\* bottom differs from a copy of top that is still current: there is an entry.
LEMMA NotEmpty ==
  ASSUME IInv, NEW c \in Poppers, pc[c] # "idle", seen[c] = Len(popped), bottom # t[c]
  PROVE  Len(popped) < Len(pushed)
<1>1. /\ Len(popped) \in Nat /\ Len(pushed) \in Nat
      /\ Len(popped) <= Len(pushed)
      /\ bottom = Len(pushed) % Wrap
      /\ t[c] = Len(popped) % Wrap
  BY DEF IInv, TypeOK, RingInv, PopInv
<1>2. Len(popped) # Len(pushed)
  BY <1>1
<1> QED BY <1>1, <1>2

\* The slot a pop or peek reads is the one at the number of pops it has seen.
LEMMA ReadSlot ==
  ASSUME IInv, NEW c \in Poppers, pc[c] # "idle"
  PROVE  /\ Slot(t[c]) = seen[c] % Capacity
         /\ Slot(t[c]) \in 0 .. Capacity - 1
<1>1. seen[c] \in Nat /\ t[c] = seen[c] % Wrap
  BY DEF IInv, PopInv, TypeOK
<1>2. Slot(t[c]) = seen[c] % Capacity
  BY <1>1, SlotOfWrapped
<1> QED BY <1>1, <1>2, DivMod, Sizes

\* It compares bottom with its copy of top.
LEMMA ReadBottomIInv ==
  ASSUME IInv, NEW c \in Poppers, ReadBottom(c)
  PROVE  IInv'
<1> USE QueueAssumption DEF IInv, ReadBottom, ReturnPop, Return, Goto
<1>1. TypeOK'
  <2>1. CASE bottom = t[c]
    <3>1. ReturnPop(c) /\ UNCHANGED <<entries, bottom, top, lock, b, pushed, popped>>
      BY <2>1
    <3>2. 0 \in 0 .. Wrap - 1
      BY Sizes
    <3> QED BY <3>1, <3>2 DEF TypeOK, Threads, PushPC, PopPC
  <2>2. CASE bottom # t[c]
    BY <2>2 DEF TypeOK, Threads, PushPC, PopPC
  <2> QED BY <2>1, <2>2
<1>2. RingInv'
  BY DEF RingInv
<1>3. PushInv'
  BY DEF PushInv, TypeOK, Threads
<1>4. PopInv'
  <2>1. (pc[c] # "idle" /\ seen[c] = Len(popped) /\ bottom # t[c])
            => Len(popped) < Len(pushed)
    BY NotEmpty
  <2>2. /\ pc[c] = "bottom" /\ pc'[c] \in {"idle", "entry"}
        /\ pc'[c] = "entry" => seen'[c] = seen[c] /\ t'[c] = t[c] /\ bottom # t[c]
        /\ \A d \in Poppers \ {c} : /\ pc'[d] = pc[d] /\ seen'[d] = seen[d]
                                   /\ t'[d] = t[d] /\ val'[d] = val[d]
        /\ UNCHANGED <<pushed, popped>>
    BY DEF TypeOK, Threads
  <2> SUFFICES ASSUME NEW d \in Poppers PROVE PopInv!(d)'
    BY DEF PopInv
  <2>3. CASE d = c
    BY <2>1, <2>2, <2>3 DEF PopInv, PopPC
  <2>4. CASE d # c
    BY <2>2, <2>4 DEF PopInv
  <2> QED BY <2>3, <2>4
<1>5. OrderInv'
  BY DEF OrderInv
<1> QED BY <1>1, <1>2, <1>3, <1>4, <1>5

\* It reads the slot, which still holds the head if top has not moved.
LEMMA ReadEntryIInv ==
  ASSUME IInv, NEW c \in Poppers, ReadEntry(c)
  PROVE  IInv'
<1> USE QueueAssumption DEF IInv, ReadEntry, Goto
<1>0. Slot(t[c]) = seen[c] % Capacity /\ Slot(t[c]) \in 0 .. Capacity - 1
  BY ReadSlot
<1>1. TypeOK'
  BY <1>0 DEF TypeOK, Threads, PushPC, PopPC
<1>2. RingInv'
  BY DEF RingInv
<1>3. PushInv'
  BY DEF PushInv, TypeOK, Threads
<1>4. PopInv'
  <2>1. seen[c] = Len(popped) =>
          /\ Len(popped) < Len(pushed)
          /\ entries[Slot(t[c])] = pushed[Len(popped) + 1]
    <3>1. Len(popped) \in Nat /\ Len(pushed) \in Nat
      BY DEF TypeOK
    <3>2. seen[c] = Len(popped) => Len(popped) < Len(pushed)
      BY DEF PopInv
    <3> QED BY <1>0, <3>1, <3>2 DEF RingInv
  <2> QED BY <2>1 DEF PopInv, TypeOK, Threads, PopPC
<1>5. OrderInv'
  BY DEF OrderInv
<1> QED BY <1>1, <1>2, <1>3, <1>4, <1>5

\* A compare-and-swap that succeeds finds top unchanged since the pop read
\* it, so the pop returns the oldest entry that no pop has returned yet.
LEMMA CasClaimsHead ==
  ASSUME IInv, NEW c \in Poppers, pc[c] = "entered", top = t[c]
  PROVE  /\ seen[c] = Len(popped)
         /\ Len(popped) < Len(pushed)
         /\ val[c] = pushed[Len(popped) + 1]
         /\ val[c] \in Data
<1>1. /\ seen[c] \in Nat /\ Len(popped) \in Nat
      /\ seen[c] <= Len(popped) /\ Len(popped) - seen[c] < Wrap
      /\ seen[c] % Wrap = Len(popped) % Wrap
  BY DEF IInv, TypeOK, PopInv, RingInv
<1>2. seen[c] = Len(popped)
  BY <1>1, ModInjective, Sizes
<1> QED BY <1>2 DEF IInv, TypeOK, PopInv

\* The compare-and-swap on top takes the head or fails.
LEMMA PopCasIInv ==
  ASSUME IInv, NEW c \in Poppers, PopCas(c)
  PROVE  IInv'
<1>1. CASE top # t[c]
  <2> USE <1>1, QueueAssumption DEF IInv, PopCas, ReturnPop, Return, Goto
  <2>1. TypeOK'
    BY Sizes DEF TypeOK, Threads, PushPC, PopPC
  <2>2. RingInv' /\ OrderInv'
    BY DEF RingInv, OrderInv
  <2>3. PushInv'
    BY DEF PushInv, TypeOK, Threads
  <2>4. PopInv'
    BY DEF PopInv, TypeOK, Threads, PopPC
  <2> QED BY <2>1, <2>2, <2>3, <2>4
<1>2. CASE top = t[c]
  <2> DEFINE n == Len(pushed)
             m == Len(popped)
  <2>1. /\ TypeOK /\ RingInv /\ PushInv /\ PopInv /\ OrderInv
        /\ pushed \in Seq(Data) /\ popped \in Seq(Data)
        /\ n \in Nat /\ m \in Nat
    BY DEF IInv, TypeOK
  <2>2. m < n /\ val[c] = pushed[m + 1] /\ val[c] \in Data
    BY <1>2, CasClaimsHead DEF PopCas
  <2>3. /\ popped' \in Seq(Data)
        /\ Len(popped') = m + 1
        /\ popped'[m + 1] = val[c]
        /\ \A i \in 1 .. m : popped'[i] = popped[i]
    BY <1>2, <2>1, <2>2, SMTT(30) DEF PopCas
  <2>4. top' = (m + 1) % Wrap /\ top' \in 0 .. Wrap - 1
    <3>1. top = m % Wrap /\ top' = (top + 1) % Wrap
      BY <1>2, <2>1 DEF PopCas, Inc, RingInv
    <3>2. top' = (m + 1) % Wrap
      BY <2>1, <3>1, ModInc, Sizes
    <3>3. m + 1 \in Nat
      BY <2>1
    <3> QED BY <3>2, <3>3, DivMod, Sizes
  <2>5. TypeOK'
    BY <2>1, <2>3, <2>4, Sizes
    DEF PopCas, ReturnPop, Return, Goto, TypeOK, Threads, PushPC, PopPC
  <2>6. RingInv'
    <3> HIDE DEF n, m
    <3>1. /\ UNCHANGED <<bottom, entries, pushed>>
          /\ n - m <= Capacity
          /\ bottom = n % Wrap
          /\ \A i \in m .. n - 1 : entries[i % Capacity] = pushed[i + 1]
      BY <2>1 DEF PopCas, RingInv, n, m
    <3>2. Len(pushed') = n
      BY <3>1 DEF n
    <3>3. \A i \in m + 1 .. n - 1 : entries'[i % Capacity] = pushed'[i + 1]
      BY <2>1, <3>1
    <3>4. m + 1 <= n /\ n - (m + 1) <= Capacity
      BY <2>1, <2>2, <3>1, Sizes
    <3> QED BY <2>3, <2>4, <3>1, <3>2, <3>3, <3>4 DEF RingInv
  <2>7. PushInv'
    <3>1. /\ UNCHANGED <<lock, b, bottom, entries, pushed>>
          /\ \A p \in Pushers : pc'[p] = pc[p] /\ val'[p] = val[p]
      BY <2>1, QueueAssumption DEF PopCas, ReturnPop, Return, Goto, TypeOK, Threads
    <3>2. Len(pushed') = n /\ Len(popped') = m + 1
      BY <2>3, <3>1
    <3> HIDE DEF n, m
    <3>3. n - m < Capacity => n - (m + 1) < Capacity
      BY <2>1, Sizes
    <3> QED BY <2>1, <3>1, <3>2, <3>3 DEF PushInv, n, m
  <2>8. PopInv'
    <3> SUFFICES ASSUME NEW x \in Poppers PROVE PopInv!(x)'
      BY DEF PopInv
    <3>1. CASE x = c
      BY <2>1, <3>1 DEF PopCas, ReturnPop, Return, Goto, TypeOK, Threads, PopPC
    <3>2. CASE x # c
      <4>1. /\ pc'[x] = pc[x] /\ t'[x] = t[x] /\ seen'[x] = seen[x] /\ seen[x] \in Nat
            /\ pc[x] # "idle" => m + 1 - seen[x] < Wrap
        BY <1>2, <2>1, <3>2 DEF PopCas, NoLap, ReturnPop, Return, Goto, TypeOK, Threads
      <4> QED BY <2>1, <2>3, <4>1 DEF PopInv
    <3> QED BY <3>1, <3>2
  <2>9. OrderInv'
    <3>1. pushed' = pushed
      BY DEF PopCas
    <3> QED BY <2>1, <2>2, <2>3, <3>1 DEF OrderInv
  <2> QED BY <2>5, <2>6, <2>7, <2>8, <2>9 DEF IInv
<1> QED BY <1>1, <1>2

\* utils_queue_peek returns what it read.
LEMMA PeekReturnIInv ==
  ASSUME IInv, NEW c \in Poppers, PeekReturn(c)
  PROVE  IInv'
<1> USE QueueAssumption DEF IInv, PeekReturn, ReturnPop, Return, Goto
<1>1. TypeOK'
  BY Sizes DEF TypeOK, Threads, PushPC, PopPC
<1>2. RingInv' /\ OrderInv'
  BY DEF RingInv, OrderInv
<1>3. PushInv'
  BY DEF PushInv, TypeOK, Threads
<1>4. PopInv'
  BY DEF PopInv, TypeOK, Threads, PopPC
<1> QED BY <1>1, <1>2, <1>3, <1>4

(* The inductive invariant holds in every reachable state of the queue.    *)
THEOREM QueueInvariant == Spec => []IInv
<1>1. IInv /\ [Next]_vars => IInv'
  <2> SUFFICES ASSUME IInv, [Next]_vars PROVE IInv'
    OBVIOUS
  <2>1. CASE UNCHANGED vars
    BY <2>1 DEF vars, IInv, TypeOK, RingInv, PushInv, PopInv, OrderInv
  <2>2. CASE Next
    BY <2>2, PushLockIInv, PushCheckIInv, PushStoreIInv, PushPublishIInv,
       PushUnlockIInv, ReadTopIInv, ReadBottomIInv, ReadEntryIInv, PopCasIInv,
       PeekReturnIInv DEF Next
  <2> QED BY <2>1, <2>2
<1> QED BY InitIInv, <1>1, PTL DEF Spec

(* A pop or peek that has read its slot holds the current head unless      *)
(* another pop completed since it read top.                                *)
THEOREM QueueHoldsHead == Spec => []HoldsHead
<1>1. IInv => HoldsHead
  BY DEF IInv, PopInv, HoldsHead
<1> QED BY <1>1, QueueInvariant, PTL

(* The ring with its wrapping counters and its lock-free pop implements    *)
(* the bounded FIFO: publishing an entry is a Put, a compare-and-swap that *)
(* succeeds is a Take, and every other step leaves the FIFO alone.         *)
THEOREM QueueIsBoundedFifo == Spec => IsBoundedFifo
<1>1. Init => Fifo!Init
  BY DEF Init, Fifo!Init
<1>2. IInv /\ [Next]_vars => [Fifo!Next]_<<pushed, popped>>
  <2> SUFFICES ASSUME IInv, [Next]_vars PROVE [Fifo!Next]_<<pushed, popped>>
    OBVIOUS
  <2>1. ASSUME NEW p \in Pushers, PushPublish(p) PROVE Fifo!Next
    <3>1. val[p] \in Data /\ Len(pushed) - Len(popped) < Capacity
      BY <2>1 DEF PushPublish, IInv, PushInv
    <3>2. Fifo!Put(val[p])
      BY <2>1, <3>1 DEF PushPublish, Fifo!Put
    <3> QED BY <3>1, <3>2 DEF Fifo!Next
  <2>2. ASSUME NEW c \in Poppers, PopCas(c)
        PROVE  Fifo!Next \/ UNCHANGED <<pushed, popped>>
    <3>1. CASE top # t[c]
      BY <2>2, <3>1 DEF PopCas
    <3>2. CASE top = t[c]
      BY <2>2, <3>2, CasClaimsHead DEF PopCas, Fifo!Take, Fifo!Next
    <3> QED BY <3>1, <3>2
  <2>3. ASSUME NEW p \in Pushers,
               (\E d \in Data : PushLock(p, d)) \/ PushCheck(p) \/ PushStore(p) \/ PushUnlock(p)
        PROVE  UNCHANGED <<pushed, popped>>
    BY <2>3 DEF PushLock, PushCheck, PushStore, PushUnlock
  <2>4. ASSUME NEW c \in Poppers,
               ReadTop(c) \/ ReadBottom(c) \/ ReadEntry(c) \/ PeekReturn(c)
        PROVE  UNCHANGED <<pushed, popped>>
    BY <2>4 DEF ReadTop, ReadBottom, ReadEntry, PeekReturn
  <2>5. CASE UNCHANGED vars
    BY <2>5 DEF vars
  <2> QED BY <2>1, <2>2, <2>3, <2>4, <2>5 DEF Next
<1> QED BY <1>1, <1>2, QueueInvariant, PTL DEF Spec, IsBoundedFifo, Fifo!Spec

=============================================================================
