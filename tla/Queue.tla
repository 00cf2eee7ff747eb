-------------------------------- MODULE Queue --------------------------------
(***************************************************************************)
(* utils_queue_s (src/utils/queue.c) in the default build                  *)
(* (UTILS_QUEUE_MPMC): a ring of Capacity slots between two uint16_t       *)
(* counters that wrap.  Pushers serialise on a spinlock; poppers and       *)
(* peekers read top, bottom and the slot without any lock, and a pop       *)
(* claims the slot with a compare-and-swap on top.  Every shared access is *)
(* a step of its own.                                                      *)
(*                                                                         *)
(* pushed and popped are history: what was published, and what successful  *)
(* pops returned, in the order in which they claimed it.                   *)
(***************************************************************************)
EXTENDS Integers, Sequences, TLC

CONSTANTS
  Pushers, Poppers,   \* threads
  Data,               \* non-null pointers
  NULL,               \* the null pointer
  Capacity,           \* UTILS_QUEUE_CAPACITY
  Wrap,               \* UINT16_MAX + 1
  MaxPush             \* bound: pushes in a behaviour

\* Capacity is a power of two (utils_queue_init asserts it), so it divides Wrap.
ASSUME QueueAssumption ==
  /\ Capacity \in Nat \ {0}
  /\ Wrap \in Nat
  /\ Capacity < Wrap
  /\ Wrap % Capacity = 0
  /\ MaxPush \in Nat
  /\ NULL \notin Data \cup Pushers
  /\ Pushers \cap Poppers = {}

VARIABLES
  entries, bottom, top,   \* struct queue
  lock,                   \* its spinlock: the pusher that holds it, or NULL
  pc,                     \* per thread
  b,                      \* push: its local copy of bottom
  t,                      \* pop and peek: their local copy of top
  val,                    \* push: data; pop and peek: ret_val
  pushed, popped,         \* history
  seen                    \* history: Len(popped) when this pop or peek read top

vars == <<entries, bottom, top, lock, pc, b, t, val, pushed, popped, seen>>

Threads == Pushers \cup Poppers
Slot(n) == n % Capacity
Inc(n) == (n + 1) % Wrap

Init ==
  /\ entries = [i \in 0 .. Capacity - 1 |-> NULL]
  /\ bottom = 0
  /\ top = 0
  /\ lock = NULL
  /\ pc = [th \in Threads |-> "idle"]
  /\ b = [p \in Pushers |-> 0]
  /\ t = [c \in Poppers |-> 0]
  /\ val = [th \in Threads |-> NULL]
  /\ pushed = <<>>
  /\ popped = <<>>
  /\ seen = [c \in Poppers |-> 0]

Goto(th, label) == pc' = [pc EXCEPT ![th] = label]

\* The locals of a call that returns are reset: nothing reads them again.
Return(th) == Goto(th, "idle") /\ val' = [val EXCEPT ![th] = NULL]
ReturnPop(c) ==
  Return(c) /\ t' = [t EXCEPT ![c] = 0] /\ seen' = [seen EXCEPT ![c] = 0]

-----------------------------------------------------------------------------
(* utils_queue_push *)

\* used_slots: b - t, plus UINT16_MAX + 1 when negative.
Used(x, y) == IF x - y < 0 THEN x - y + Wrap ELSE x - y

PushLock(p, d) ==
  /\ pc[p] = "idle"
  /\ Len(pushed) < MaxPush
  /\ lock = NULL
  /\ lock' = p
  /\ val' = [val EXCEPT ![p] = d]
  /\ Goto(p, "check")
  /\ UNCHANGED <<entries, bottom, top, b, t, pushed, popped, seen>>

\* Mutant of PushCheck: the test for a full ring ignores the wrap of the counters.
MutPushCheckNoWrap(p) ==
  /\ pc[p] = "check"
  /\ b' = [b EXCEPT ![p] = bottom]
  /\ Goto(p, IF bottom - top = Capacity THEN "unlock" ELSE "store")
  /\ UNCHANGED <<entries, bottom, top, lock, t, val, pushed, popped, seen>>

\* Nothing but this pusher changes bottom, so the two reads are one step.
PushCheck(p) ==
  /\ pc[p] = "check"
  /\ b' = [b EXCEPT ![p] = bottom]
  /\ Goto(p, IF Used(bottom, top) = Capacity THEN "unlock" ELSE "store")
  /\ UNCHANGED <<entries, bottom, top, lock, t, val, pushed, popped, seen>>

PushStore(p) ==
  /\ pc[p] = "store"
  /\ entries' = [entries EXCEPT ![Slot(b[p])] = val[p]]
  /\ Goto(p, "publish")
  /\ UNCHANGED <<bottom, top, lock, b, t, val, pushed, popped, seen>>

PushPublish(p) ==
  /\ pc[p] = "publish"
  /\ bottom' = Inc(b[p])
  /\ pushed' = Append(pushed, val[p])
  /\ Goto(p, "unlock")
  /\ UNCHANGED <<entries, top, lock, b, t, val, popped, seen>>

PushUnlock(p) ==
  /\ pc[p] = "unlock"
  /\ lock' = NULL
  /\ Return(p)
  /\ b' = [b EXCEPT ![p] = 0]
  /\ UNCHANGED <<entries, bottom, top, t, pushed, popped, seen>>

-----------------------------------------------------------------------------
(* utils_queue_pop and utils_queue_peek: the same three reads; pop then    *)
(* claims the slot.                                                        *)

ReadTop(c) ==
  /\ pc[c] = "idle"
  /\ t' = [t EXCEPT ![c] = top]
  /\ seen' = [seen EXCEPT ![c] = Len(popped)]
  /\ Goto(c, "bottom")
  /\ UNCHANGED <<entries, bottom, top, lock, b, val, pushed, popped>>

\* An empty queue returns NULL.
ReadBottom(c) ==
  /\ pc[c] = "bottom"
  /\ \/ bottom = t[c] /\ ReturnPop(c)
     \/ bottom # t[c] /\ Goto(c, "entry") /\ UNCHANGED <<t, val, seen>>
  /\ UNCHANGED <<entries, bottom, top, lock, b, pushed, popped>>

ReadEntry(c) ==
  /\ pc[c] = "entry"
  /\ val' = [val EXCEPT ![c] = entries[Slot(t[c])]]
  /\ Goto(c, "entered")
  /\ UNCHANGED <<entries, bottom, top, lock, b, t, pushed, popped, seen>>

\* Assumption on scheduling: while a pop is between its read of top and its
\* compare-and-swap, fewer than Wrap (65536) other pops complete, so top does
\* not come back to the value it read.
NoLap(c) ==
  \A c2 \in Poppers \ {c} : pc[c2] # "idle" => Len(popped) + 1 - seen[c2] < Wrap

\* Mutant of PopCas: top is stored, not compared and swapped.
MutPopStore(c) ==
  /\ pc[c] = "entered"
  /\ NoLap(c)
  /\ top' = Inc(t[c])
  /\ popped' = Append(popped, val[c])
  /\ ReturnPop(c)
  /\ UNCHANGED <<entries, bottom, lock, b, pushed>>

PopCas(c) ==
  /\ pc[c] = "entered"
  /\ \/ /\ top = t[c]
        /\ NoLap(c)
        /\ top' = Inc(t[c])
        /\ popped' = Append(popped, val[c])
     \/ /\ top # t[c]
        /\ UNCHANGED <<top, popped>>
  /\ ReturnPop(c)
  /\ UNCHANGED <<entries, bottom, lock, b, pushed>>

\* peek returns the entry it read and claims nothing.
PeekReturn(c) ==
  /\ pc[c] = "entered"
  /\ ReturnPop(c)
  /\ UNCHANGED <<entries, bottom, top, lock, b, pushed, popped>>

Next ==
  \/ \E p \in Pushers :
       \/ \E d \in Data : PushLock(p, d)
       \/ PushCheck(p) \/ PushStore(p) \/ PushPublish(p) \/ PushUnlock(p)
  \/ \E c \in Poppers :
       ReadTop(c) \/ ReadBottom(c) \/ ReadEntry(c) \/ PopCas(c) \/ PeekReturn(c)

Spec == Init /\ [][Next]_vars

-----------------------------------------------------------------------------
PushPC == {"idle", "check", "store", "publish", "unlock"}
PopPC == {"idle", "bottom", "entry", "entered"}

TypeOK ==
  /\ entries \in [0 .. Capacity - 1 -> Data \cup {NULL}]
  /\ bottom \in 0 .. Wrap - 1
  /\ top \in 0 .. Wrap - 1
  /\ lock \in Pushers \cup {NULL}
  /\ pc \in [Threads -> PushPC \cup PopPC]
  /\ b \in [Pushers -> 0 .. Wrap - 1]
  /\ t \in [Poppers -> 0 .. Wrap - 1]
  /\ val \in [Threads -> Data \cup {NULL}]
  /\ pushed \in Seq(Data)
  /\ popped \in Seq(Data)
  /\ seen \in [Poppers -> Nat]

(* The ring in terms of the history: the counters are the wrapped numbers  *)
(* of pushes and pops, and the slots between them hold what was pushed.    *)
RingInv ==
  /\ bottom = Len(pushed) % Wrap
  /\ top = Len(popped) % Wrap
  /\ Len(popped) <= Len(pushed)
  /\ Len(pushed) - Len(popped) <= Capacity
  /\ \A i \in Len(popped) .. Len(pushed) - 1 : entries[i % Capacity] = pushed[i + 1]

(* The pusher inside the critical section, alone; once it has decided to   *)
(* store, there is room, and poppers can only make more of it.             *)
PushInv ==
  \A p \in Pushers :
    /\ pc[p] \in PushPC
    /\ pc[p] # "idle" => lock = p /\ val[p] \in Data
    /\ pc[p] \in {"store", "publish"} =>
         b[p] = bottom /\ Len(pushed) - Len(popped) < Capacity
    /\ pc[p] = "publish" => entries[Slot(b[p])] = val[p]

(* A pop or peek in progress: its copy of top is less than one turn old,   *)
(* and while no other pop completes what it has learnt stays true.         *)
PopInv ==
  \A c \in Poppers :
    /\ pc[c] \in PopPC
    /\ pc[c] # "idle" =>
         /\ seen[c] <= Len(popped)
         /\ Len(popped) - seen[c] < Wrap
         /\ t[c] = seen[c] % Wrap
    /\ (pc[c] \in {"entry", "entered"} /\ seen[c] = Len(popped)) =>
         Len(popped) < Len(pushed)
    /\ (pc[c] = "entered" /\ seen[c] = Len(popped)) =>
         val[c] = pushed[Len(popped) + 1]

(* Pops return what was pushed, in order.                                  *)
OrderInv == \A i \in 1 .. Len(popped) : popped[i] = pushed[i]

\* The inductive invariant.
IInv == TypeOK /\ RingInv /\ PushInv /\ PopInv /\ OrderInv

(* The queue is a bounded FIFO: whatever the interleaving of pushes, pops  *)
(* and counter wraps, every published entry is returned by exactly one     *)
(* successful pop, in push order, and a push never overwrites an entry     *)
(* that was not claimed yet.                                               *)
Fifo == INSTANCE BoundedFifo WITH
  Data <- Data, Capacity <- Capacity, pushed <- pushed, popped <- popped
IsBoundedFifo == Fifo!Spec

(* A pop or peek that has read its slot holds the current head, non-null,  *)
(* unless another pop completed since it read top.  This is what makes the *)
(* compare-and-swap enough, and what HeterogeneousScheduler relies on when *)
(* it peeks, decides, and asserts that the pop that follows returns a task.*)
HoldsHead ==
  \A c \in Poppers :
    (pc[c] = "entered" /\ seen[c] = Len(popped)) =>
       /\ Len(popped) < Len(pushed)
       /\ val[c] = pushed[Len(popped) + 1]

-----------------------------------------------------------------------------
\* For TLC: threads of a kind, and the pointers they push, are interchangeable.
Symmetry == Permutations(Pushers) \cup Permutations(Poppers) \cup Permutations(Data)
=============================================================================
