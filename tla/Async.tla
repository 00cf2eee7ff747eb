------------------------------- MODULE Async -------------------------------
(***************************************************************************)
(* The completions, semaphores and conditions of src/async/mutex and       *)
(* src/async/spin, used by threads the way the core and tests/async.cpp    *)
(* use them: a completion is completed by one thread (the worker marks a   *)
(* task done), and a condition guards a store that takers wait for (the    *)
(* throttles, the orphans, the tasks of an accelerator).                   *)
(*                                                                         *)
(* In both builds a completion is one bit: completed in spin, and that the *)
(* mutex is free in mutex, where a check and a complete take the mutex for *)
(* a moment.  pthread mutexes are unlocked by threads that did not lock    *)
(* them, which the mutexes of the build let them do.  pthread_cond_wait,   *)
(* pthread_cond_broadcast and the POSIX semaphore are external.            *)
(***************************************************************************)
EXTENDS Naturals

CONSTANTS
  Threads, NoThread,
  Archs,       \* the async_architecture of the build: "mutex", "spin"
  Need,        \* Need[arch][t]: what t takes of the store at a time
  MaxCalls     \* bound: calls the threads make

ASSUME AsyncAssumption ==
  /\ NoThread \notin Threads
  /\ Archs \subseteq {"mutex", "spin"}
  /\ Need \in [Archs -> [Threads -> Nat \ {0}]]
  /\ MaxCalls \in Nat

VARIABLES
  arch,
  bit,         \* the completion: completed, or its mutex is free
  value,       \* the semaphore
  free,        \* the lock of the condition: its completion
  tokens,      \* spin: the semaphore of the condition
  asleep,      \* mutex: threads in pthread_cond_wait that were not signalled
  store,       \* what the condition guards
  at,
  val,         \* spin: what a dec read of a semaphore
  calls,
  awaited      \* history: calls of async_completion_wait that returned

avars == <<arch, bit, value, free, tokens, asleep, store, at, val, calls, awaited>>

condition == <<free, tokens, asleep, store>>

\* Between the lock and the unlock of the condition, except while it waits.
Owning == {"test", "put", "notify", "unlock"}

\* In async_condition_wait, not woken.
Sleeping == {"sleep", "sleepCas"}

\* A check or a complete has the mutex for a moment; the completion is completed.
Borrowed(t) == at[t] \in {"giveBack", "completeAgain"}
Completed == bit \/ \E t \in Threads : Borrowed(t)

AsyncPC ==
  {"idle", "complete", "completeFirst", "completeAgain", "await", "check", "giveBack",
   "inc", "dec", "decCas", "take", "give", "test", "put", "notify", "unlock", "relock"}
    \cup Sleeping

AsyncTypeOK ==
  /\ arch \in Archs
  /\ bit \in BOOLEAN /\ free \in BOOLEAN
  /\ value \in Nat /\ tokens \in Nat /\ store \in Nat
  /\ calls \in Nat /\ awaited \in Nat
  /\ asleep \subseteq Threads
  /\ at \in [Threads -> AsyncPC]
  /\ val \in [Threads -> Nat]

Goto(t, l) == at' = [at EXCEPT ![t] = l]

AsyncInit ==
  /\ arch \in Archs
  /\ bit = FALSE
  /\ value = 0
  /\ free = TRUE
  /\ tokens = 0
  /\ asleep = {}
  /\ store = 0
  /\ at = [t \in Threads |-> "idle"]
  /\ val = [t \in Threads |-> 0]
  /\ calls = 0
  /\ awaited = 0

Busy(labels) == \E t \in Threads : at[t] \in labels

\* A thread makes a call.  One thread at a time completes, and nobody checks what is
\* completed again: the two would unlock each other's mutex.
Call(t) ==
  /\ at[t] = "idle"
  /\ calls < MaxCalls
  /\ calls' = calls + 1
  /\ \E l \in {"complete", "await", "check", "inc", "dec", "take", "give"} :
       /\ l = "complete" => ~Busy({"complete", "completeFirst", "completeAgain"})
       /\ l = "complete" /\ Completed => ~Busy({"check", "giveBack"})
       /\ l = "check" /\ Completed => ~Busy({"complete", "completeAgain"})
       /\ Goto(t, l)
  /\ UNCHANGED <<arch, bit, value, condition, val, awaited>>

-----------------------------------------------------------------------------
(* Completions *)

\* spin sets the bit; mutex tries to take the mutex first, "to avoid double unlocking".
async_completion_complete(t) ==
  /\ at[t] = "complete"
  /\ IF arch = "spin"
       THEN bit' = TRUE /\ Goto(t, "idle")
       ELSE bit' = FALSE /\ Goto(t, IF bit THEN "completeAgain" ELSE "completeFirst")
  /\ UNCHANGED <<arch, value, condition, val, calls, awaited>>

CompleteUnlock(t) ==
  /\ at[t] \in {"completeFirst", "completeAgain"}
  /\ bit' = TRUE
  /\ Goto(t, "idle")
  /\ UNCHANGED <<arch, value, condition, val, calls, awaited>>

async_completion_wait(t) ==
  /\ at[t] = "await"
  /\ bit
  /\ bit' = FALSE
  /\ awaited' = awaited + 1
  /\ Goto(t, "idle")
  /\ UNCHANGED <<arch, value, condition, val, calls>>

\* mutex takes the mutex when it can, and unlocks it again.
async_completion_check(t) ==
  /\ at[t] = "check"
  /\ IF arch = "mutex" /\ bit
       THEN bit' = FALSE /\ Goto(t, "giveBack")
       ELSE Goto(t, "idle") /\ UNCHANGED bit
  /\ UNCHANGED <<arch, value, condition, val, calls, awaited>>

CheckUnlock(t) ==
  /\ at[t] = "giveBack"
  /\ bit' = TRUE
  /\ Goto(t, "idle")
  /\ UNCHANGED <<arch, value, condition, val, calls, awaited>>

-----------------------------------------------------------------------------
(* Semaphores *)

async_semaphore_inc(t) ==
  /\ at[t] = "inc"
  /\ value' = value + 1
  /\ Goto(t, "idle")
  /\ UNCHANGED <<arch, bit, condition, val, calls, awaited>>

\* sem_wait is one step; spin reads a positive value, then swaps it for one less.
async_semaphore_dec(t) ==
  /\ at[t] = "dec"
  /\ value > 0
  /\ IF arch = "mutex"
       THEN value' = value - 1 /\ Goto(t, "idle") /\ UNCHANGED val
       ELSE val' = [val EXCEPT ![t] = value] /\ Goto(t, "decCas") /\ UNCHANGED value
  /\ UNCHANGED <<arch, bit, condition, calls, awaited>>

\* Mutant of DecCas: it stores one less than what was read, whatever is there.
MutDecStores(t) ==
  /\ at[t] = "decCas"
  /\ value' = val[t] - 1
  /\ Goto(t, "idle")
  /\ UNCHANGED <<arch, bit, condition, val, calls, awaited>>

DecCas(t) ==
  /\ at[t] = "decCas"
  /\ IF value = val[t]
       THEN value' = value - 1 /\ Goto(t, "idle")
       ELSE Goto(t, "dec") /\ UNCHANGED value
  /\ UNCHANGED <<arch, bit, condition, val, calls, awaited>>

-----------------------------------------------------------------------------
(* Conditions *)

\* Of a taker, of a giver, and of a taker whose wait is over.
async_condition_lock(t) ==
  /\ at[t] \in {"take", "give", "relock"}
  /\ free
  /\ free' = FALSE
  /\ Goto(t, IF at[t] = "give" THEN "put" ELSE "test")
  /\ UNCHANGED <<arch, bit, value, tokens, asleep, store, val, calls, awaited>>

\* The loop of a taker; its wait unlocks and sleeps.
async_condition_wait(t) ==
  /\ at[t] = "test"
  /\ store < Need[arch][t]
  /\ free' = TRUE
  /\ asleep' = IF arch = "mutex" THEN asleep \cup {t} ELSE asleep
  /\ Goto(t, "sleep")
  /\ UNCHANGED <<arch, bit, value, tokens, store, val, calls, awaited>>

Take(t) ==
  /\ at[t] = "test"
  /\ store >= Need[arch][t]
  /\ store' = store - Need[arch][t]
  /\ Goto(t, "unlock")
  /\ UNCHANGED <<arch, bit, value, free, tokens, asleep, val, calls, awaited>>

Put(t) ==
  /\ at[t] = "put"
  /\ store' = store + 1
  /\ Goto(t, "notify")
  /\ UNCHANGED <<arch, bit, value, free, tokens, asleep, val, calls, awaited>>

\* Mutant of async_condition_notify: one thread is signalled.
MutSignalOne(t) ==
  /\ at[t] = "notify"
  /\ IF asleep = {} THEN UNCHANGED asleep ELSE \E u \in asleep : asleep' = asleep \ {u}
  /\ tokens' = IF arch = "spin" THEN tokens + 1 ELSE tokens
  /\ Goto(t, "unlock")
  /\ UNCHANGED <<arch, bit, value, free, store, val, calls, awaited>>

\* Every sleeper in mutex; one of them, now or later, in spin.
async_condition_notify(t) ==
  /\ at[t] = "notify"
  /\ asleep' = {}
  /\ tokens' = IF arch = "spin" THEN tokens + 1 ELSE tokens
  /\ Goto(t, "unlock")
  /\ UNCHANGED <<arch, bit, value, free, store, val, calls, awaited>>

\* The caller has the lock, so that complete finds it taken.
async_condition_unlock(t) ==
  /\ at[t] = "unlock"
  /\ free' = TRUE
  /\ Goto(t, "idle")
  /\ UNCHANGED <<arch, bit, value, tokens, asleep, store, val, calls, awaited>>

\* mutex: the thread was signalled.  spin: async_semaphore_dec, up to its swap.
Woken(t) ==
  /\ at[t] = "sleep"
  /\ IF arch = "mutex"
       THEN t \notin asleep /\ Goto(t, "relock") /\ UNCHANGED val
       ELSE tokens > 0 /\ val' = [val EXCEPT ![t] = tokens] /\ Goto(t, "sleepCas")
  /\ UNCHANGED <<arch, bit, value, condition, calls, awaited>>

WokenCas(t) ==
  /\ at[t] = "sleepCas"
  /\ IF tokens = val[t]
       THEN tokens' = tokens - 1 /\ Goto(t, "relock")
       ELSE Goto(t, "sleep") /\ UNCHANGED tokens
  /\ UNCHANGED <<arch, bit, value, free, asleep, store, val, calls, awaited>>

\* pthread_cond_wait may return unsignalled.
CondWakes(t) ==
  /\ t \in asleep
  /\ asleep' = asleep \ {t}
  /\ UNCHANGED <<arch, bit, value, free, tokens, store, at, val, calls, awaited>>

-----------------------------------------------------------------------------
\* The calls themselves; every thread that can go on does in the end.
Step(t) ==
  \/ async_completion_complete(t) \/ CompleteUnlock(t)
  \/ async_completion_wait(t)
  \/ async_completion_check(t) \/ CheckUnlock(t)
  \/ async_semaphore_inc(t) \/ async_semaphore_dec(t) \/ DecCas(t)
  \/ async_condition_lock(t) \/ async_condition_wait(t) \/ async_condition_notify(t)
  \/ async_condition_unlock(t)
  \/ Take(t) \/ Put(t) \/ Woken(t) \/ WokenCas(t)

AsyncNext == \E t \in Threads : Call(t) \/ Step(t) \/ CondWakes(t)

AsyncFairness == \A t \in Threads : WF_avars(Step(t))

AsyncSpec == AsyncInit /\ [][AsyncNext]_avars /\ AsyncFairness

-----------------------------------------------------------------------------
(* The lock of a condition has one owner in both builds, although waits    *)
(* give it up and take it back, and unlocking is a completion that nobody  *)
(* checks the owner of.                                                    *)
MutualExclusion ==
  /\ \A t, u \in Threads : at[t] \in Owning /\ at[u] \in Owning => t = u
  /\ free <=> \A t \in Threads : at[t] \notin Owning

(* Why a completion is one bit although checks and completes borrow its    *)
(* mutex: one thread at a time has it, nobody checks while it is completed *)
(* again, and it is not completed while it is completed for the first time.*)
LendInv ==
  \A t \in Threads :
    /\ Borrowed(t) => ~bit /\ \A u \in Threads : Borrowed(u) => u = t
    /\ at[t] = "completeFirst" => ~Completed
    /\ at[t] = "completeAgain" \/ (at[t] = "complete" /\ Completed) => ~Busy({"check", "giveBack"})
    /\ at[t] \in {"complete", "completeFirst", "completeAgain"} =>
         \A u \in Threads : at[u] \in {"complete", "completeFirst", "completeAgain"} => u = t

\* What spin has read of a semaphore and wants to lower is positive.
DecInv == \A t \in Threads : at[t] \in {"decCas", "sleepCas"} => val[t] > 0

AsyncInv == AsyncTypeOK /\ MutualExclusion /\ LendInv /\ DecInv

Holder ==
  IF \E t \in Threads : at[t] \in Owning
    THEN CHOOSE t \in Threads : at[t] \in Owning ELSE NoThread

Waiting == {t \in Threads : at[t] \in Sleeping}

\* The state of the API: a completion is completed while somebody borrows its mutex.
Api == INSTANCE SyncApi WITH
  Threads <- Threads,
  NoThread <- NoThread,
  completed <- Completed,
  awaited <- awaited,
  value <- value,
  holder <- Holder,
  waiting <- Waiting

(* Both builds do what async_api.h promises, step by step: a completion    *)
(* lets one waiter go although checks borrow its mutex, a semaphore loses  *)
(* one per dec although the swap of spin may fail, and a condition's wait  *)
(* gives the lock up and returns with it.                                  *)
ImplementsApi == Api!Spec

(* A wait for what is completed, or for what the store has enough of,      *)
(* returns, unless another thread is quicker.  In the spin build a notify  *)
(* wakes one thread: this is so only if no taker needs more than one       *)
(* notify brings.                                                          *)
WaitersServed ==
  \A t \in Threads :
    /\ (at[t] = "await" /\ Completed) ~> (at[t] # "await" \/ ~Completed)
    /\ (at[t] \in Sleeping /\ store >= Need[arch][t]) ~> (at[t] \notin Sleeping \/ store < Need[arch][t])
=============================================================================
