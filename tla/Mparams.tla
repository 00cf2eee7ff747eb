------------------------------- MODULE Mparams ------------------------------
(***************************************************************************)
(* alloc/dlmalloc/malloc.c, the parameters of the allocator.  mparams is a *)
(* variable of each process, not of the shared segment: the process that   *)
(* attaches sets it by its first call that needs it, whichever thread that *)
(* is, under a spin lock that is taken only while magic is zero.  Stores   *)
(* are seen in program order, the volatile one of magic last.              *)
(***************************************************************************)
EXTENDS Integers, Sequences

CONSTANTS
  MpThreads,      \* threads of one process
  MpMaxCalls,     \* bound: calls of all threads
  Asked           \* values given to mallopt, after -1 became MAX_SIZE_T

ASSUME MpAssumption == Asked \subseteq Nat

VARIABLES
  mparams,        \* all 0 until the first call
  mutex,          \* malloc_global_mutex
  step,           \* program counters
  option,         \* the parameter and value of a call of mallopt, or <<>>
  unset,          \* what an initialising thread has still to write
  accepted,       \* ghost: the value each option was last set to, or Unasked
  mpcalls

pvars == <<mparams, mutex, step, option, unset, accepted, mpcalls>>

Unasked == -1

Options == {"trim_threshold", "granularity", "mmap_threshold"}
Writes == <<"granularity", "page_size", "mmap_threshold", "trim_threshold", "default_mflags">>
Fields == {Writes[i] : i \in 1 .. Len(Writes)}

\* In the order of the code's: a page, 64K, 256K, 2M; three flags.
Default == [page_size |-> 2, granularity |-> 8, mmap_threshold |-> 16,
            trim_threshold |-> 32, default_mflags |-> 7]

IsPowerOfTwo(v) == \E k \in 0 .. v : v = 2 ^ k

MpInit ==
  /\ mparams = [f \in Fields \cup {"magic"} |-> 0]
  /\ mutex = 0
  /\ step = [t \in MpThreads |-> "idle"]
  /\ option = [t \in MpThreads |-> <<>>]
  /\ unset = <<>>
  /\ accepted = [o \in Options |-> Unasked]
  /\ mpcalls = 0

At(t, here, there) == step[t] = here /\ step' = [step EXCEPT ![t] = there]

\* sys_alloc, sys_trim and the rest only read; mspace_mallopt changes a parameter.
MpCall(t) ==
  /\ mpcalls < MpMaxCalls
  /\ mpcalls' = mpcalls + 1
  /\ At(t, "idle", "ensure")
  /\ UNCHANGED <<mparams, mutex, option, unset, accepted>>

mspace_mallopt(t) ==
  /\ mpcalls < MpMaxCalls
  /\ mpcalls' = mpcalls + 1
  /\ At(t, "idle", "ensure")
  /\ \E o \in Options, v \in Asked : option' = [option EXCEPT ![t] = <<o, v>>]
  /\ UNCHANGED <<mparams, mutex, unset, accepted>>

ensure_initialization(t) ==
  /\ IF mparams["magic"] # 0 THEN At(t, "ensure", "use") ELSE At(t, "ensure", "cas")
  /\ UNCHANGED <<mparams, mutex, option, unset, accepted, mpcalls>>

\* CAS_LOCK, and spin_acquire_lock's loop: read until free, then CAS_LOCK again.
AcquireLock(t) ==
  /\ \/ mutex = 0 /\ At(t, "cas", "locked") /\ mutex' = 1
     \/ mutex = 1 /\ At(t, "cas", "spin") /\ UNCHANGED mutex
     \/ mutex = 0 /\ At(t, "spin", "cas") /\ UNCHANGED mutex
  /\ UNCHANGED <<mparams, option, unset, accepted, mpcalls>>

init_mparams(t) ==
  /\ IF mparams["magic"] = 0
       THEN At(t, "locked", "write") /\ unset' = Writes
       ELSE At(t, "locked", "release") /\ UNCHANGED unset
  /\ UNCHANGED <<mparams, mutex, option, accepted, mpcalls>>

WriteField(t) ==
  /\ step[t] = "write"
  /\ unset # <<>>
  /\ mparams' = [mparams EXCEPT ![Head(unset)] = Default[Head(unset)]]
  /\ unset' = Tail(unset)
  /\ UNCHANGED <<mutex, step, option, accepted, mpcalls>>

\* Mutant of WriteMagic: it does not wait for the other writes.
MutMagicFirst(t) ==
  /\ mparams["magic"] = 0
  /\ step[t] = "write"
  /\ mparams' = [mparams EXCEPT !["magic"] = 1]
  /\ step' = IF unset = <<>> THEN [step EXCEPT ![t] = "release"] ELSE step
  /\ UNCHANGED <<mutex, option, unset, accepted, mpcalls>>

WriteMagic(t) ==
  /\ unset = <<>>
  /\ At(t, "write", "release")
  /\ mparams' = [mparams EXCEPT !["magic"] = 1]
  /\ UNCHANGED <<mutex, option, unset, accepted, mpcalls>>

ReleaseLock(t) ==
  /\ At(t, "release", "use")
  /\ mutex' = 0
  /\ UNCHANGED <<mparams, option, unset, accepted, mpcalls>>

Change(o, v) ==
  /\ mparams' = [mparams EXCEPT ![o] = v]
  /\ accepted' = [accepted EXCEPT ![o] = v]

\* A granularity that is not a power of two, or below a page, is refused.
change_mparam(t) ==
  /\ At(t, "use", "idle")
  /\ option[t] # <<>>
  /\ LET o == option[t][1]
         v == option[t][2]
     IN  IF o = "granularity" /\ ~(v >= mparams["page_size"] /\ IsPowerOfTwo(v))
           THEN UNCHANGED <<mparams, accepted>>
           ELSE Change(o, v)
  /\ option' = [option EXCEPT ![t] = <<>>]
  /\ UNCHANGED <<mutex, unset, mpcalls>>

UseParams(t) ==
  /\ At(t, "use", "idle")
  /\ option[t] = <<>>
  /\ UNCHANGED <<mparams, mutex, option, unset, accepted, mpcalls>>

MpStep(t) ==
  \/ ensure_initialization(t) \/ AcquireLock(t) \/ init_mparams(t)
  \/ WriteField(t) \/ WriteMagic(t) \/ ReleaseLock(t)
  \/ change_mparam(t) \/ UseParams(t)

MpNext == \E t \in MpThreads : MpCall(t) \/ mspace_mallopt(t) \/ MpStep(t)
MpSpec == MpInit /\ [][MpNext]_pvars

-----------------------------------------------------------------------------
(* Properties                                                              *)

\* Everything is set, if only to what mallopt made of it, and the granularity is
\* one that granularity_align can mask with: a power of two, at least a page.
AllSet ==
  /\ \A f \in Fields : mparams[f] # 0 \/ (f \in Options /\ accepted[f] = 0)
  /\ IsPowerOfTwo(mparams["granularity"])
  /\ mparams["granularity"] >= mparams["page_size"]

\* Whoever is past ensure_initialization works with parameters that are all set.
\* The test of magic outside the lock is all that says so.
ParamsUsable == \A t \in MpThreads : step[t] = "use" => AllSet

\* What mallopt accepted stays: no thread that is late with its own initialisation
\* writes the defaults over it.
OptionsKept == \A o \in Options : accepted[o] # Unasked => mparams[o] = accepted[o]

\* The parameters are all set when they are used, and stay what mallopt made them:
\* init_mparams runs once, whichever threads come first.
ParamsSound == ParamsUsable /\ OptionsKept

-----------------------------------------------------------------------------
(* The invariant of the proof                                              *)

MpTypeOK ==
  /\ mparams \in [Fields \cup {"magic"} -> Nat]
  /\ mutex \in {0, 1}
  /\ step \in [MpThreads -> {"idle", "ensure", "cas", "spin", "locked", "write", "release", "use"}]
  /\ option \in [MpThreads -> {<<>>} \cup Options \X Asked]
  /\ unset \in Seq(Fields)
  /\ accepted \in [Options -> Nat \cup {Unasked}]

Inside(t) == step[t] \in {"locked", "write", "release"}

\* The lock has one holder at most, and is taken when it has one.
LockHeld ==
  /\ \A t \in MpThreads : Inside(t) => mutex = 1
  /\ \A t, u \in MpThreads : Inside(t) /\ Inside(u) => t = u

\* What has been written while magic is not, and that nobody is past it.
Initialising ==
  \A t \in MpThreads :
    /\ step[t] = "write" => mparams["magic"] = 0
    /\ step[t] = "write" =>
         \A f \in Fields : mparams[f] = Default[f] \/ \E i \in 1 .. Len(unset) : unset[i] = f
    /\ step[t] \in {"release", "use"} => mparams["magic"] # 0

\* Before magic is written mallopt changes nothing; from then on everything is set.
Initialised ==
  IF mparams["magic"] = 0 THEN \A o \in Options : accepted[o] = Unasked ELSE AllSet

MpInv == MpTypeOK /\ LockHeld /\ Initialising /\ Initialised /\ OptionsKept
=============================================================================
