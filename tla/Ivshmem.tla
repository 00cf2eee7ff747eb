------------------------------ MODULE Ivshmem ------------------------------
(***************************************************************************)
(* The completions and semaphores of src/async/ivshmem, for one virtual    *)
(* machine: a waiter puts its completion in meta->outstanding and sleeps   *)
(* on its mutex, a completer rings a bell, and async_thread, woken by the  *)
(* bell, unlocks the mutexes of what is completed.                         *)
(*                                                                         *)
(* There is one completion: a list with two would be changed by            *)
(* async_thread, which does not take meta->lock, while a waiter adds to it.*)
(* async_semaphore_init does not set sem->meta, which is 0 in an object    *)
(* that arax_object_register cleared; what follows it ends the process.  A *)
(* condition is a completion that several threads wait for, and cannot be  *)
(* waited for without a semaphore; it is not modelled.                     *)
(***************************************************************************)
EXTENDS Naturals

CONSTANTS
  VM, NoVM,    \* getVmID, and what is in vm_id before a wait
  IvThreads,
  IvMaxCalls   \* bound: calls the threads make

VARIABLES
  flag,        \* completion->completed
  locked,      \* completion->mutex
  outstanding, \* whether the completion is in meta->outstanding
  vm_id,       \* completion->vm_id
  bell,        \* an interrupt that async_thread has not read
  apc,         \* async_thread
  fd,          \* meta->fd; async_thread looks at reg_fd, which nothing clears
  count,       \* sem->value
  ipc, seen,   \* the threads; what a dec read
  icalls,
  crashed,
  returned     \* history: a wait returned

ivars == <<flag, locked, outstanding, vm_id, bell, apc, fd, count, ipc, seen, icalls, crashed,
           returned>>

IGoto(t, l) == ipc' = [ipc EXCEPT ![t] = l]

\* async_meta_init_once, async_meta_init_always and async_completion_init.
IvInit ==
  /\ flag = FALSE
  /\ locked = TRUE
  /\ outstanding = FALSE
  /\ vm_id = NoVM
  /\ bell = FALSE
  /\ apc = "read"
  /\ fd = TRUE
  /\ count = 0
  /\ ipc = [t \in IvThreads |-> "idle"]
  /\ seen = [t \in IvThreads |-> 0]
  /\ icalls = 0
  /\ crashed = FALSE
  /\ returned = FALSE

\* The completion is waited for once and completed once.
IvCall(t) ==
  /\ ipc[t] = "idle"
  /\ icalls < IvMaxCalls
  /\ icalls' = icalls + 1
  /\ \E l \in {"complete", "wait", "inc", "dec", "exit"} :
       /\ l = "complete" => ~flag /\ \A u \in IvThreads : ipc[u] # "complete"
       /\ l = "wait" => ~returned /\ \A u \in IvThreads : ipc[u] \notin {"wait", "vm", "lock"}
       /\ l = "exit" => fd
       /\ IGoto(t, l)
  /\ UNCHANGED <<flag, locked, outstanding, vm_id, bell, apc, fd, count, seen, crashed, returned>>

\* Mutant of wakeupVm: the interrupt goes to another machine.
MutWakeupOther(vm) == bell' = (bell \/ vm # VM)

\* Only the bell of this machine is heard.
wakeupVm(vm) == bell' = (bell \/ vm = VM)

-----------------------------------------------------------------------------
Complete(t) ==
  /\ ipc[t] = "complete"
  /\ flag' = TRUE
  /\ IGoto(t, "ring")
  /\ UNCHANGED <<locked, outstanding, vm_id, bell, apc, fd, count, seen, icalls, crashed, returned>>

Ring(t) ==
  /\ ipc[t] = "ring"
  /\ wakeupVm(vm_id)
  /\ IGoto(t, "idle")
  /\ UNCHANGED <<flag, locked, outstanding, vm_id, apc, fd, count, seen, icalls, crashed, returned>>

\* Nobody unlocks the mutex before it is in the list: trylock fails.
_add_completion(t) ==
  /\ ipc[t] = "wait"
  /\ outstanding' = TRUE
  /\ IGoto(t, "vm")
  /\ UNCHANGED <<flag, locked, vm_id, bell, apc, fd, count, seen, icalls, crashed, returned>>

SetVm(t) ==
  /\ ipc[t] = "vm"
  /\ vm_id' = VM
  /\ IGoto(t, "lock")
  /\ UNCHANGED <<flag, locked, outstanding, bell, apc, fd, count, seen, icalls, crashed, returned>>

WaitReturns(t) ==
  /\ ipc[t] = "lock"
  /\ ~locked
  /\ locked' = TRUE
  /\ returned' = TRUE
  /\ IGoto(t, "idle")
  /\ UNCHANGED <<flag, outstanding, vm_id, bell, apc, fd, count, seen, icalls, crashed>>

\* The read of async_thread returns.
AsyncRead ==
  /\ apc = "read"
  /\ bell
  /\ bell' = FALSE
  /\ apc' = "walk"
  /\ UNCHANGED <<flag, locked, outstanding, vm_id, fd, count, ipc, seen, icalls, crashed, returned>>

\* Its walk of the list.
AsyncWalk ==
  /\ apc = "walk"
  /\ apc' = "read"
  /\ IF outstanding /\ flag
       THEN outstanding' = FALSE /\ locked' = FALSE
       ELSE UNCHANGED <<outstanding, locked>>
  /\ UNCHANGED <<flag, vm_id, bell, fd, count, ipc, seen, icalls, crashed, returned>>

\* meta->fd is cleared, and the join waits for a loop that tests reg_fd.
async_meta_exit(t) ==
  /\ ipc[t] = "exit"
  /\ fd' = FALSE
  /\ wakeupVm(VM)
  /\ IGoto(t, "join")
  /\ UNCHANGED <<flag, locked, outstanding, vm_id, apc, count, seen, icalls, crashed, returned>>

-----------------------------------------------------------------------------
\* pending_list is empty: the threads that would be in it crashed before.
Inc(t) ==
  /\ ipc[t] = "inc"
  /\ count' = count + 1
  /\ IGoto(t, "idle")
  /\ UNCHANGED <<flag, locked, outstanding, vm_id, bell, apc, fd, seen, icalls, crashed, returned>>

DecRead(t) ==
  /\ ipc[t] = "dec"
  /\ seen' = [seen EXCEPT ![t] = count]
  /\ crashed' = (count = 0)
  /\ IGoto(t, "swap")
  /\ UNCHANGED <<flag, locked, outstanding, vm_id, bell, apc, fd, count, icalls, returned>>

\* The old and the new value are passed the wrong way round.
DecSwap(t) ==
  /\ ipc[t] = "swap"
  /\ count' = IF count = seen[t] - 1 THEN seen[t] ELSE count
  /\ IGoto(t, IF count = seen[t] - 1 THEN "idle" ELSE "dec")
  /\ UNCHANGED <<flag, locked, outstanding, vm_id, bell, apc, fd, seen, icalls, crashed, returned>>

-----------------------------------------------------------------------------
IvStep(t) ==
  \/ Complete(t) \/ Ring(t)
  \/ _add_completion(t) \/ SetVm(t) \/ WaitReturns(t)
  \/ async_meta_exit(t)
  \/ Inc(t) \/ DecRead(t) \/ DecSwap(t)

AsyncThread == AsyncRead \/ AsyncWalk

IvNext == ~crashed /\ (AsyncThread \/ \E t \in IvThreads : IvCall(t) \/ IvStep(t))

IvSpec == IvInit /\ [][IvNext]_ivars

IvFairness ==
  /\ WF_ivars(~crashed /\ AsyncThread)
  /\ \A t \in IvThreads : WF_ivars(~crashed /\ IvStep(t))

-----------------------------------------------------------------------------
(* async_completion_wait returns only after async_completion_complete: an  *)
(* interrupt for something else, or the one of async_meta_exit, does not   *)
(* let it go.                                                              *)
WaitAfterComplete == returned \/ ~locked => flag

(* A wait that has stored its machine's id before the completion returns   *)
(* once it is completed; one that comes later may have missed the bell.    *)
BellHeard ==
  \A t \in IvThreads :
    [](ipc[t] = "lock" /\ ~flag /\ ~crashed => [](flag /\ ~crashed => <>(returned \/ crashed)))
=============================================================================
