# Verification of Arax

This directory holds TLA+ models of Arax: the shared-memory runtime
(`src/src`, `src/include`) and its controller (`src/controller`). TLC checks them
on small instances, and TLAPS proves the invariants of the core for every size.

## 1. The system

Arax lets applications run tasks on accelerators that a separate process, the
controller, owns. All state is in one shared segment (the *pipe*). An
application acquires *virtual accelerators* (`arax_vaccel_s`, VAQ in some
schedulers), each with a task queue. The controller has one worker thread per
*physical accelerator* (`arax_accel_s`), a balancer thread that assigns virtual
accelerators to physical ones, a thread that loads libraries of kernels, and a main
thread that starts and stops them. Processes meet only in the segment; threads meet
through spinlocks, atomic counters, and the completions, semaphores and conditions
of `src/src/async`.

| Component | State | Operations | Meets | Hard about it | Correct when |
|---|---|---|---|---|---|
| Throttle (`arax_throttle.c`) | `available`, `capacity`, a condition | `size_dec` (blocks), `size_inc` | objects are charged and credited by different threads | many waiters for different sizes | the budget is conserved, no waiter sleeps on a request that fits |
| Primitives (`async/mutex`, `spin`, `ivshmem`) | a mutex or a word, a semaphore, a list of outstanding waits | `complete`, `wait`, `check`, `inc`, `dec`, `lock`, `notify` | everything waits with them | a mutex unlocked by strangers, one token per notify, bells between machines | they do what `async_api.h` says, and nobody sleeps through it |
| Task queue (`queue.c`) | ring, two 16-bit counters, a spinlock for pushers | `push`, `pop`, `peek`, `used_slots` | issuers push, workers pop and peek | lock-free pop, counters wrap | it is a bounded FIFO |
| Virtual accelerator (`arax_vaccel.c`) | `queue`, `phys`, `lock` | `init`, `add_task`, destructor | issuers, worker, balancer | the push spins with the lock held | a task is counted once, by its issuer or by who assigns the virtual accelerator |
| Physical accelerator (`arax_accel.c`) | list `vaccels`, count `tasks`, a condition | `wait_for_task`, `add_task`, `add_vaccel`, `del_vaccel`, `get_assigned_vaccels` | its worker, issuers, balancer | token count against queues in other structures | the count is the number of pending tasks, nobody sleeps on a queued task |
| Orphans (`arax_pipe.c`) | list `orphan_vacs`, a condition | `add_`, `get_`, `remove_orphan_vaccel` | applications add, balancer takes | a wait that is not in a loop, one list node for two kinds of list | a virtual accelerator is in exactly one place |
| Worker (`accelThread.cpp`) | copy of its list, running task, `stopExec`, `job_preference` | start, loop of `workFunc`, `terminate`, migration | scheduler, main thread, device | works from a copy | every task is served, a stopped worker ends |
| Schedulers | round-robin counters, credits, preferences, loads | `assignVac`, `selectTask`, `postTaskExecution` | worker and balancer call them | Elastic moves, Heterogeneous gives up virtual accelerators in use | order of tasks kept, no virtual accelerator lost, nobody starved |
| Attach (`impl.c`, `arax_pipe.c`) | `processes`, `proc_map`, `sha`, `cntrl_ready`; per process `threads`, `initialized`, `vpipe` | `_arax_init`, `arax_controller_init_done`, `arax_exit` | threads of a process, processes, controller | no lock spans it; the last to leave removes the file | initialised once, used only when initialised, everybody gets through |
| Settings (`utils/config.c`) | a file of pairs | getters, `write_str`, path expansion | all processes, before they attach | readers append defaults | all agree on the segment's name |
| Objects (`arax_object.c`, `arax_proc.c`) | lists per type, reference counts | `register`, `ref_inc`, `ref_dec`, searches, lists | everything is an object | destruction races with a search | counts are exact, nothing freed is found |
| Tasks and data (`arax_task.c`, `arax_data.c`) | arguments, state, owner, remote buffer | `issue`, `wait`, `set`, `get`, `migrate`, destructors | issuers, workers, back ends, two throttles | destructors issue tasks, also in a worker | nothing leaks, devices are charged for what they hold, `arax_task_wait` returns |
| Back ends (`Cpu`, `Cuda`, `ROCm`, `OpenCL`) | remote allocations | built-ins, transfers, start and release | worker, data | four versions of the same thing | each keeps references and budgets as the core expects |
| Allocator (`dlmalloc/malloc.c`, `alloc.c`, `bitmap.c`) | chunks, bins, tries, segments, bitmap of pages, parameters | `malloc` to `trim`, `alloc_bits` | all processes | boundary tags, wrap around words, double-checked initialisation | no two owners of a byte, nothing that fits is refused |
| Controller (`arax_controller.cpp`, `Config.cpp`, `araxLibMgr.cpp`) | configuration, libraries, `shouldExit` | start, load, spawn, let in, stop | workers, loader, applications, SIGINT | failures half way, who waits for whom | applications are let in when all is ready, and it ends when told |

`PROJECT.json` lists every component with its status, the lines each definition
models, and the hazards with the properties that cover them.

## 2. The modules

    SyncApi       what the primitives promise         <- refined by Async
    Async         those of the mutex and spin builds; Ivshmem: those of guests
    Throttle      the byte budget
    BoundedFifo   what a task queue promises          <- refined by Queue
    Queue         the ring
    Dispatch      virtual and physical accelerators, orphans, issuers, workers,
                  balancer, main thread: what all schedulers share
      RoundRobin, Elastic, Heterogeneous    Dispatch with a scheduler
    WeightedRR, FlexyRR, LoadBalance        schedulers outside the build
    Attach        processes and threads attach and leave; Settings: their file
    Backends      what the functors of four device types do, as sequences of operations
      Lifetime    Backends run by workers, with an application, data, tasks, throttles
    Registry      the object repository under several threads
    Migration     data that follow a virtual accelerator between devices
    PagePool      disjoint runs of pages              <- refined by PageMap
    Bitmap        the bitmap; PageMap: its users
    Chunks        chunks, bins and tries; Mspace: malloc, free, segments, on Bitmap
      Heap        threads that use a mspace, and its own checks
    Mparams       initialisation of the allocator's parameters
    Config, LibMgr, AccelThread             configuration, libraries, worker threads
      Controller  composes the three with the main thread

    SyncProofs (Throttle, Async, Ivshmem, Mparams, Registry), QueueProofs,
    AttachProofs (Attach, Settings), DispatchProofs (lemmas), RoundRobinProofs,
    PlacementProofs (Heterogeneous, Elastic), ControllerProofs,
    ShelvedProofs (WeightedRR, FlexyRR, LoadBalance, Migration)    theorems
    MCSync, MCRoundRobin, MCPlacement, MCAttach, MCLifetime, MCAllocator, MCController,
    MCShelved                               the instances for TLC (Queue is its own)

A definition keeps the name of the code it models where it can; `PROJECT.json`
"map" gives the lines. `Mut...` operators are mutants: a plausible bug in
the definition that follows. For each property one of them is put in its place,
and TLC must then find the property violated.

An MC module that holds several independent specifications has a variable `which`,
chosen in the initial state: one of them runs, the state of the others never changes.
So MCSync asks three questions, of Throttle, Async and Ivshmem; MCPlacement is Elastic
or Heterogeneous; MCAttach is Attach or Settings; MCLifetime is Lifetime or Registry;
MCAllocator is Heap, PageMap or Mparams; MCShelved is WeightedRR, FlexyRR,
LoadBalance or Migration. A property of an MC module names its parts, which are
defined and explained in the component's module.

### What is a step

*Throttle, Attach, Dispatch*: a critical section of a condition is one step,
because nothing blocks in it but the wait, which ends the step. A waiter leaves
the wait on a broadcast or spuriously, and looks again where the code has a loop.
That such a section is what the primitives give is the subject of Async.
*Queue*: every read and write of a shared field is a step; the two reads in
`utils_queue_push` under the lock are one, because nobody else writes `bottom`.
*Dispatch* takes pushes and pops of a queue as one step each, which is what the
refinement of `BoundedFifo` by `Queue` licenses. The spinlock of a virtual
accelerator is a variable (`vlock`), since `arax_vaccel_add_task` keeps it while it
waits for a free slot. *Lifetime, Registry*: a thread has a stack of primitive
operations and runs one per step; a destructor is pushed on it.
*Heap*: a call is a step, for the code holds the mspace's lock from end to end, except
in `ialloc`. *Migration*: a step per buffer.

### Primitives

`Async` has one completion, one semaphore and one condition, used as the core uses
them: a worker completes, issuers wait or check; takers wait in a loop on a condition
for a store that givers fill. A completion of the mutex build is one bit, whether its
mutex is free, which a check borrows for a moment. `SyncApi` is the interface: a
completion lets one waiter go, `dec` waits for a positive value, a condition's wait
gives up the lock and has it again when it returns. Nobody checks a completion that is
completed while it is completed again (`mutex/async.c:19` against `:32`: the check
may take what the completion brought).

`Ivshmem` has one completion and one semaphore of one machine, the waiters, the
completer that rings a bell, and `async_thread`, which the bell wakes. A semaphore's
`meta` is never set (`ivshmem/async.c:149`): a thread that uses it crashes, in the model too.

### Throttle, Queue

`size_dec` is `CallDec` and `TakeOrWait`, `size_inc` is `arax_throttle_size_inc`;
`ReleaseInitial` is the credit that a stopping worker gives for what its device had
in use at start. A user is an object that is registered and destroyed once.

`pushed` and `popped` of Queue are history; the refinement maps the FIFO's contents to
them. The 16-bit counters wrap at `Wrap`. `NoLap` is an assumption on scheduling: while
a pop is between its read of `top` and its compare-and-swap, fewer than 65536 other pops
complete. Without it the compare-and-swap could succeed on a stale value.

### Dispatch and the schedulers of the build

One record of variables per structure: `queue`, `phys`, `vlock` of a virtual
accelerator, `assigned`, `tasks` of a physical one, `orphans`; program counters of
issuers (`tpc`), workers (`wpc`), balancer (`bpc`); and the worker's locals: its copy
`VACs`, the position `idx` in the loop of `selectTask`, `rr`, `cur`. A *token* is a
unit of `tasks`: an issuer adds one when the virtual accelerator is assigned
(`AddTaskSignal`), `LinkVaccel` adds one for each task queued before, the worker
consumes one in `arax_accel_wait_for_task`. `tasks` is a `size_t`, modulo `SizeMod`.
Every accelerator has its `free_vaq` assigned from the beginning. `log` is history.

* `RoundRobin`, the default: `assignVac` names any accelerator, because its
  static iterator points into a vector that is destroyed at every return.
* `Elastic`: as RoundRobin, but `assignVac` first moves another virtual accelerator
  away, chosen from the *worker's* copy of its list. A failed assertion is the state
  `abort`.
* `Heterogeneous`: a worker peeks at the head, pops what it can run, and gives
  up a virtual accelerator whose head it cannot run: `arax_accel_del_vaccel` and
  `arax_pipe_add_orphan_vaccel` are two steps.

### Shelved schedulers, Migration

`Schedulers/CMakeLists.txt` builds three schedulers. WeightedRR, FlexyRR and
LoadBalance are in the repository, not in the build; `arax_pipe_add_task` and
`arax_vaccel_test_set_assignee`, which they call and which are gone, are modelled from
their use, as external. FlexyRR's durations are any of two numbers, one negative, because
the code computes them before it stops the clock (`FlexyRRScheduler.cpp:338`); its sum of
durations is read, written, and written again in steps of their own
(`FlexyRRScheduler.h:74`), and two virtual accelerators of one client lose updates of it
in the run. In WeightedRR a worker tests a virtual accelerator and inserts it in two
steps, between which a second worker, let in by the double unlock of `myMutex`, may test
the same one; the run has one worker (see section 3). A client's id may be the one after
the last (`checkJobIdRange` lets it through): what is read for it is any value, or
the end of the controller. LoadBalance has virtual accelerators that come and go;
`physAccelJobCounter` only grows, so that it counts what a worker was ever given, and loads
are balanced up to what was released. One that is freed while a worker has it in its array is left out.

`Migration` is the `MIGRATION` build (an option that is off by default,
`controller/src/Core/CMakeLists.txt:2`) under Heterogeneous. The content of a buffer is
a version number; `migrateFromRemote` brings it to the host with the functions of the
back end it was on, `migrateToRemote` to the device of the worker with its own. A buffer
stays with one virtual accelerator: that `arax_data_migrate_accel` (`arax_data.c:155`) may give it to another
on the same accelerator, while tasks of the first are queued, is left out.

### Attach, Settings

A segment is what one name of the shm file stood for between its creation and its
removal; segments are numbered. A thread runs through `_arax_init` (`Enter` to `Good`),
an application then waits for `cntrl_ready`, the controller sets it; the last thread
of a process runs through `arax_exit`. `proc_map` is modelled with the bytes that
`memmove` really moves: whole cells, and of the last one the low bytes. A process of another
revision is refused after it was counted (`arax_pipe.c:14`) and ends with its count and its cell
in place (`Refuse`); the last one to leave may fail the assertion that nothing leaked (`impl.c:185`,
`ExitAborts`; what is available is not modelled, so both outcomes are possible).

A settings file is its words, which `fscanf` takes two by two. A process that asks for a
string and does not find it appends its default in a second step. In the expansion of a path, the
terminator that `strncat` may write one past the buffer (`config.c:49`) is not represented: the
path is refused right after.

### Backends, Lifetime, Registry

`Backends` gives, for each of the four device types, what every built-in, every
transfer and the code around a functor do to the task, its data, their references and
the device's throttle. The same things are done by four pieces of code
in different orders; the operators keep the names of the functions. `Lifetime` is one
application, the balancer and a worker of any one of the types: acquire, release, create
and free buffers, set, get, allocate, adopt a remote buffer, issue, wait and free; the
destructors of task, data and virtual accelerator run on the stack of whoever dropped
the last reference. An identifier is an address, and is used again once freed. Kept out by guards:
a buffer that is used by a virtual accelerator on another device ("D2D not
implemented", `arax_data.c:162`); inputs nobody gave a value (`Host2GPU` would allocate
them without charging the device, `CUDAaccelThread.cpp:193`); release of a virtual
accelerator that is not assigned yet (`Early`); the asynchronous memcpy of CUDA, which
never completes its task (`CUDABuiltins.cu:251`); a wait for, or a free of, the task of an OpenCL
memset, which `opencl_memset` has freed by itself: an application that frees what it issued would
free it twice.

`Registry` is the repository with its three locks: a controller that creates and deletes
accelerators and registers procedures, and two applications that list, hold and release
virtual accelerators and get and put procedures. One thread registers, and an array is
given back to `arax_accel_list` for the kind it was filled with.

### Allocator

`Chunks` is what `malloc.c` keeps inside a heap: boundary tags, small bins, tries of
tree chunks, the designated victim and the top. `Mspace` has `mspace_malloc`, `free`,
`memalign`, `realloc`, segments, mapped chunks, trimming and release on top of the pages
that `arax_mmap` takes from `Bitmap`; `Heap` has the calls of `alloc.c` and of users, and
`do_check_malloc_state`, the checks that the debug build makes. Words are the unit; sizes are
scaled down together. The build has spin locks and mspaces only
(`dlmalloc/CMakeLists.txt:10`). `ialloc` is that of `independent_calloc`: elements of one size, no array
given. It clears and restores the mapping flag outside the lock
(`malloc.c:5125`); `IallocAlone` says that no other call comes between, which the code does not
ensure. RECURSIVE operators
(tries) keep these modules out of the prover's reach.

`Mparams` has two threads of a process that need the parameters for the first time, one
of which may call `mspace_mallopt`; the fields are stored one by one. Stores are seen in program
order (the build's processors keep it, and `magic` is volatile).

### Controller

`Config` turns a file, abstracted to the shape of its JSON, into groups and
accelerators, or throws. The name of an accelerator that has none in the file,
`group:arch:count`, may be given to another: in a group the later one replaces the earlier, over groups
the first stays. `LibMgr` scans and watches folders and loads what it finds;
folders and files are paths, `Real` says which of them are the same (two paths load a
library twice, inotify has one watch). `run.false`, which is to wake the loader at the end, may not be
creatable, and then `main` joins it for ever. `AccelThread` is the life of a worker with its device (`acceleratorInit` and
`acceleratorRelease` of four types, under `print_lock`). `Controller` is `main`, from the
file to the exit, with an application that issues tasks and an interrupt at any time. Nothing
checks that a library has a functor for the procedure of a task (`impl.c:485`, `accelThread.cpp:419`): a worker
that calls a null one ends the controller (`crashed`), and so does one whose `arax_accel_init`
returned null (`accelThread.cpp:364`).

## 3. The runs

| Run | Instance | Distinct states | Shows |
|---|---|---|---|
| `synchronisation` | throttle: 4 objects, sizes 0..3, capacity 3 of which 2 are available; primitives: 3 threads, 4 calls, both builds; ivshmem: 2 threads, 5 calls | 133,784 | nobody gets past a wait too early (`NobodyEarly`), no lost wake-up, requests that can be met are met, both builds implement `SyncApi`, waiters are served, bells are heard |
| `queue` | 2 pushers, 3 poppers, 2 slots, counters modulo 4, 7 pushes | 518,786 | inductive invariant, refinement of `BoundedFifo` |
| `round_robin` | 2 accelerators, 2 orphans, 3 tasks, queues of 2, stop at any time | 1,316,203 | `IInv`, exact token count, a token finds its task, tasks in order without overlap |
| `round_robin_live` | 1 accelerator, an orphan and an acquired virtual accelerator, 3 tasks, queues of 1, stop, two spurious wake-ups of the balancer in a row | 67,733 | tasks are served unless null was assigned, workers stop, the balancer assigns null only after both |
| `round_robin_full` | as before, with two orphans | | **violated**: deadlock on a full queue of an orphan |
| `placement` | Heterogeneous: 2 accelerators, 2 virtual ones, 3 tasks (one for each accelerator, one for both); Elastic: 3 virtual accelerators, 1 task | 2,799,607 | lists consistent through moves; Heterogeneous keeps the order, and what was peeked holds |
| `attach` | the controller, a process of 2 threads, a process of 1 thread, of which the first and the last leave and call again, all of one revision or the last of another; settings: 2 processes, 6 files, 3 calls | 290,419 | count and map of processes exact, also after processes ended refused or aborted, one initialiser, a second thread waits for the first; processes agree on their settings |
| `attach_ready` | the controller and applications of one thread | | **violated**: a lost notification |
| `lifetime` | 1 device of each type in turn, 2 virtual accelerators, 2 buffers, 3 tasks, 5 calls; repository: 1 physical and 2 virtual accelerators, 2 procedure objects, 3 threads, 4 calls | 603,339 | reference counts exact, nothing freed in use or found, devices charged for what they hold, no deadlock on the repository's locks, `arax_task_wait` returns |
| `allocator` | heap of 16 pages of 16 words, five layouts, 3 more calls; bitmap of 4 words of 3 bits; 2 threads with parameters | 216,316 | the heap's own check after every call, allocations intact, pages owned once, best fit and no gap missed, refinement of `PagePool`, parameters whole |
| `controller` | 35 configuration files, most of them bad; 3 paths to 2 folders, 4 to 3 files; one task, with or without a functor; interrupt at any time | 171,712 | of accelerators of one name which gets a worker, all these are ready when applications are let in, nothing closed or released is in use, the controller ends |
| `shelved` | weighted: 1 worker, 3 VAQs, 3 tasks; flexible: 2 workers, 2 VAQs of one client; balancing: 2 workers, 3 VAQs that come and go; migration: a device of each type, 3 buffers, 3 tasks | 1,028,520 | no VAQ lost, weights served, one server each, policies kept, loads within one and what was released, data arrive with their last version |

### Bounds

Two of everything makes each race between equals happen, and a third gives
somebody to overtake: three poppers let a pop see two others complete, three tasks put
two in a queue and one elsewhere, three virtual accelerators let a
move race with an assignment that moves another. `Wrap` = 2 x `Capacity` is the smallest width that
tells full from empty; seven pushes take both counters around more than once.
`QueueCap` = 1 or 2 makes queues fill up. `SizeMod` = 8 is larger than any legal count
and small enough for a wrap to be seen. `MaxSpurious` bounds spurious wake-ups of the
*balancer* in a row, since the last orphan it popped: two of them make
`arax_pipe_get_orphan_vaccel` return null twice, which goes to `assignVac` and ends the balancer.
`round_robin_live` has both; in the other runs it is below two, so that there is a balancer.
Spurious wake-ups of workers are not bounded.
`MaxCalls` = 2 of Attach lets a thread come back, `Leavers` are the threads that may call
`arax_exit`, `MaxSegments` is more than the segments they can create. `MapSize` = 24 with
cells of 8 bytes is the proportion in which the first three cells are moved correctly
(as 1024 is for the first hundred or so).

Five calls of Lifetime are enough to acquire two virtual accelerators, create a buffer,
use it and drop it in any order, while the tasks that destructors issue are not
counted; `PipeSize` is the number of objects, so that the pipe's throttle blocks nobody
(less is described below), `DevSize` more than the buffers. `RegMaxCalls` = 4 with one
accelerator registered at the start lets one thread list, another release and a third
list again. The heap begins with one of five layouts of allocations (empty, three
sizes of one trie, a ring of one size, two with segments and mapped chunks between) and makes three further
calls of any kind and size: enough to split, merge, trim, release and take again. Two
branches stay out of reach: a designated victim that is the first chunk of a segment in
`prepend_alloc`, and a segment released by `release_unused_segments` after that. The bitmap
has words of three bits and runs of one to three words. The configurations of MCController
are one for each way a file is good (several groups, names that clash, each back end) or
refused. In MCShelved, the branch of FlexyRR that gives all accelerators to batch jobs,
and, with one worker, the empty queues of `Select` in WeightedRR are not reached.

Symmetry is used for the two like accelerators with their `free_vaq`s
(`round_robin`) and for data and threads of the queue. Deadlock is checked but in
MCAttach, MCLifetime and MCAllocator, where everybody may have made all calls;
MCSync and MCShelved have explicit steps for that.

### Fairness

Weak fairness of the steps of a thread that has begun something: issuers after they
took the lock, workers, balancer, `terminate` after its flag, a call of `arax_init`,
threads inside a call of a primitive, the loader, `main`. The
operating system schedules runnable threads, a spinlock that stays free is acquired,
a device finishes its task. No fairness for applications' calls, for stopping and for
spurious wake-ups. In Throttle, an object that was charged is destroyed at some time;
without that nobody could promise a waiter anything. `async_thread` of ivshmem is woken by
an interrupt that was delivered. FlexyRR and LoadBalance lose tokens, so nothing is claimed of
their liveness.

### Where the code differs from what it says

Two runs show a violation:

1. `round_robin_full`: `arax_vaccel_add_task` spins on a full queue with
   `vaccel->lock` held, and assigning the virtual accelerator needs that lock.
2. `attach_ready`: `cntrl_ready` is set and notified without the lock.

The same models show more when the constants of a run are changed or another of their
definitions is put into a cfg; each of these is a counterexample of TLC, not a run:

| To see it | What fails |
|---|---|
| Elastic with two accelerators, three orphans, one task, `MayStop` FALSE, invariant `MovesAssigned` | `assignVac` moves what the worker's old copy names and what was moved away before: the assertion of `arax_accel.c:161` |
| Elastic with two tasks on a virtual accelerator that is moved, `Sequential` | a move while a task runs lets the next one start elsewhere, although `arax_vaccel.h:18` says of SEQUENTIAL "no overlap" |
| Heterogeneous, `FairSpec`, `SizeMod` 16, `MayStop` FALSE, `EveryTaskServed` | `arax_accel_del_vaccel` (`arax_accel.c:169`) withdraws a token that was used already; the `size_t` goes below zero, and later a worker sleeps on a queued task |
| Attach with `Controller` and single threads, `ReceivesInitialised` | `sha[0]` is published (`arax_pipe.c:31`) before the pipe is initialised, against `arax_pipe.h:159` |
| Attach with every thread in `Leavers`, `WaitsForInit` | `arax_exit` clears `vpipe` (`impl.c:194`) and not `initialized`; when threads come back, the second does not wait (`impl.c:51`) and uses a null pipe |
| Attach with `MapSize` 8, `ProcMapExact` | `arax_pipe.c:160` gives `memmove` a number of cells for a number of bytes |
| PageMap with `Word` 4, `Size` 6, `ImplementsPool` | a bitmap that is not a whole number of words hands out the bits behind its end (`bitmap.c:128`) |
| WeightedRR with two workers, `OneInserts` or `TrackedOnce` | `selectTask` unlocks `myMutex` twice (`WeightedRoundRobinScheduler.cpp:296`, `:398`) and lets a second worker in, which inserts what the first is inserting. `NotLost` still holds |
| LoadBalance, the loads of two workers within one | `physAccelJobCounter` is not decreased when a virtual accelerator is released (`LoadBalanceScheduler.cpp:67`) |
| Async with a taker that needs two in the spin build, `WaitersServed` | `notify` posts one token (`spin/async.c:76`), and the one it wakes may go back to sleep |
| Lifetime with `PipeSize` 4, GPUs only, `WaitReturns` | a worker drops the last reference of a buffer, whose destructor registers a task and waits for the pipe's throttle (`arax_object.c:103`), while the application waits for a task of that worker |
| Lifetime with `Early` TRUE, `NoDangling` | an orphan is released while the balancer has it in its hands: the destructor (`arax_vaccel.c:119`) does not wait, and the balancer assigns what is freed |
| Lifetime, `CopiesLive` | a virtual accelerator is released after a worker copied its list: `selectTask` looks at the queue of what is freed |

Read, not shown by a model: `arax_data_allocate_remote` charges a device twice
(`arax_data.c:207`; `DeviceCharged` takes it into account); the budget of CPU devices is
never credited (`CPUaccelThread.cpp:84`; left out of `DeviceCharged`); a migration credits the
virtual accelerator's new device (`CUDAaccelThread.cpp:414`; `DataFollow` speaks of the sum); main waits for
ever for a worker whose device failed (`arax_controller.cpp:86`) and for a loader that `run.false`
does not wake (`araxLibMgr.cpp:263`), which `Ends` excepts; OpenCL's release aborts
with two kernels (`OpenclaccelThread.cpp:218`); `utils_config_write_long` opens its file in a
mode that does not write (`config.c:17`); `mspace_set_footprint_limit(0)` lifts the limit (`malloc.c:6086`).

## 4. The proofs

All theorems are of the form `Spec => []P`, or a refinement, for every value of the
constants that satisfies the assumptions; `PROJECT.json` "theorems" lists them.

| Theorem | Assumes | Argument |
|---|---|---|
| `ThrottleTypeCorrect`, `ThrottleNoLostWakeup` | the assertions of `arax_throttle_init` | `TypeOK` and `TypeOK /\ NoLostWakeup` are inductive: a step that makes more available wakes every waiter, all others make less available |
| `AsyncInvariant`, `AsyncImplementsApi` | a need is positive | `AsyncInv`: one owner of the condition's lock, one borrower of the completion's mutex and only while it is taken, what a `dec` of the spin build read is positive. Then each step is one of `SyncApi` or none |
| `IvshmemWaitAfterComplete` | | inductive as it stands |
| `MparamsSound` | values are numbers | `MpInv`: the spin lock has one holder; while `magic` is 0 mallopt has accepted nothing and a field is written or still in the list of writes; afterwards everything is set |
| `RepositoryNobodyStuck` | there are accelerators of both kinds, an address has one type (`RegAssumption`) | `RegInv`, below |
| `QueueInvariant` | capacity divides the counter width and is smaller, `NoLap` | `IInv`: counters are the wrapped lengths of the histories, slots between them hold what was pushed, a pusher in the critical section has room, a pop's copy of `top` is less than a turn old and what it learnt holds while no pop completes. Lemmas on remainders turn equality of wrapped counters into equality |
| `QueueHoldsHead`, `QueueIsBoundedFifo` | the same | from `IInv`: `PushPublish` is `Put`, a successful `PopCas` is `Take`, all else stutters |
| `RoundRobinInvariant`; `RoundRobinLists`, `RoundRobinTokens`, `RoundRobinFinds`, `RoundRobinSequential` | `DispatchAssumption`; fewer tasks than the width of the count (`TasksAssumption`) | `IInv`, below |
| `RoundRobinAssigns` | the same | `WakeInv`, a part of `IInv`: the balancer gets null only after two wake-ups that no orphan explains |
| `HeterogeneousInvariant`; `HeterogeneousLists`, `HeterogeneousSequential`, `HeterogeneousPeek` | the same, and every task can run somewhere | `IInv`, below |
| `ElasticLists` | `DispatchAssumption` | `ElasticInv`: `TypeOK /\ ElasticHands /\ MovedConsistent` |
| `AttachInvariant`; `AttachProcessesKnown`, `AttachOneInitialiser` | finitely many threads; `LeaversAlone`, `MapFits` | `IInv` of Attach, below |
| `SettingsAgree` | a settings file consists of pairs of words (`SetAssumption`) | `SetInv`, below |
| `ControllerInvariant`; `ControllerNothingGone`, `ControllerPinnedOnce`, `ControllerReady` | accelerators of an accepted file are among `Objects` and have a back end; nothing about functors or names | `CtrlInv`, below |
| `BalanceLoads`, `BalanceBalanced` | `BalAssumption`: null is no worker | `BalInv`, below |
| `MigrationFresh`, `MigrationRemote` | the data of a task are on its virtual accelerator, as `arax_data_input_init` and `arax_data_output_init` leave them (`MigAssumption`) | `MigInv`, below |
| `FlexyOneServer`, `FlexyPolicyKept` | accelerators are distinct and there is one (`FlexAssumption`) | `ServeInv`, `PrefInv`, below |
| `WeightedTracked` | null is no virtual accelerator; one worker | `TrackInv`, below |
| `WeightedKept` | null is no virtual accelerator; any workers | `KeptInv`, below |

**RoundRobin.** `ListsConsistent` alone is not inductive: that linking puts a node
into a list only when it is in none needs to know that the balancer, when it links, holds
a virtual accelerator and has chosen an accelerator (`HandsInv`); and `TypeOK` of `orphans`
needs `ListsConsistent`, by which `arax_pipe_remove_orphan_vaccel` in `assignVac` finds
nothing to remove. These three are inductive together (`BaseInv`, `RoundRobinLists`). For
`Sequential`, `OrderInv` relates the queue of a virtual accelerator to the history of what
was pushed to it: the queue is the end of the history, and everything before that end is done,
except the last, which the owner may be running. `TokenAccounting` and `TokenFindsTask` hold
each other up: a worker consumes a token for a task that is queued on its accelerator (the
count), so one of the virtual accelerators in its copy from the search's position on has a task
(`SearchInv`; copies name only what is assigned to the accelerator, `CopyInv`), so the search turns
the token into a task, so the count stays exact. The width of the count enters through
`TasksAssumption`: with fewer tasks than `SizeMod`, no count wraps.

**Heterogeneous.** A worker may give a virtual accelerator back while it searches. `CopyInv` says that
what the search has yet to try is still its own; then what it peeked is still the head when it
pops, because nobody else pops there (`PeekStillHolds`). `HandsInv` keeps apart what the balancer
and the workers hold while they make an orphan of it. The count of tokens is not exact under
this scheduler (see section 3), and nothing is proved about it.

**Elastic.** Workers move what their copies name, which may have been moved on; the assertion
`vaccel->phys == accel` stops the controller in that case, and short of it each move is an unlink and
a link of one node.

**Attach.** `IInv` says who is in the critical sections of a process and of a segment, which threads have
mapped the pipe, and that the map of pids holds each attached process once, in as many cells as the
count says. It holds if whoever calls `arax_exit` is alone in its process (`LeaversAlone`), and if the
pids fit the cells that `memmove` really moves (`MapFits`: with `ARAX_PROC_MAP_SIZE` 1024, 128
processes); without either TLC shows the violations listed in section 3, so that neither can be
dropped. The constants of `attach` satisfy both. `WaitsForInit` is left to the run: with `LeaversAlone` the
case that matters to it, threads that come back to a process that has left, cannot happen.

**Controller.** The configuration is what the assumption says of files; that `ReadConfig` establishes it
is a fold over the file, which TLC evaluates for all files of the run. `CtrlInv` ties the workers to the
phase `main` is in (none before the spawn loop, none but exited ones after the joins), the functors to
the open libraries until they are closed, a task that runs to a functor of an open library (a worker that finds none has ended the controller),
`print_lock` to the initialisation and release of a device, and readiness to `stopExec` and SIGINT.

**Registry.** A thread's stack of operations says which locks it has. `StackOK`: what follows an
operation that unlinks an object under the lock never needs that lock, and everything above the operation that
fills the array of `arax_accel_list` only drops, destroys and frees objects of the listed type, or, if
these are physical accelerators, releases the virtual ones that they own (`Under`). `LocksOK`: the owner of a
lock has one of those two operations on its stack. So whoever has the lock of the virtual accelerators or
of the procedures waits for no lock, and whoever has that of the physical ones waits at most for the virtual
ones: among threads that have something to do, one can do it. This needs that lists, arrays and `free_vaq`
hold objects of one type (`RegTyped`), for with the lock of one type held the destructor of another would
close a circle. With `arax_object_ref_dec` in place of `arax_object_ref_dec_pre_locked` the step of `drop`
is the one that fails.

**Settings.** `ProcessesAgree` is about what was returned in the past. `SetInv` says that this is what the file
has *now*: the first occurrence of a key decides, and files only grow at the end. Whoever is about to append a
default found none when it looked, which may have changed; but what is there by now can only be the same default,
since every process asks for a key with the same one (`Appends`).

**LoadBalance.** Exact counters of what was given (`LoadCounted`) are inductive with the types; that these stay within one of each other,
from which the bound on loads follows by taking away what was released, needs that no virtual accelerator is given away before the last worker has registered its counter
(`RegisteredFirst`), which the tasks that are issued only then guarantee.

**Migration.** `DataOK` says where the last version of a buffer is: in its allocation on a device if it has one, in the
shared segment otherwise. `ServeOK` follows the three loops of a worker over the data of its task, which are its own
while it has the virtual accelerator: what the first loop has passed is on no other device, what the
second has passed is on this one. Both are needed for `FreshData`, since a buffer may be input of a task and output of the next,
and may have been left on any device.

**FlexyRR.** `ServeInv`: who runs a task of a virtual accelerator is its assignee, and queues are in the order of issue.
`PrefInv`: a worker in the loop of `flexPolicyProactive` has passed the first accelerator, and given it to the users, or is
at it with `req` not zero, whatever the others do meanwhile and whatever the sums are, which lose updates.

**WeightedRR.** `TrackInv` restates `TrackedOnce`, a sum of cardinalities, as: in a queue or in a hand, in one of them only, and
there once (`OnceOK`); the bridge between the two are lemmas on sets of at most one element. Its step holds as long as no two
workers insert one virtual accelerator (`OneInserts`), which is so with one worker and not with two. `KeptInv` does without: a
virtual accelerator leaves a queue only into a worker's hand and a hand only into a queue or unmarked, however often it is in them.

`WeightedAssumption`, `FlexAssumption`, `BalAssumption`, `MigAssumption`, `SetAssumption` and `RegAssumption` are
hypotheses of the theorems; MCShelved, MCAttach and MCLifetime assume them of their instances, so that TLC evaluates them.

TLC has checked the inductive invariants too: those of Queue, Async and RoundRobin in their
runs, those of Attach, Heterogeneous, Elastic, Mparams, Controller, Registry, Settings and the shelved
modules on the instances of section 3 with the invariant added to the cfg.

`DispatchProofs` has what the three schedulers share: lists (a new head, the popped head, removal),
that a node keeps one place through every move, what steps that leave the lists alone preserve, and
that order survives issue, push and pop.

Only model-checked: liveness (the prover does not do fairness); `WaitsForInit`; sums over objects and devices (`BudgetConserved`,
`RefsExact` and `RepositoryExact`, `DeviceCharged`, `ChargedTogether`), which are folds, and what holds because counts are exact
(`NoDangling`, `FoundAlive`, `FunctorsFound`); `CreditsBounded`, a bound that rests on how often each client's virtual accelerators
were queued; `NamesKept`, `PathWhole` and what else is computed by a fold from a file; the allocator and its bitmap
(recursive operators over tries, folds over words); data and back ends of Lifetime (sequences of operations that are computed by
folds); types that no proof needs (`FlexTypeOK`, `TypeOK` of Controller); the tokens of Heterogeneous and Elastic, which are not exact; the order under Elastic, which does not hold.

## 5. Not modelled

* `arax_accel_set_physical` (assigning from an application); `accel->revision` (only tests read it);
  data migration in `selectTask` of Elastic, which remembers the last virtual accelerator it moved only.
* The checkpoint schedulers: not built, and `arax_data_shm_sync` is defined nowhere.
* Conditions of ivshmem, which need its semaphore; lists of outstanding waits with more than one member,
  which `async_thread` walks without the lock.
* The free thread (off by default; the two sides use different queues), services of vendor libraries
  (no caller), the TLSF glue (the allocator is not in the repository), SDA (its class lacks the
  transfers that `accelThread` declares).
* Of the allocator: the global malloc, footers, statistics and printing, which the build leaves out or
  which change nothing. `mremap` of the real system is called on pages of the segment by `sys_trim` and
  `mmap_resize`; the model lets it lose pages (`m.lost`).
* Device runtimes and kernels; tools, viewers, monitoring, Java bindings, scripts, vendored headers.
* In Attach, failures of `open` and `mmap` and the address of the mapping. `independent_comalloc`. A buffer that changes its
  virtual accelerator. In LoadBalance, a virtual accelerator that is freed while a worker's array names it.

## 6. Plan

Done: all models above; proofs of the throttle, the primitives, the queue, the dispatch under its three
schedulers, attaching, settings, the locks of the repository, the parameters of the allocator, the controller, and what is
outside the build. What is left:

1. `RepositoryExact` of Registry: a reference is in one place, which a sum over threads states and a fold computes; a bijection between
   references and units of the count would be provable, at the price of a history variable.
2. `CreditsBounded` of WeightedRR, for every number of virtual accelerators of a client.
3. `TypeOK` of Controller as a whole, which needs the folders that a configuration may name.

And one model: `arax_accel_set_physical` and the early release of virtual accelerators as steps of
Dispatch.
