----------------------------- MODULE AccelThread -----------------------------
(***************************************************************************)
(* The life of a worker (controller/src/Core/accelThread.cpp) and of its   *)
(* device (acceleratorInit and acceleratorRelease of the back ends): from  *)
(* the constructor over the initialisation under print_lock, the loop that *)
(* serves tasks, to the release after terminate().                         *)
(*                                                                         *)
(* a is an AccelConfig object, d its device: the fields of its             *)
(* configuration that the constructor and the back end read, and what the  *)
(* machine will answer them (fits: setting the device succeeds).  Which of *)
(* its virtual accelerators a worker serves is the subject of Dispatch;    *)
(* here they are one queue of procedures.                                  *)
(***************************************************************************)
EXTENDS Integers, Sequences, FiniteSets

CONSTANTS
  Objects,       \* the AccelConfig objects there may be
  Cudas,         \* numberOfCudaDevices()
  NoLib          \* no library; the null functor

VARIABLES
  wpc,           \* where the worker is; "none" before pthread_create
  arax_accel,    \* "null", "live" or "released"
  readyToServe,
  stopExec,
  job_preference,
  enable_mtx,    \* whether it is locked, whoever did
  tasks,         \* pending tasks of the physical accelerator
  queue,         \* procedures of the tasks issued to it
  running,       \* the library of the functor the worker is in
  print_lock,    \* the worker that holds it, or NoLib
  used,          \* GPUExistInSystem of the three acceleratorInit: <<arch, pci_id>>
  gone,          \* GPUExistInSystem of the two acceleratorRelease
  registered,    \* the static flag, and how often cudaHostRegister succeeded
  registrations,
  unregistered,  \* the static flags of CUDA and ROCm
  kernels,       \* the OpenCL kernels there are handles of
  cl_queues,     \* OpenCL command queues
  linked,        \* the name of the shm file exists
  crashed        \* abort(), a null pointer or an exception ended the process

device == <<print_lock, used, gone, registered, registrations, unregistered, kernels, cl_queues,
            linked>>
loop == <<tasks, queue, running>>
control == <<stopExec, job_preference, enable_mtx>>
threadvars == <<wpc, arax_accel, readyToServe, control, loop, device, crashed>>

WorkerPC == {"none", "start", "init", "register", "accel", "ready", "top", "pref", "lock", "wait",
             "take", "run", "releasing", "release", "exit", "failed"}

ThreadTypeOK ==
  /\ wpc \in [Objects -> WorkerPC]
  /\ arax_accel \in [Objects -> {"null", "live", "released"}]
  /\ readyToServe \in [Objects -> BOOLEAN]
  /\ stopExec \in [Objects -> BOOLEAN]
  /\ job_preference \in [Objects -> {"NoJob", "UserJob", "BatchJob", "AnyJob"}]
  /\ enable_mtx \in [Objects -> BOOLEAN]
  /\ tasks \in [Objects -> Nat]
  /\ print_lock \in Objects \cup {NoLib}
  /\ registrations \in Nat

ThreadInit ==
  /\ wpc = [a \in Objects |-> "none"]
  /\ arax_accel = [a \in Objects |-> "null"]
  /\ readyToServe = [a \in Objects |-> FALSE]
  /\ stopExec = [a \in Objects |-> FALSE]
  /\ job_preference = [a \in Objects |-> "AnyJob"]
  /\ enable_mtx = [a \in Objects |-> FALSE]
  /\ tasks = [a \in Objects |-> 0]
  /\ queue = [a \in Objects |-> <<>>]
  /\ running = [a \in Objects |-> NoLib]
  /\ print_lock = NoLib
  /\ used = {}
  /\ gone = {}
  /\ registered = FALSE
  /\ registrations = 0
  /\ unregistered = {}
  /\ kernels = {}
  /\ cl_queues = {}
  /\ linked = TRUE
  /\ crashed = FALSE

Goto(a, label) == wpc' = [wpc EXCEPT ![a] = label]

-----------------------------------------------------------------------------
(* Constructors: whether they throw.  pci_id is -1 when it is missing or   *)
(* not an integer, kn when one of OpenCL's two lists is.                   *)

GPUaccelThread(d) == d.pci_id >= 0 /\ d.pci_id <= Cudas
HIPaccelThread(d) == d.pci_id >= 0
OpenCLaccelThread(d) == d.pci_id >= 0 /\ d.kn >= 0
CPUaccelThread(d) == TRUE

Constructs(arch, d) ==
  CASE arch = "GPU" -> GPUaccelThread(d)
    [] arch = "HIP" -> HIPaccelThread(d)
    [] arch = "OPEN_CL" -> OpenCLaccelThread(d)
    [] arch = "CPU" -> CPUaccelThread(d)

\* constructType catches what the constructor throws and returns 0; otherwise
\* start() has created the thread.
constructType(a, arch, pref, d) ==
  /\ Constructs(arch, d)
  /\ job_preference' = [job_preference EXCEPT ![a] = pref]
  /\ Goto(a, "start")
  /\ UNCHANGED <<arax_accel, readyToServe, stopExec, enable_mtx, loop, device, crashed>>

-----------------------------------------------------------------------------
(* acceleratorInit, with print_lock held: whether it fails, and what it    *)
(* leaves.  A device call that fails later ends the process and is left    *)
(* out.                                                                    *)

Failed(d) == ~d.fits

\* The first thread of a device pins the segment, unless one of another device
\* has: the test of registered, and cudaHostRegister, which takes its time.
gpu_acceleratorInit(a, d) ==
  /\ used' = used \cup {<<"GPU", d.pci_id>>}
  /\ Goto(a, IF <<"GPU", d.pci_id>> \notin used /\ ~registered /\ d.host_register
               THEN "register" ELSE "accel")
  /\ UNCHANGED <<kernels, cl_queues>>

\* What is registered already is refused, and the runtime_error ends the process.
HostRegister(a) ==
  /\ wpc[a] = "register"
  /\ registrations' = registrations + 1
  /\ crashed' = (registrations > 0)
  /\ registered' = TRUE
  /\ Goto(a, "accel")
  /\ UNCHANGED <<arax_accel, readyToServe, control, loop, print_lock, used, gone, unregistered,
                 kernels, cl_queues, linked>>

\* hipHostRegister is commented out.
hip_acceleratorInit(a, d) ==
  /\ used' = used \cup {<<"HIP", d.pci_id>>}
  /\ Goto(a, "accel")
  /\ UNCHANGED <<kernels, cl_queues>>

\* The first thread of a device makes context and program, every one of them
\* its kernels and a command queue.
opencl_acceleratorInit(a, d) ==
  /\ used' = used \cup {<<"OPEN_CL", d.pci_id>>}
  /\ kernels' = kernels \cup 1 .. d.kn
  /\ cl_queues' = cl_queues \cup {a}
  /\ Goto(a, "accel")

cpu_acceleratorInit(a, d) == Goto(a, "accel") /\ UNCHANGED <<used, kernels, cl_queues>>

acceleratorInit(a, arch, d) ==
  CASE arch = "GPU" -> gpu_acceleratorInit(a, d)
    [] arch = "HIP" -> hip_acceleratorInit(a, d)
    [] arch = "OPEN_CL" -> opencl_acceleratorInit(a, d)
    [] arch = "CPU" -> cpu_acceleratorInit(a, d)

-----------------------------------------------------------------------------
(* workFunc, up to its loop *)

\* accelThreadSetup, which none of the schedulers that are built overrides, and
\* print_lock.
StartInit(a) ==
  /\ wpc[a] = "start"
  /\ print_lock = NoLib
  /\ print_lock' = a
  /\ Goto(a, "init")
  /\ UNCHANGED <<arax_accel, readyToServe, control, loop, used, gone, registered, registrations,
                 unregistered, kernels, cl_queues, linked, crashed>>

\* A failed initialisation is reported, and the thread ends.
InitDevice(a, arch, d) ==
  /\ wpc[a] = "init"
  /\ IF Failed(d)
       THEN /\ Goto(a, "failed")
            /\ print_lock' = NoLib
            /\ UNCHANGED <<used, kernels, cl_queues>>
       ELSE acceleratorInit(a, arch, d) /\ UNCHANGED print_lock
  /\ UNCHANGED <<arax_accel, readyToServe, control, loop, gone, registered, registrations,
                 unregistered, linked, crashed>>

\* arax_accel_init; print_lock is released.
InitAccel(a) ==
  /\ wpc[a] = "accel"
  /\ arax_accel' = [arax_accel EXCEPT ![a] = "live"]
  /\ print_lock' = NoLib
  /\ Goto(a, "ready")
  /\ UNCHANGED <<readyToServe, control, loop, used, gone, registered, registrations, unregistered,
                 kernels, cl_queues, linked, crashed>>

\* It returned null, which is reported and then dereferenced.
InitAccelFails(a) ==
  /\ wpc[a] = "accel"
  /\ crashed' = TRUE
  /\ print_lock' = NoLib
  /\ Goto(a, "failed")
  /\ UNCHANGED <<arax_accel, readyToServe, control, loop, used, gone, registered, registrations,
                 unregistered, kernels, cl_queues, linked>>

\* Mutant of SetReady: a worker that has no job does not say that it is ready.
MutReadyNoJob(a) ==
  /\ wpc[a] = "ready"
  /\ readyToServe' = [readyToServe EXCEPT ![a] = job_preference[a] # "NoJob"]
  /\ Goto(a, "top")
  /\ UNCHANGED <<arax_accel, control, loop, device, crashed>>

\* readyToServe, and the worker's entry in VAQPhys2accelThread, which only
\* migration reads.
SetReady(a) ==
  /\ wpc[a] = "ready"
  /\ readyToServe' = [readyToServe EXCEPT ![a] = TRUE]
  /\ Goto(a, "top")
  /\ UNCHANGED <<arax_accel, control, loop, device, crashed>>

-----------------------------------------------------------------------------
(* The loop *)

LoopTop(a) ==
  /\ wpc[a] = "top"
  /\ Goto(a, IF stopExec[a] THEN "releasing" ELSE "pref")
  /\ UNCHANGED <<arax_accel, readyToServe, control, loop, device, crashed>>

\* A worker that has no job to do locks enable_mtx, and never unlocks it.
CheckPreference(a) ==
  /\ wpc[a] = "pref"
  /\ Goto(a, IF job_preference[a] = "NoJob" THEN "lock" ELSE "wait")
  /\ UNCHANGED <<arax_accel, readyToServe, control, loop, device, crashed>>

LockEnable(a) ==
  /\ wpc[a] = "lock"
  /\ ~enable_mtx[a]
  /\ enable_mtx' = [enable_mtx EXCEPT ![a] = TRUE]
  /\ Goto(a, "wait")
  /\ UNCHANGED <<arax_accel, readyToServe, stopExec, job_preference, loop, device, crashed>>

\* arax_accel_wait_for_task
WaitForTask(a) ==
  /\ wpc[a] = "wait"
  /\ tasks[a] > 0
  /\ tasks' = [tasks EXCEPT ![a] = @ - 1]
  /\ Goto(a, "take")
  /\ UNCHANGED <<arax_accel, readyToServe, control, queue, running, device, crashed>>

\* selectTask, and the functor of its procedure for this type of accelerator.
\* Nobody looks whether there is one: executeOperation calls the null pointer.
TakeTask(a, functors, arch) ==
  /\ wpc[a] = "take"
  /\ IF queue[a] = <<>>
       THEN Goto(a, "top") /\ UNCHANGED <<queue, running, crashed>>
       ELSE /\ running' = [running EXCEPT ![a] = functors[<<Head(queue[a]), arch>>]]
            /\ queue' = [queue EXCEPT ![a] = Tail(@)]
            /\ crashed' = (functors[<<Head(queue[a]), arch>>] = NoLib)
            /\ Goto(a, "run")
  /\ UNCHANGED <<arax_accel, readyToServe, control, tasks, device>>

\* executeOperation returns.
RunTask(a) ==
  /\ wpc[a] = "run"
  /\ running' = [running EXCEPT ![a] = NoLib]
  /\ Goto(a, "top")
  /\ UNCHANGED <<arax_accel, readyToServe, control, tasks, queue, device, crashed>>

-----------------------------------------------------------------------------
(* terminate(), by the main thread: three assignments and an unlock        *)

StopExec(a) ==
  /\ stopExec' = [stopExec EXCEPT ![a] = TRUE]
  /\ UNCHANGED <<wpc, arax_accel, readyToServe, job_preference, enable_mtx, loop, device, crashed>>

AddFakeTask(a) ==
  /\ tasks' = [tasks EXCEPT ![a] = @ + 1]
  /\ UNCHANGED <<wpc, arax_accel, readyToServe, control, queue, running, device, crashed>>

SetAnyJob(a) ==
  /\ job_preference' = [job_preference EXCEPT ![a] = "AnyJob"]
  /\ UNCHANGED <<wpc, arax_accel, readyToServe, stopExec, enable_mtx, loop, device, crashed>>

enable(a) ==
  /\ enable_mtx' = [enable_mtx EXCEPT ![a] = FALSE]
  /\ UNCHANGED <<wpc, arax_accel, readyToServe, stopExec, job_preference, loop, device, crashed>>

-----------------------------------------------------------------------------
(* acceleratorRelease, with print_lock held *)

\* CUDA and ROCm: the first thread of each device, and of those the first one,
\* removes the shm file.
gpu_acceleratorRelease(a, d, arch) ==
  LET first == <<arch, d.pci_id>> \notin gone
  IN  /\ gone' = gone \cup {<<arch, d.pci_id>>}
      /\ unregistered' = IF first THEN unregistered \cup {arch} ELSE unregistered
      /\ linked' = (linked /\ ~(first /\ arch \notin unregistered))
      /\ UNCHANGED <<kernels, cl_queues, crashed>>

\* For each of its kernels the thread releases the kernel, forgets the handles
\* of all, and releases program, queue and context.  The second time, or when
\* another thread has been here, the handle is null and the process aborts.
opencl_acceleratorRelease(a, d) ==
  /\ crashed' = (d.kn > 1 \/ (d.kn = 1 /\ kernels = {}))
  /\ kernels' = IF d.kn > 0 THEN {} ELSE kernels
  /\ cl_queues' = IF d.kn > 0 THEN cl_queues \ {a} ELSE cl_queues
  /\ UNCHANGED <<gone, unregistered, linked>>

acceleratorRelease(a, arch, d) ==
  CASE arch \in {"GPU", "HIP"} -> gpu_acceleratorRelease(a, d, arch)
    [] arch = "OPEN_CL" -> opencl_acceleratorRelease(a, d)
    [] arch = "CPU" -> UNCHANGED <<gone, unregistered, linked, kernels, cl_queues, crashed>>

StartRelease(a) ==
  /\ wpc[a] = "releasing"
  /\ print_lock = NoLib
  /\ print_lock' = a
  /\ Goto(a, "release")
  /\ UNCHANGED <<arax_accel, readyToServe, control, loop, used, gone, registered, registrations,
                 unregistered, kernels, cl_queues, linked, crashed>>

\* The throttle of the accelerator is given what was in use before it served
\* (module Throttle), the device is released, and the thread returns.
Release(a, arch, d) ==
  /\ wpc[a] = "release"
  /\ acceleratorRelease(a, arch, d)
  /\ print_lock' = NoLib
  /\ Goto(a, "exit")
  /\ UNCHANGED <<arax_accel, readyToServe, control, loop, used, registered, registrations>>

Worker(a, arch, d, functors) ==
  \/ StartInit(a) \/ InitDevice(a, arch, d) \/ HostRegister(a) \/ InitAccel(a)
  \/ InitAccelFails(a) \/ SetReady(a) \/ LoopTop(a) \/ CheckPreference(a) \/ LockEnable(a) \/ WaitForTask(a)
  \/ TakeTask(a, functors, arch) \/ RunTask(a)
  \/ StartRelease(a) \/ Release(a, arch, d)

\* The worker holds a pointer to its physical accelerator that it may follow.
UsesAccel(a) ==
  wpc[a] \in {"ready", "top", "pref", "lock", "wait", "take", "run", "releasing", "release"}

=============================================================================
