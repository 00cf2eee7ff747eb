----------------------------- MODULE Controller -----------------------------
(***************************************************************************)
(* The controller process from its start to its end                        *)
(* (controller/src/Core/arax_controller.cpp): the main thread reads the    *)
(* configuration, loads libraries, spawns a worker per accelerator, lets   *)
(* the applications in, and on SIGINT takes everything down again, next to *)
(* the workers, the loader of libraries, and the balancer.                 *)
(*                                                                         *)
(* What the balancer does is the subject of Dispatch.  Nobody stops it: it *)
(* may ask the configuration for a scheduler when that is gone.            *)
(***************************************************************************)
EXTENDS Config, LibMgr, AccelThread

CONSTANTS
  ConfigFiles,   \* what argv[1] may name
  Builtins,      \* BUILTINS_PATH
  MaxTasks       \* bound: tasks that applications issue

\* The AccelConfig objects of a file that is accepted are among Objects, and of
\* types that have a back end.
ASSUME ControllerAssumption ==
  /\ NoLib = None /\ None \notin Objects \cup Files
  /\ \A file \in ConfigFiles :
       LET c == ReadConfig(file)
       IN  c # Thrown =>
             \A a \in getAccelerators(c) :
               a \in Objects /\ c.objects[a].arch \in Types \cap {"CPU", "GPU", "HIP", "OPEN_CL"}

VARIABLES
  mpc,           \* where the main thread is
  config,        \* the configuration, or Thrown
  left,          \* the accelerators a loop of the main thread has yet to visit
  cntrl_ready,   \* applications are let in
  shouldExit,
  issued         \* tasks issued so far

mainvars == <<mpc, config, left, cntrl_ready, shouldExit, issued>>
vars == <<mainvars, libvars, threadvars>>

MainPC == {"start", "load", "loader", "spawn", "await", "balancer", "serve", "stop", "token",
           "any", "enable", "join", "deregister", "unload", "delete", "rtld", "exit", "ended",
           "return", "terminated"}

Accels == getAccelerators(config)
Arch(a) == config.objects[a].arch
Device(a) == config.objects[a].device

TypeOK ==
  /\ LibTypeOK
  /\ ThreadTypeOK
  /\ mpc \in MainPC
  /\ left \subseteq Objects
  /\ cntrl_ready \in BOOLEAN
  /\ shouldExit \in BOOLEAN
  /\ issued \in 0 .. MaxTasks

Init ==
  /\ LibInit
  /\ ThreadInit
  /\ mpc = "start"
  /\ \E file \in ConfigFiles : config = ReadConfig(file)
  /\ left = {}
  /\ cntrl_ready = FALSE
  /\ shouldExit = FALSE
  /\ issued = 0

Go(label) == mpc' = label

-----------------------------------------------------------------------------
(* main, until the applications are let in *)

\* The configuration; stale shm is removed, and arax_controller_init_start
\* makes it anew.  main catches pointers to exceptions: one that is thrown by
\* value ends the process.
ReadFile ==
  /\ mpc = "start"
  /\ Go(IF config = Thrown THEN "terminated" ELSE "load")
  /\ todo' = IF config = Thrown THEN <<>> ELSE Append(config.paths, Builtins)
  /\ UNCHANGED <<config, left, cntrl_ready, shouldExit, issued, threadvars, present, lib_paths,
                 lib_fd_paths, events, libs, functors, run, rpc, rfile>>

\* loadFolder of all paths.
LoadFolders ==
  /\ mpc = "load"
  /\ VisitEntry
  /\ UNCHANGED <<mainvars, threadvars>>

\* A path that cannot be opened: main returns.
LoadFails ==
  /\ mpc = "load"
  /\ todo # <<>> /\ Head(todo) = None
  /\ Go("return")
  /\ UNCHANGED <<config, left, cntrl_ready, shouldExit, issued, libvars, threadvars>>

StartRunTimeLoader ==
  /\ mpc = "load"
  /\ todo = <<>>
  /\ StartLoader
  /\ left' = Accels
  /\ Go("spawn")
  /\ UNCHANGED <<config, cntrl_ready, shouldExit, issued, threadvars>>

\* The first loop of spawnThreads; the order is that of the names.
SpawnThread(a) ==
  /\ mpc = "spawn"
  /\ a \in left
  /\ constructType(a, Arch(a), config.objects[a].pref, Device(a))
  /\ left' = left \ {a}
  /\ UNCHANGED <<mpc, config, cntrl_ready, shouldExit, issued, libvars>>

\* "Failed to spawn threads, exiting": the configuration is destroyed, under
\* the workers that were started.
SpawnFails(a) ==
  /\ mpc = "spawn"
  /\ a \in left
  /\ ~Constructs(Arch(a), Device(a))
  /\ Go("return")
  /\ UNCHANGED <<config, left, cntrl_ready, shouldExit, issued, libvars, threadvars>>

Spawned ==
  /\ mpc = "spawn"
  /\ left = {}
  /\ Go("await")
  /\ UNCHANGED <<config, left, cntrl_ready, shouldExit, issued, libvars, threadvars>>

\* Mutant of AwaitReady: main does not wait for the workers.
MutAwaitNot ==
  /\ mpc = "await"
  /\ Go("balancer")
  /\ UNCHANGED <<config, left, cntrl_ready, shouldExit, issued, libvars, threadvars>>

\* The second loop spins, one accelerator after the other.
AwaitReady ==
  /\ mpc = "await"
  /\ \A a \in Accels : readyToServe[a]
  /\ Go("balancer")
  /\ UNCHANGED <<config, left, cntrl_ready, shouldExit, issued, libvars, threadvars>>

AwaitSpins ==
  /\ mpc = "await"
  /\ \E a \in Accels : ~readyToServe[a]
  /\ UNCHANGED vars

\* new VacBalancerThread, and arax_controller_init_done.
InitDone ==
  /\ mpc = "balancer"
  /\ cntrl_ready' = TRUE
  /\ Go("serve")
  /\ UNCHANGED <<config, left, shouldExit, issued, libvars, threadvars>>

-----------------------------------------------------------------------------
(* main, from SIGINT on *)

LeaveLoop ==
  /\ mpc = "serve"
  /\ shouldExit
  /\ left' = Accels
  /\ Go("stop")
  /\ UNCHANGED <<config, cntrl_ready, shouldExit, issued, libvars, threadvars>>

\* deleteThreads: terminate() of one worker after the other.  left loses the
\* worker at the end of its terminate().
Current == CHOOSE a \in left : TRUE

Terminate ==
  /\ left # {}
  /\ \/ mpc = "stop" /\ StopExec(Current) /\ Go("token") /\ UNCHANGED left
     \/ mpc = "token" /\ AddFakeTask(Current) /\ Go("any") /\ UNCHANGED left
     \/ mpc = "any" /\ SetAnyJob(Current) /\ Go("enable") /\ UNCHANGED left
     \/ mpc = "enable" /\ enable(Current) /\ Go("stop") /\ left' = left \ {Current}
  /\ UNCHANGED <<config, cntrl_ready, shouldExit, issued, libvars>>

\* pthread_join of every worker, and delete.
JoinThreads ==
  /\ mpc = "stop" /\ left = {}
  /\ \A a \in Accels : wpc[a] = "exit"
  /\ Go("deregister")
  /\ UNCHANGED <<config, left, cntrl_ready, shouldExit, issued, libvars, threadvars>>

deRegisterAccel ==
  /\ mpc = "deregister"
  /\ arax_accel' = [a \in Objects |-> IF a \in Accels THEN "released" ELSE arax_accel[a]]
  /\ Go("unload")
  /\ UNCHANGED <<config, left, cntrl_ready, shouldExit, issued, libvars, wpc, readyToServe, control,
                 loop, device, crashed>>

UnloadLibraries ==
  /\ mpc = "unload"
  /\ unloadLibraries
  /\ Go("delete")
  /\ UNCHANGED <<config, left, cntrl_ready, shouldExit, issued, threadvars>>

\* delete araxLibMgr: the loader is woken, and joined.
DeleteLibMgr ==
  /\ mpc = "delete"
  /\ WakeLoader
  /\ Go("rtld")
  /\ UNCHANGED <<config, left, cntrl_ready, shouldExit, issued, threadvars>>

JoinLoader ==
  /\ mpc = "rtld"
  /\ rpc = "exit"
  /\ Go("exit")
  /\ UNCHANGED <<config, left, cntrl_ready, shouldExit, issued, libvars, threadvars>>

\* The configuration is destroyed, arax_exit, and the process ends.
Exit ==
  /\ mpc = "exit"
  /\ Go("ended")
  /\ UNCHANGED <<config, left, cntrl_ready, shouldExit, issued, libvars, threadvars>>

Main ==
  \/ ReadFile \/ LoadFolders \/ LoadFails \/ StartRunTimeLoader
  \/ \E a \in left : SpawnThread(a) \/ SpawnFails(a)
  \/ Spawned \/ AwaitReady \/ AwaitSpins \/ InitDone \/ LeaveLoop
  \/ Terminate \/ JoinThreads \/ deRegisterAccel \/ UnloadLibraries \/ DeleteLibMgr
  \/ JoinLoader \/ Exit

-----------------------------------------------------------------------------
(* The rest of the world *)

Interrupt ==
  /\ mpc # "start"
  /\ ~shouldExit
  /\ shouldExit' = TRUE
  /\ UNCHANGED <<mpc, config, left, cntrl_ready, issued, libvars, threadvars>>

\* An application that was let in issues a task of procedure p, whether or not
\* a library has a functor of it for accelerator a.
IssueTask(a, p) ==
  /\ cntrl_ready
  /\ issued < MaxTasks
  /\ arax_accel[a] = "live"
  /\ queue' = [queue EXCEPT ![a] = Append(@, p)]
  /\ tasks' = [tasks EXCEPT ![a] = @ + 1]
  /\ issued' = issued + 1
  /\ UNCHANGED <<mpc, config, left, cntrl_ready, shouldExit, libvars, wpc, arax_accel, readyToServe,
                 control, running, device, crashed>>

\* The process has ended, in one way or another.
Ended == mpc \in {"ended", "return", "terminated"} \/ crashed

\* rtld.join() does not return: the loader waits for an event that never comes.
JoinHangs == mpc = "rtld" /\ rpc = "read" /\ events = <<>> /\ ~Wakes

WorkerStep(a) == Worker(a, Arch(a), Device(a), functors) /\ UNCHANGED <<mainvars, libvars>>
LoaderStep == Loader /\ UNCHANGED <<mainvars, threadvars>>

Next ==
  \/ /\ ~Ended
     /\ \/ Main
        \/ LoaderStep
        \/ Interrupt
        \/ \E f \in Files : WriteFile(f) /\ UNCHANGED <<mainvars, threadvars>>
        \/ mpc # "start" /\ \E a \in Accels : WorkerStep(a)
        \/ mpc # "start" /\ \E a \in Accels, p \in Procs : IssueTask(a, p)
  \/ (Ended \/ JoinHangs) /\ UNCHANGED vars

\* Every thread takes the step that it can take, and kernels return.  A worker
\* takes print_lock twice, so that in the end it is free.
Fairness ==
  /\ WF_vars(~Ended /\ Main)
  /\ WF_vars(~Ended /\ LoaderStep)
  /\ \A a \in Objects : WF_vars(~Ended /\ mpc # "start" /\ a \in Accels /\ WorkerStep(a))

Spec == Init /\ [][Next]_vars /\ Fairness

-----------------------------------------------------------------------------
(* What becomes of the accelerators in the file when names clash, those    *)
(* that it gives and those that Config.cpp makes up ("group:arch:count",   *)
(* which the file may use as well, and which comes twice when it replaced  *)
(* another): of a name the last in the first group that has it gets a      *)
(* worker, and no other is left.  Nothing tells the user of the others.    *)
NamesKept ==
  config # Thrown =>
    \A id \in DOMAIN config.objects :
      LET Namesakes == {other \in DOMAIN config.objects \ {id} :
                          config.objects[other].name = config.objects[id].name}
      IN  id \in Accels <=>
            \A other \in Namesakes :
              other[1] > id[1] \/ (other[1] = id[1] /\ other[2] < id[2])

(* "All applications will wait for the controller/server initialization"   *)
(* (impl.c): when they are let in, every accelerator of the configuration  *)
(* has a worker that is ready, and stays usable until the controller is    *)
(* told to stop.                                                           *)
ReadyWhenLetIn ==
  cntrl_ready /\ ~shouldExit => \A a \in Accels : arax_accel[a] = "live" /\ UsesAccel(a)

(* No worker is in a kernel of a library that is closed, although functors *)
(* are never taken out of the procedures, the loader replaces them while   *)
(* workers run, and libraries are closed while it runs.  What a worker may *)
(* call is the null pointer of a type that no library has the procedure    *)
(* for, which is the end of the controller.                                *)
NoKernelOfClosed ==
  \A a \in Objects :
    wpc[a] = "run" => running[a] \in libs \/ (running[a] = None /\ crashed)

(* No worker has a pointer to a physical accelerator that is released.     *)
NoneReleasedInUse == \A a \in Objects : UsesAccel(a) => arax_accel[a] = "live"

(* No worker uses a library that is closed, or an accelerator that is      *)
(* released.                                                               *)
NothingGoneInUse == NoKernelOfClosed /\ NoneReleasedInUse

(* The segment is pinned at most once, whatever devices the accelerators   *)
(* are on: a second cudaHostRegister throws in the worker, and ends the    *)
(* controller.  The test and the call are not atomic; print_lock is what   *)
(* keeps two workers apart.                                                *)
PinnedOnce == registrations <= 1

(* After SIGINT the controller ends: every worker comes out of its loop,   *)
(* out of the wait for a task or for enable_mtx, and the loader out of     *)
(* read().  Unless a worker could not initialise its device, for which     *)
(* main waits for ever, or run.false cannot be created or is not seen, for *)
(* its folder is not writable or not watched.                              *)
Ends ==
  shouldExit ~> \/ Ended
                \/ \E a \in Objects : wpc[a] = "failed"
                \/ JoinHangs

-----------------------------------------------------------------------------
(* The invariant of the proofs                                             *)

\* Where main is: after the joins, and from SIGINT on.
Joined == {"deregister", "unload", "delete", "rtld", "exit", "ended"}
Ending == {"stop", "token", "any", "enable"} \cup Joined

CtrlTypeOK ==
  /\ mpc \in MainPC
  /\ left \subseteq Objects
  /\ wpc \in [Objects -> WorkerPC]
  /\ arax_accel \in [Objects -> {"null", "live", "released"}]
  /\ readyToServe \in [Objects -> BOOLEAN]
  /\ stopExec \in [Objects -> BOOLEAN]
  /\ queue \in [Objects -> Seq(Procs)]
  /\ running \in [Objects -> Files \cup {None, NoLib}]
  /\ functors \in [Procs \X Types -> Files \cup {None}]
  /\ registrations \in Nat

\* What main has read is what the assumption says of files.
ConfigInv ==
  /\ mpc \notin {"start", "terminated"} => config # Thrown
  /\ config # Thrown =>
       \A a \in Accels :
         a \in Objects /\ Arch(a) \in Types \cap {"CPU", "GPU", "HIP", "OPEN_CL"}

\* Workers are those of accelerators of the configuration, main starts each
\* once, and they are all gone when it has joined them.
PhaseInv ==
  /\ \A a \in Objects : wpc[a] # "none" => a \in Accels /\ mpc \notin {"start", "load", "terminated"}
  /\ mpc = "spawn" => \A a \in left : a \in Accels /\ wpc[a] = "none"
  /\ mpc \in Joined => \A a \in Accels : wpc[a] = "exit"

\* Until the libraries are closed functors are in open ones.
LibInv ==
  mpc \notin {"delete", "rtld", "exit", "ended"} =>
    \A d \in Procs \X Types : functors[d] \in libs \cup {None}

\* print_lock is around the initialisation and the release of a device.
PinInv ==
  /\ \A a \in Objects : wpc[a] \in {"init", "register", "accel", "release"} => print_lock = a
  /\ \A a \in Objects : wpc[a] = "register" => ~registered
  /\ ~registered => registrations = 0
  /\ PinnedOnce

\* A worker that was ready is so until main, after SIGINT, tells it to stop.
ReadyInv ==
  /\ \A a \in Objects : readyToServe[a] => UsesAccel(a) \/ wpc[a] = "exit"
  /\ \A a \in Objects : wpc[a] \in {"releasing", "release", "exit"} => stopExec[a]
  /\ (\E a \in Objects : stopExec[a]) \/ mpc \in Ending => shouldExit
  /\ mpc \in {"balancer", "serve"} \cup Ending => \A a \in Accels : readyToServe[a]
  /\ cntrl_ready => mpc \in {"serve"} \cup Ending

CtrlInv == CtrlTypeOK /\ ConfigInv /\ PhaseInv /\ LibInv /\ PinInv /\ ReadyInv /\ NothingGoneInUse
=============================================================================
