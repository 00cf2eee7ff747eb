-------------------------- MODULE ControllerProofs --------------------------
(***************************************************************************)
(* The controller process, for any configuration files, accelerators,      *)
(* folders and libraries, any number of tasks, and an interrupt at any     *)
(* time.                                                                   *)
(***************************************************************************)
EXTENDS Controller, TLAPS

USE ControllerAssumption

\* Steps of main, the loader and the world that leave alone the workers, the
\* open libraries and the functors.
Move ==
  /\ UNCHANGED <<config, threadvars, libs, functors, issued>>
  /\ \/ ReadFile \/ LoadFails \/ StartRunTimeLoader \/ (\E a \in left : SpawnFails(a)) \/ Spawned
     \/ AwaitReady \/ AwaitSpins \/ InitDone \/ LeaveLoop \/ JoinThreads \/ DeleteLibMgr
     \/ JoinLoader \/ Exit \/ Interrupt
     \/ UNCHANGED mainvars

\* Steps that perhaps load a library.
Load == (\E f : loadLibrary(f)) /\ UNCHANGED <<mainvars, threadvars>>

(* Every step is one of these.                                             *)
LEMMA Steps ==
  ASSUME [Next]_vars, CtrlInv
  PROVE  \/ Move
         \/ Load
         \/ \E a \in left : SpawnThread(a)
         \/ Terminate \/ deRegisterAccel \/ UnloadLibraries
         \/ ~crashed /\ mpc \notin {"start", "terminated"} /\ \E a \in Accels : WorkerStep(a)
         \/ mpc \notin {"start", "terminated"} /\ \E a \in Accels, p \in Procs : IssueTask(a, p)
<1> USE DEF vars, mainvars, libvars
<1>1. CASE UNCHANGED vars
  BY <1>1 DEF Move
<1>2. CASE ~Ended /\ Main
  <2>1. CASE ReadFile
    BY <2>1 DEF ReadFile, Move
  <2>2. CASE LoadFolders
    <3>1. CASE Head(todo) \in Folders
      BY <2>2, <3>1 DEF LoadFolders, VisitEntry, EnterFolder, Move
    <3>2. CASE Head(todo) \notin Folders
      BY <2>2, <3>2 DEF LoadFolders, VisitEntry, Load
    <3> QED BY <3>1, <3>2
  <2>3. CASE LoadFails
    BY <2>3 DEF LoadFails, Move
  <2>4. CASE StartRunTimeLoader
    BY <2>4 DEF StartRunTimeLoader, StartLoader, Move
  <2>5. ASSUME NEW a \in left, SpawnFails(a) PROVE Move
    BY <2>5 DEF SpawnFails, Move
  <2>6. CASE Spawned \/ AwaitReady \/ AwaitSpins
    BY <2>6 DEF Spawned, AwaitReady, AwaitSpins, Move
  <2>7. CASE InitDone \/ LeaveLoop \/ JoinThreads
    BY <2>7 DEF InitDone, LeaveLoop, JoinThreads, Move
  <2>8. CASE DeleteLibMgr
    BY <2>8 DEF DeleteLibMgr, WakeLoader, Move
  <2>9. CASE JoinLoader \/ Exit
    BY <2>9 DEF JoinLoader, Exit, Move
  <2> QED BY <1>2, <2>1, <2>2, <2>3, <2>4, <2>5, <2>6, <2>7, <2>8, <2>9 DEF Main
<1>3. CASE LoaderStep
  <2>1. CASE LoaderTop \/ LoaderRead
    BY <1>3, <2>1 DEF LoaderStep, LoaderTop, LoaderRead, Move
  <2>2. CASE LoaderLoad
    BY <1>3, <2>2 DEF LoaderStep, LoaderLoad, Load
  <2> QED BY <1>3, <2>1, <2>2 DEF LoaderStep, Loader
<1>4. CASE Interrupt
  BY <1>4 DEF Interrupt, Move
<1>5. ASSUME NEW f \in Files, WriteFile(f), UNCHANGED <<mainvars, threadvars>> PROVE Move
  BY <1>5 DEF WriteFile, Move
<1> QED BY <1>1, <1>2, <1>3, <1>4, <1>5 DEF Next, Ended

(* What a worker does to the variables that the invariant is about.        *)
LEMMA WorkerMoves ==
  ASSUME CtrlTypeOK, ConfigInv, mpc \notin {"start", "terminated"}, NEW a \in Accels, WorkerStep(a)
  PROVE  /\ a \in Objects
         /\ UNCHANGED <<mainvars, libs, functors, stopExec>>
         /\ \E l \in WorkerPC : wpc' = [wpc EXCEPT ![a] = l]
         /\ wpc[a] \notin {"none", "exit", "failed"}
<1>1. a \in Objects /\ Arch(a) \in {"CPU", "GPU", "HIP", "OPEN_CL"}
  BY DEF ConfigInv
<1>2. UNCHANGED <<mainvars, libvars>> /\ Worker(a, Arch(a), Device(a), functors)
  BY DEF WorkerStep
<1> HIDE DEF WorkerStep
<1> USE DEF Goto, WorkerPC, control
<1>3. CASE StartInit(a) \/ HostRegister(a) \/ InitAccel(a) \/ InitAccelFails(a) \/ SetReady(a)
  BY <1>1, <1>2, <1>3 DEF StartInit, HostRegister, InitAccel, InitAccelFails, SetReady, libvars
<1>4. CASE InitDevice(a, Arch(a), Device(a))
  <2>1. \E l \in WorkerPC : wpc' = [wpc EXCEPT ![a] = l]
    BY <1>1, <1>4 DEF InitDevice, acceleratorInit, gpu_acceleratorInit, hip_acceleratorInit,
                      opencl_acceleratorInit, cpu_acceleratorInit
  <2> QED BY <1>1, <1>2, <1>4, <2>1 DEF InitDevice, libvars
<1>5. CASE \/ LoopTop(a) \/ CheckPreference(a) \/ LockEnable(a) \/ WaitForTask(a)
           \/ TakeTask(a, functors, Arch(a)) \/ RunTask(a)
  BY <1>1, <1>2, <1>5 DEF LoopTop, CheckPreference, LockEnable, WaitForTask, TakeTask, RunTask, libvars
<1>6. CASE StartRelease(a) \/ Release(a, Arch(a), Device(a))
  BY <1>1, <1>2, <1>6 DEF StartRelease, Release, libvars
<1> QED BY <1>2, <1>3, <1>4, <1>5, <1>6 DEF Worker

(* The configuration is read once.                                         *)
LEMMA ConfigStep ==
  ASSUME CtrlInv, [Next]_vars
  PROVE  config' = config /\ ConfigInv'
<1> USE DEF mainvars
<1>1. config' = config
  <2>1. ASSUME NEW a \in Accels, mpc \notin {"start", "terminated"}, WorkerStep(a) PROVE config' = config
    BY <2>1, WorkerMoves DEF CtrlInv
  <2> QED BY <2>1, Steps DEF Move, Load, SpawnThread, Terminate, deRegisterAccel, UnloadLibraries,
                              IssueTask
<1>2. \/ mpc' = mpc
      \/ mpc = "start" /\ (config = Thrown <=> mpc' = "terminated")
      \/ mpc \notin {"start", "terminated"}
  <2>1. ASSUME NEW a \in Accels, mpc \notin {"start", "terminated"}, WorkerStep(a) PROVE mpc' = mpc
    BY <2>1, WorkerMoves DEF CtrlInv
  <2>2. CASE Move
    BY <2>2 DEF Move, ReadFile, LoadFails, StartRunTimeLoader, SpawnFails, Spawned, AwaitReady,
             AwaitSpins, InitDone, LeaveLoop, JoinThreads, DeleteLibMgr, JoinLoader, Exit,
             Interrupt, Go
  <2> QED BY <2>1, <2>2, Steps DEF Load, SpawnThread, Terminate, deRegisterAccel, UnloadLibraries,
                              IssueTask, Go
<1> QED BY <1>1, <1>2 DEF CtrlInv, ConfigInv, Accels, Arch

(* Types.                                                                  *)
LEMMA TypeStep ==
  ASSUME CtrlInv, [Next]_vars
  PROVE  CtrlTypeOK'
<1> USE DEF CtrlTypeOK, CtrlInv
<1>0. CtrlTypeOK /\ ConfigInv
  OBVIOUS
<1>1. CASE Move
  <2>1. mpc' \in MainPC
    BY <1>1 DEF Move, ReadFile, LoadFails, StartRunTimeLoader, SpawnFails, Spawned, AwaitReady,
       AwaitSpins, InitDone, LeaveLoop, JoinThreads, DeleteLibMgr, JoinLoader, Exit, Interrupt,
       Go, MainPC, mainvars, vars
  <2>2. left' \in {left, Accels} /\ (left' # left => config # Thrown)
    BY <1>1 DEF Move, ReadFile, LoadFails, StartRunTimeLoader, SpawnFails, Spawned, AwaitReady,
       AwaitSpins, InitDone, LeaveLoop, JoinThreads, DeleteLibMgr, JoinLoader, Exit, Interrupt,
       mainvars, vars, ConfigInv
  <2>3. left' \subseteq Objects
    BY <2>2 DEF ConfigInv
  <2> QED BY <1>1, <2>1, <2>3 DEF Move, threadvars, control, loop, device
<1>2. ASSUME NEW f, loadLibrary(f), UNCHANGED <<mainvars, threadvars>> PROVE CtrlTypeOK'
  <2>1. functors' \in [Procs \X Types -> Files \cup {None}]
    BY <1>2 DEF loadLibrary, SetFunctors
  <2> QED BY <1>2, <2>1 DEF mainvars, threadvars, control, loop, device
<1>3. ASSUME NEW a \in left, SpawnThread(a) PROVE CtrlTypeOK'
  BY <1>3 DEF SpawnThread, constructType, Goto, WorkerPC, loop, device, libvars
<1>4. CASE Terminate
  <2>1. Current \in Objects /\ mpc' \in MainPC /\ left' \subseteq Objects
    BY <1>4 DEF Terminate, Current, Go, MainPC
  <2> HIDE DEF Current
  <2>2. stopExec' \in [Objects -> BOOLEAN]
    BY <1>4, <2>1 DEF Terminate, StopExec, AddFakeTask, SetAnyJob, enable, control
  <2> QED BY <1>4, <2>1, <2>2
          DEF Terminate, StopExec, AddFakeTask, SetAnyJob, enable, control, loop, device, libvars
<1>5. CASE deRegisterAccel \/ UnloadLibraries
  BY <1>5 DEF deRegisterAccel, UnloadLibraries, unloadLibraries, Go, MainPC, threadvars, control,
              loop, device, libvars
<1>6. ASSUME NEW a \in Accels, mpc \notin {"start", "terminated"}, WorkerStep(a) PROVE CtrlTypeOK'
  <2>1. PICK l \in WorkerPC : wpc' = [wpc EXCEPT ![a] = l]
    BY <1>0, <1>6, WorkerMoves
  <2>2. a \in Objects /\ UNCHANGED <<mainvars, libs, functors, stopExec>>
    BY <1>0, <1>6, WorkerMoves
  <2>3. Worker(a, Arch(a), Device(a), functors)
    BY <1>6 DEF WorkerStep
  <2>4. CASE TakeTask(a, functors, Arch(a))
    <3>1. CASE queue[a] = <<>>
      BY <2>1, <2>2, <2>4, <3>1 DEF TakeTask, control, device, mainvars
    <3>2. CASE queue[a] # <<>>
      <4>1. Head(queue[a]) \in Procs /\ Tail(queue[a]) \in Seq(Procs) /\ Arch(a) \in Types
        BY <1>6, <2>2, <3>2 DEF ConfigInv
      <4>2. functors[<<Head(queue[a]), Arch(a)>>] \in Files \cup {None}
        BY <4>1
      <4>3. queue' \in [Objects -> Seq(Procs)]
        BY <2>2, <2>4, <3>2, <4>1 DEF TakeTask
      <4>4. running' \in [Objects -> Files \cup {None, NoLib}]
        BY <2>2, <2>4, <3>2, <4>2 DEF TakeTask
      <4>5. UNCHANGED <<arax_accel, readyToServe, registrations>>
        BY <2>4 DEF TakeTask, device
      <4> QED BY <2>1, <2>2, <4>3, <4>4, <4>5 DEF mainvars
    <3> QED BY <3>1, <3>2
  <2>5. CASE ~TakeTask(a, functors, Arch(a))
    <3>1. /\ arax_accel' \in [Objects -> {"null", "live", "released"}]
          /\ readyToServe' \in [Objects -> BOOLEAN]
      BY <2>2, <2>3, <2>5
      DEF Worker, StartInit, InitDevice, HostRegister, InitAccel, InitAccelFails, SetReady, LoopTop,
          CheckPreference, LockEnable, WaitForTask, RunTask, StartRelease, Release
    <3>2. /\ queue' = queue /\ running' \in [Objects -> Files \cup {None, NoLib}]
          /\ registrations' \in Nat
      BY <2>2, <2>3, <2>5
      DEF Worker, StartInit, InitDevice, HostRegister, InitAccel, InitAccelFails, SetReady, LoopTop,
          CheckPreference, LockEnable, WaitForTask, RunTask, StartRelease, Release, loop, device
    <3> QED BY <2>1, <2>2, <3>1, <3>2 DEF mainvars
  <2> QED BY <2>4, <2>5
<1>7. ASSUME NEW a \in Accels, NEW p \in Procs, mpc \notin {"start", "terminated"}, IssueTask(a, p)
      PROVE  CtrlTypeOK'
  BY <1>7 DEF IssueTask, ConfigInv, control, device, libvars
<1> QED BY <1>1, <1>2, <1>3, <1>4, <1>5, <1>6, <1>7, Steps DEF Load

(* Workers come and go with the phases of main.                            *)
LEMMA PhaseStep ==
  ASSUME CtrlInv, [Next]_vars
  PROVE  PhaseInv'
<1> USE DEF CtrlTypeOK, CtrlInv, PhaseInv, Joined
<1>0. CtrlTypeOK /\ ConfigInv /\ config' = config /\ Accels' = Accels
  BY ConfigStep DEF Accels
<1> HIDE DEF Accels
<1>1. CASE Move
  <2>1. wpc' = wpc
    BY <1>1 DEF Move, threadvars
  <2>2. CASE UNCHANGED mainvars \/ Interrupt \/ AwaitSpins
    BY <1>0, <2>1, <2>2 DEF mainvars, vars, Interrupt, AwaitSpins
  <2>3. CASE ReadFile \/ LoadFails \/ StartRunTimeLoader \/ (\E a \in left : SpawnFails(a)) \/ Spawned
    BY <1>0, <2>1, <2>3 DEF ReadFile, LoadFails, StartRunTimeLoader, SpawnFails, Spawned, Go, ConfigInv
  <2>4. CASE AwaitReady \/ InitDone \/ LeaveLoop \/ JoinThreads \/ DeleteLibMgr \/ JoinLoader \/ Exit
    BY <1>0, <2>1, <2>4 DEF AwaitReady, InitDone, LeaveLoop, JoinThreads, DeleteLibMgr, JoinLoader,
                            Exit, Go
  <2> QED BY <1>1, <2>2, <2>3, <2>4 DEF Move
<1>2. CASE Load
  BY <1>0, <1>2 DEF Load, mainvars, threadvars
<1>3. ASSUME NEW a \in left, SpawnThread(a) PROVE PhaseInv'
  BY <1>0, <1>3 DEF SpawnThread, constructType, Goto
<1>4. CASE Terminate
  <2>1. /\ wpc' = wpc
        /\ mpc \in {"stop", "token", "any", "enable"} /\ mpc' \in {"stop", "token", "any", "enable"}
    BY <1>4 DEF Terminate, StopExec, AddFakeTask, SetAnyJob, enable, Go
  <2> QED BY <1>0, <2>1
<1>5. CASE deRegisterAccel \/ UnloadLibraries
  BY <1>0, <1>5 DEF deRegisterAccel, UnloadLibraries, Go, threadvars
<1>6. ASSUME NEW a \in Accels, mpc \notin {"start", "terminated"}, WorkerStep(a) PROVE PhaseInv'
  <2>1. PICK l \in WorkerPC : wpc' = [wpc EXCEPT ![a] = l]
    BY <1>0, <1>6, WorkerMoves
  <2>2. a \in Objects /\ UNCHANGED mainvars /\ wpc[a] \notin {"none", "exit", "failed"}
    BY <1>0, <1>6, WorkerMoves
  <2> QED BY <1>0, <2>1, <2>2 DEF mainvars
<1>7. ASSUME NEW a \in Accels, NEW p \in Procs, mpc \notin {"start", "terminated"}, IssueTask(a, p)
      PROVE  PhaseInv'
  BY <1>0, <1>7 DEF IssueTask
<1> QED BY <1>1, <1>2, <1>3, <1>4, <1>5, <1>6, <1>7, Steps

(* Functors that tasks wait for are in open libraries.                     *)
LEMMA LibStep ==
  ASSUME CtrlInv, [Next]_vars
  PROVE  LibInv'
<1> USE DEF CtrlTypeOK, CtrlInv
<1> DEFINE Open == mpc \notin {"delete", "rtld", "exit", "ended"}
<1>0. CtrlTypeOK /\ ConfigInv
  OBVIOUS
<1>1. ASSUME UNCHANGED <<libs, functors>>, Open' => Open PROVE LibInv'
  BY <1>1 DEF LibInv
<1>2. CASE Move
  <2>1. Open' => Open
    BY <1>2 DEF Move, ReadFile, LoadFails, StartRunTimeLoader, SpawnFails, Spawned, AwaitReady,
       AwaitSpins, InitDone, LeaveLoop, JoinThreads, DeleteLibMgr, JoinLoader, Exit, Interrupt,
       Go, mainvars, vars
  <2> QED BY <1>1, <1>2, <2>1 DEF Move
<1>3. ASSUME NEW f, loadLibrary(f), UNCHANGED <<mainvars, threadvars>> PROVE LibInv'
  <2>1. CASE UNCHANGED <<libs, functors>>
    BY <1>1, <1>3, <2>1 DEF mainvars
  <2>2. CASE f \in Files /\ libs' = libs \cup {f} /\ functors' = SetFunctors(f)
    <3>1. \A d \in Procs \X Types : functors'[d] \in {f, functors[d]}
      BY <2>2 DEF SetFunctors
    <3>2. UNCHANGED mpc
      BY <1>3 DEF mainvars
    <3> QED BY <2>2, <3>1, <3>2 DEF LibInv
  <2> QED BY <1>3, <2>1, <2>2 DEF loadLibrary
<1>4. CASE \/ \E a \in left : SpawnThread(a)
           \/ Terminate \/ deRegisterAccel
  BY <1>1, <1>4 DEF SpawnThread, Terminate, deRegisterAccel, Go, libvars
<1>5. CASE UnloadLibraries
  BY <1>5 DEF UnloadLibraries, unloadLibraries, Go, LibInv
<1>6. ASSUME NEW a \in Accels, mpc \notin {"start", "terminated"}, WorkerStep(a) PROVE LibInv'
  BY <1>0, <1>1, <1>6, WorkerMoves DEF mainvars
<1>7. ASSUME NEW a \in Accels, NEW p \in Procs, IssueTask(a, p) PROVE LibInv'
  BY <1>1, <1>7 DEF IssueTask, libvars
<1> QED BY <1>2, <1>3, <1>4, <1>5, <1>6, <1>7, Steps DEF Load

(* One worker at a time initialises or releases its device.                *)
LEMMA PinStep ==
  ASSUME CtrlInv, [Next]_vars
  PROVE  PinInv'
<1> USE DEF CtrlTypeOK, CtrlInv, PinInv, PinnedOnce
<1>0. CtrlTypeOK /\ ConfigInv
  OBVIOUS
<1>1. CASE Move \/ Load
  BY <1>1 DEF Move, Load, threadvars, device
<1>2. ASSUME NEW a \in left, SpawnThread(a) PROVE PinInv'
  BY <1>2 DEF SpawnThread, constructType, Goto, device
<1>3. CASE Terminate \/ deRegisterAccel \/ UnloadLibraries
  BY <1>3 DEF Terminate, StopExec, AddFakeTask, SetAnyJob, enable, deRegisterAccel,
     UnloadLibraries, threadvars, device
<1>4. ASSUME NEW a \in Accels, mpc \notin {"start", "terminated"}, WorkerStep(a) PROVE PinInv'
  <2>1. a \in Objects /\ Arch(a) \in {"CPU", "GPU", "HIP", "OPEN_CL"}
    BY <1>4 DEF ConfigInv
  <2>2. Worker(a, Arch(a), Device(a), functors)
    BY <1>4 DEF WorkerStep
  <2> USE DEF Goto
  <2>3. CASE StartInit(a) \/ InitAccel(a) \/ InitAccelFails(a) \/ StartRelease(a) \/ Release(a, Arch(a), Device(a))
    <3>1. CASE StartInit(a) \/ StartRelease(a)
      <4>1. /\ print_lock = NoLib /\ print_lock' = a /\ UNCHANGED <<registered, registrations>>
            /\ wpc' \in {[wpc EXCEPT ![a] = "init"], [wpc EXCEPT ![a] = "release"]}
        BY <3>1 DEF StartInit, StartRelease
      <4>2. \A b \in Objects : wpc[b] \notin {"init", "register", "accel", "release"}
        BY <4>1
      <4> QED BY <2>1, <4>1, <4>2
    <3>2. CASE InitAccel(a) \/ InitAccelFails(a) \/ Release(a, Arch(a), Device(a))
      <4>1. /\ wpc[a] \in {"accel", "release"} /\ UNCHANGED <<registered, registrations>>
            /\ \E l \in {"ready", "failed", "exit"} : wpc' = [wpc EXCEPT ![a] = l]
        BY <3>2 DEF InitAccel, InitAccelFails, Release
      <4>2. \A b \in Objects \ {a} : wpc[b] \notin {"init", "register", "accel", "release"}
        BY <2>1, <4>1
      <4> QED BY <2>1, <4>1, <4>2
    <3> QED BY <2>3, <3>1, <3>2
  <2>4. CASE HostRegister(a)
    BY <2>1, <2>4 DEF HostRegister
  <2>5. CASE InitDevice(a, Arch(a), Device(a))
    <3>1. /\ UNCHANGED <<registered, registrations>> /\ wpc[a] = "init"
          /\ \/ wpc' = [wpc EXCEPT ![a] = "failed"] /\ print_lock' = NoLib
             \/ /\ print_lock' = print_lock
                /\ \/ wpc' = [wpc EXCEPT ![a] = "accel"]
                   \/ wpc' = [wpc EXCEPT ![a] = "register"] /\ ~registered
      BY <2>1, <2>5 DEF InitDevice, acceleratorInit, gpu_acceleratorInit, hip_acceleratorInit,
                        opencl_acceleratorInit, cpu_acceleratorInit
    <3>2. \A b \in Objects \ {a} : wpc[b] \notin {"init", "register", "accel", "release"}
      BY <2>1, <3>1
    <3>3. print_lock = a
      BY <2>1, <3>1
    <3> QED BY <2>1, <3>1, <3>2, <3>3, ZenonT(60)
  <2>6. CASE \/ SetReady(a) \/ LoopTop(a) \/ CheckPreference(a) \/ LockEnable(a) \/ WaitForTask(a)
             \/ TakeTask(a, functors, Arch(a)) \/ RunTask(a)
    BY <2>1, <2>6 DEF SetReady, LoopTop, CheckPreference, LockEnable, WaitForTask, TakeTask,
                      RunTask, device
  <2> QED BY <2>2, <2>3, <2>4, <2>5, <2>6 DEF Worker
<1>5. ASSUME NEW a \in Accels, NEW p \in Procs, IssueTask(a, p) PROVE PinInv'
  BY <1>5 DEF IssueTask, device
<1> QED BY <1>1, <1>2, <1>3, <1>4, <1>5, Steps

(* Workers stay ready until they are told to stop.                         *)
LEMMA ReadyStep ==
  ASSUME CtrlInv, [Next]_vars
  PROVE  ReadyInv'
<1> USE DEF CtrlTypeOK, CtrlInv, ReadyInv, Ending, Joined, UsesAccel
<1>0. CtrlTypeOK /\ ConfigInv /\ config' = config /\ Accels' = Accels
  BY ConfigStep DEF Accels
<1> HIDE DEF Accels
<1>1. CASE Move
  <2>1. UNCHANGED <<wpc, readyToServe, stopExec>>
    BY <1>1 DEF Move, threadvars, control
  <2>2. CASE UNCHANGED mainvars \/ AwaitSpins
    BY <1>0, <2>1, <2>2 DEF mainvars, vars, AwaitSpins
  <2>3. CASE Interrupt
    BY <1>0, <2>1, <2>3 DEF Interrupt
  <2>4. CASE ReadFile \/ LoadFails \/ StartRunTimeLoader \/ (\E a \in left : SpawnFails(a)) \/ Spawned
    BY <1>0, <2>1, <2>4 DEF ReadFile, LoadFails, StartRunTimeLoader, SpawnFails, Spawned, Go
  <2>5. CASE AwaitReady \/ InitDone
    BY <1>0, <2>1, <2>5 DEF AwaitReady, InitDone, Go
  <2>6. CASE LeaveLoop \/ JoinThreads \/ DeleteLibMgr \/ JoinLoader \/ Exit
    BY <1>0, <2>1, <2>6 DEF LeaveLoop, JoinThreads, DeleteLibMgr, JoinLoader, Exit, Go
  <2> QED BY <1>1, <2>2, <2>3, <2>4, <2>5, <2>6 DEF Move
<1>2. CASE Load
  BY <1>0, <1>2 DEF Load, mainvars, threadvars, control
<1>3. ASSUME NEW a \in left, SpawnThread(a) PROVE ReadyInv'
  <2>1. /\ wpc[a] = "none" /\ a \in Objects /\ wpc' = [wpc EXCEPT ![a] = "start"]
        /\ UNCHANGED <<readyToServe, stopExec, mpc, cntrl_ready, shouldExit>>
    BY <1>3 DEF PhaseInv, SpawnThread, constructType, Goto
  <2> QED BY <1>0, <2>1
<1>4. CASE Terminate
  <2>1. /\ UNCHANGED <<wpc, readyToServe, cntrl_ready, shouldExit>>
        /\ mpc \in {"stop", "token", "any", "enable"} /\ mpc' \in {"stop", "token", "any", "enable"}
        /\ stopExec' = stopExec \/ stopExec' = [stopExec EXCEPT ![Current] = TRUE]
    BY <1>4 DEF Terminate, StopExec, AddFakeTask, SetAnyJob, enable, Go, control
  <2>2. Current \in Objects
    BY <1>4 DEF Terminate, Current
  <2> HIDE DEF Current
  <2>3. ASSUME NEW a \in Objects, stopExec[a] PROVE stopExec'[a]
    <3>1. CASE stopExec' = stopExec
      BY <2>3, <3>1
    <3>2. CASE stopExec' = [stopExec EXCEPT ![Current] = TRUE]
      <4>1. stopExec \in [Objects -> BOOLEAN]
        BY <1>0
      <4>2. CASE a = Current
        BY <3>2, <4>1, <4>2
      <4>3. CASE a # Current
        BY <2>3, <3>2, <4>1, <4>3
      <4> QED BY <4>2, <4>3
    <3> QED BY <2>1, <3>1, <3>2
  <2> QED BY <1>0, <2>1, <2>3
<1>5. CASE deRegisterAccel \/ UnloadLibraries
  BY <1>0, <1>5 DEF deRegisterAccel, UnloadLibraries, Go, threadvars, control
<1>6. ASSUME NEW a \in Accels, mpc \notin {"start", "terminated"}, WorkerStep(a) PROVE ReadyInv'
  <2>1. a \in Objects /\ UNCHANGED <<mpc, cntrl_ready, shouldExit, stopExec>>
    BY <1>0, <1>6, WorkerMoves DEF mainvars
  <2>2. Worker(a, Arch(a), Device(a), functors) /\ Arch(a) \in {"CPU", "GPU", "HIP", "OPEN_CL"}
    BY <1>6 DEF WorkerStep, ConfigInv
  <2> USE DEF Goto
  <2>3. CASE StartInit(a) \/ HostRegister(a) \/ InitAccel(a) \/ InitAccelFails(a)
    <3>1. /\ UNCHANGED readyToServe /\ wpc[a] \in {"start", "register", "accel"}
          /\ \E l \in {"init", "accel", "ready", "failed"} : wpc' = [wpc EXCEPT ![a] = l]
      BY <2>3 DEF StartInit, HostRegister, InitAccel, InitAccelFails
    <3> QED BY <1>0, <2>1, <3>1, ZenonT(60)
  <2>4. CASE InitDevice(a, Arch(a), Device(a))
    <3>1. /\ UNCHANGED readyToServe /\ wpc[a] = "init"
          /\ \E l \in {"failed", "accel", "register"} : wpc' = [wpc EXCEPT ![a] = l]
      BY <2>2, <2>4 DEF InitDevice, acceleratorInit, gpu_acceleratorInit, hip_acceleratorInit,
                        opencl_acceleratorInit, cpu_acceleratorInit
    <3> QED BY <1>0, <2>1, <3>1
  <2>5. CASE SetReady(a)
    BY <1>0, <2>1, <2>5 DEF SetReady
  <2>6. CASE LoopTop(a)
    BY <1>0, <2>1, <2>6 DEF LoopTop
  <2>7. CASE \/ CheckPreference(a) \/ LockEnable(a) \/ WaitForTask(a)
             \/ TakeTask(a, functors, Arch(a)) \/ RunTask(a)
    <3>1. /\ UNCHANGED readyToServe /\ UsesAccel(a)
          /\ \E l \in {"lock", "wait", "take", "top", "run"} : wpc' = [wpc EXCEPT ![a] = l]
      BY <2>7 DEF CheckPreference, LockEnable, WaitForTask, TakeTask, RunTask
    <3> QED BY <1>0, <2>1, <3>1
  <2>8. CASE StartRelease(a) \/ Release(a, Arch(a), Device(a))
    <3>1. /\ UNCHANGED readyToServe /\ wpc[a] \in {"releasing", "release"}
          /\ \E l \in {"release", "exit"} : wpc' = [wpc EXCEPT ![a] = l]
      BY <2>8 DEF StartRelease, Release
    <3> QED BY <1>0, <2>1, <3>1
  <2> QED BY <2>2, <2>3, <2>4, <2>5, <2>6, <2>7, <2>8 DEF Worker
<1>7. ASSUME NEW a \in Accels, NEW p \in Procs, IssueTask(a, p) PROVE ReadyInv'
  BY <1>0, <1>7 DEF IssueTask, control
<1> QED BY <1>1, <1>2, <1>3, <1>4, <1>5, <1>6, <1>7, Steps

(* Nothing that a worker uses goes: when libraries are closed and          *)
(* accelerators released, no worker is left.                               *)
LEMMA GoneStep ==
  ASSUME CtrlInv, [Next]_vars
  PROVE  NothingGoneInUse'
<1> USE DEF CtrlTypeOK, CtrlInv, NothingGoneInUse, NoKernelOfClosed, NoneReleasedInUse, UsesAccel
<1>0. CtrlTypeOK /\ ConfigInv
  OBVIOUS
<1>1. CASE Move
  BY <1>1 DEF Move, threadvars, loop
<1>2. ASSUME NEW f, loadLibrary(f), UNCHANGED <<mainvars, threadvars>> PROVE NothingGoneInUse'
  BY <1>2 DEF loadLibrary, threadvars, loop
<1>3. ASSUME NEW a \in left, SpawnThread(a) PROVE NothingGoneInUse'
  BY <1>3 DEF SpawnThread, constructType, Goto, loop, libvars
<1>4. CASE Terminate
  BY <1>4 DEF Terminate, StopExec, AddFakeTask, SetAnyJob, enable, loop, libvars
<1>5. CASE deRegisterAccel \/ UnloadLibraries
  <2>1. \A a \in Objects : wpc[a] \in {"none", "exit"}
    BY <1>5 DEF deRegisterAccel, UnloadLibraries, PhaseInv, Joined
  <2>2. wpc' = wpc
    BY <1>5 DEF deRegisterAccel, UnloadLibraries, threadvars
  <2> QED BY <2>1, <2>2
<1>6. ASSUME ~crashed, NEW a \in Accels, mpc \notin {"start", "terminated"}, WorkerStep(a)
      PROVE  NothingGoneInUse'
  <2>1. a \in Objects /\ UNCHANGED <<mpc, libs, functors>> /\ wpc[a] \notin {"none", "exit", "failed"}
    BY <1>0, <1>6, WorkerMoves DEF mainvars
  <2>2. Worker(a, Arch(a), Device(a), functors) /\ Arch(a) \in {"CPU", "GPU", "HIP", "OPEN_CL"}
    BY <1>6 DEF WorkerStep, ConfigInv
  <2>a. \A b \in Objects : wpc[b] = "run" => running[b] \in libs
    BY <1>6
  <2> USE <2>a DEF Goto
  <2>3. CASE StartInit(a) \/ HostRegister(a) \/ InitAccel(a) \/ InitAccelFails(a) \/ SetReady(a)
    BY <2>1, <2>3 DEF StartInit, HostRegister, InitAccel, InitAccelFails, SetReady, loop
  <2>4. CASE InitDevice(a, Arch(a), Device(a))
    <3>1. /\ UNCHANGED <<arax_accel, running>>
          /\ \E l \in {"failed", "accel", "register"} : wpc' = [wpc EXCEPT ![a] = l]
      BY <2>2, <2>4 DEF InitDevice, acceleratorInit, gpu_acceleratorInit, hip_acceleratorInit,
                        opencl_acceleratorInit, cpu_acceleratorInit, loop
    <3> QED BY <2>1, <3>1
  <2>5. CASE LoopTop(a) \/ CheckPreference(a) \/ LockEnable(a) \/ WaitForTask(a) \/ RunTask(a)
    BY <2>1, <2>5 DEF LoopTop, CheckPreference, LockEnable, WaitForTask, RunTask, loop
  <2>6. CASE TakeTask(a, functors, Arch(a))
    <3>1. CASE queue[a] = <<>>
      BY <2>1, <2>6, <3>1 DEF TakeTask
    <3>2. CASE queue[a] # <<>>
      <4>1. 1 \in 1 .. Len(queue[a]) /\ Head(queue[a]) = queue[a][1] /\ queue[a][1] \in Procs
        BY <2>1, <3>2
      <4>2. <<Head(queue[a]), Arch(a)>> \in Procs \X Types
        BY <1>6, <4>1 DEF ConfigInv
      <4>3. mpc \notin Joined
        BY <1>6, <2>1 DEF PhaseInv
      <4>4. functors[<<Head(queue[a]), Arch(a)>>] \in libs \cup {None}
        BY <4>2, <4>3 DEF LibInv, Joined
      <4>5. /\ running' = [running EXCEPT ![a] = functors[<<Head(queue[a]), Arch(a)>>]]
            /\ crashed' = (functors[<<Head(queue[a]), Arch(a)>>] = None)
            /\ wpc[a] = "take" /\ wpc' = [wpc EXCEPT ![a] = "run"] /\ arax_accel' = arax_accel
        BY <2>6, <3>2 DEF TakeTask
      <4> QED BY <2>1, <4>4, <4>5
    <3> QED BY <3>1, <3>2
  <2>7. CASE StartRelease(a) \/ Release(a, Arch(a), Device(a))
    BY <2>1, <2>7 DEF StartRelease, Release, loop
  <2> QED BY <2>2, <2>3, <2>4, <2>5, <2>6, <2>7 DEF Worker
<1>7. ASSUME NEW a \in Accels, NEW p \in Procs, IssueTask(a, p) PROVE NothingGoneInUse'
  BY <1>7 DEF IssueTask, libvars
<1> QED BY <1>1, <1>2, <1>3, <1>4, <1>5, <1>6, <1>7, Steps DEF Load

(* The controller starts in the invariant, whatever file it is given.      *)
LEMMA CtrlInitInv == Init => CtrlInv
<1> SUFFICES ASSUME Init PROVE CtrlInv
  OBVIOUS
<1> USE DEF Init, LibInit, ThreadInit
<1>1. PICK file \in ConfigFiles : config = ReadConfig(file)
  OBVIOUS
<1>2. CtrlTypeOK
  BY DEF CtrlTypeOK, MainPC, WorkerPC
<1>3. ConfigInv
  BY <1>1 DEF ConfigInv, Accels, Arch
<1>4. PhaseInv /\ PinInv /\ NothingGoneInUse
  BY DEF PhaseInv, Joined, PinInv, PinnedOnce, NothingGoneInUse, NoKernelOfClosed,
         NoneReleasedInUse, UsesAccel
<1>5. LibInv /\ ReadyInv
  BY DEF LibInv, ReadyInv, Ending, Joined
<1> QED BY <1>2, <1>3, <1>4, <1>5 DEF CtrlInv

(* The inductive invariant of the controller: the phases of main and what  *)
(* the workers may be doing in each of them.                               *)
THEOREM ControllerInvariant == Spec => []CtrlInv
<1>1. CtrlInv /\ [Next]_vars => CtrlInv'
  BY TypeStep, ConfigStep, PhaseStep, LibStep, PinStep, ReadyStep, GoneStep DEF CtrlInv
<1> QED BY <1>1, CtrlInitInv, PTL DEF Spec

(* No worker is ever in a kernel of a closed library or has a released     *)
(* accelerator, although functors outlive the libraries and the loader     *)
(* goes on loading while they are closed.                                  *)
THEOREM ControllerNothingGone == Spec => []NothingGoneInUse
<1>1. CtrlInv => NothingGoneInUse
  BY DEF CtrlInv
<1> QED BY <1>1, ControllerInvariant, PTL

(* The segment is pinned at most once, so that no worker ends the          *)
(* controller by pinning it again: print_lock makes the test and the call  *)
(* one.                                                                    *)
THEOREM ControllerPinnedOnce == Spec => []PinnedOnce
<1>1. CtrlInv => PinnedOnce
  BY DEF CtrlInv, PinInv
<1> QED BY <1>1, ControllerInvariant, PTL

(* An application that is let in finds every accelerator of the            *)
(* configuration with a live worker until somebody interrupts the          *)
(* controller.                                                             *)
THEOREM ControllerReady == Spec => []ReadyWhenLetIn
<1>1. CtrlInv => ReadyWhenLetIn
  <2> SUFFICES ASSUME CtrlInv, cntrl_ready, ~shouldExit, NEW a \in Accels
               PROVE  arax_accel[a] = "live" /\ UsesAccel(a)
    BY DEF ReadyWhenLetIn
  <2>1. mpc = "serve" /\ readyToServe[a]
    BY DEF CtrlInv, ReadyInv
  <2>2. a \in Objects
    BY <2>1 DEF CtrlInv, ConfigInv
  <2>3. UsesAccel(a)
    BY <2>1, <2>2 DEF CtrlInv, ReadyInv
  <2> QED BY <2>2, <2>3 DEF CtrlInv, NothingGoneInUse, NoneReleasedInUse
<1> QED BY <1>1, ControllerInvariant, PTL

=============================================================================
