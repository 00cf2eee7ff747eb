----------------------------- MODULE Migration -----------------------------
(***************************************************************************)
(* Data that follow their virtual accelerator from device to device: the   *)
(* MIGRATION build of the controller under the heterogeneous scheduler,    *)
(* which calls migrateFromRemote and migrateToRemote for every task.       *)
(*                                                                         *)
(* A worker loses a virtual accelerator only in its own selectTask, so     *)
(* that vac->phys names the worker while it serves a task of it; the       *)
(* balancer gives it to another device later.  The content of a buffer is  *)
(* a version: the number of tasks that have written it.                    *)
(*                                                                         *)
(* A buffer is used through one virtual accelerator.  That                 *)
(* arax_data_migrate_accel binds it to another one, on the same device or  *)
(* when neither is on any, while tasks of the first wait, is left out: the *)
(* two may then be served by two workers at a time, on two devices.        *)
(***************************************************************************)
EXTENDS Integers, FiniteSetsExt

CONSTANTS
  Devices,     \* one worker thread each
  Kind,        \* "cpu", "gpu", "hip" or "opencl"
  Capacity,    \* of a device's throttle
  Available0,  \* what is available of it at the start
  Vacs,
  Data,
  Accel,       \* data->accel
  Size,
  Jobs,        \* tasks of the applications: their vac, inputs and outputs
  None,
  MaxTasks     \* bound: tasks that run

VARIABLES
  vphys,       \* vac->phys
  dphys,       \* data->phys
  mem,         \* data->remote: the device the allocation is on
  host,        \* version in the shared segment
  copy,        \* version in the allocation
  latest,      \* version the last writer left
  avail,       \* accel->throttle.available
  charges,     \* history: bytes charged a second time for the same buffer
  mpc, io,     \* of the workers: next step, the data that it is still to be done for
  job,         \* the task they serve
  run,         \* tasks taken so far
  aborted      \* the controller has ended

buffers == <<dphys, mem, host, copy, latest>>
mvars == <<vphys, buffers, avail, charges, mpc, io, job, run, aborted>>

NoJob == [vac |-> None, ins |-> {}, outs |-> {}]

MigInit ==
  /\ vphys = [v \in Vacs |-> None]
  /\ dphys = [d \in Data |-> None]
  /\ mem = [d \in Data |-> None]
  /\ host = [d \in Data |-> 0]
  /\ copy = [d \in Data |-> 0]
  /\ latest = [d \in Data |-> 0]
  /\ avail = [a \in Devices |-> Available0]
  /\ charges = 0
  /\ mpc = [a \in Devices |-> "select"]
  /\ io = [a \in Devices |-> {}]
  /\ job = [a \in Devices |-> NoJob]
  /\ run = 0
  /\ aborted = FALSE

All(j) == j.ins \cup j.outs

\* A worker is done with d; after the last one it begins its next loop l over ds.
Advance(a, d, l, ds) ==
  IF io[a] = {d}
    THEN mpc' = [mpc EXCEPT ![a] = l] /\ io' = [io EXCEPT ![a] = ds]
    ELSE io' = [io EXCEPT ![a] = @ \ {d}] /\ UNCHANGED mpc

AfterTo(outs) == IF outs = {} THEN "execute" ELSE "outs"

-----------------------------------------------------------------------------
(* Virtual accelerators and tasks                                          *)

\* The head of the queue is not for this device: del_vaccel, add_orphan_vaccel.
GiveUp(v) ==
  /\ vphys[v] # None
  /\ mpc[vphys[v]] = "select"
  /\ vphys' = [vphys EXCEPT ![v] = None]
  /\ UNCHANGED <<buffers, avail, charges, mpc, io, job, run, aborted>>

assignVac(v, a) ==
  /\ vphys[v] = None
  /\ vphys' = [vphys EXCEPT ![v] = a]
  /\ UNCHANGED <<buffers, avail, charges, mpc, io, job, run, aborted>>

selectTask(a, j) ==
  /\ mpc[a] = "select"
  /\ vphys[j.vac] = a
  /\ run < MaxTasks
  /\ run' = run + 1
  /\ job' = [job EXCEPT ![a] = j]
  /\ mpc' = [mpc EXCEPT ![a] = "from"]
  /\ io' = [io EXCEPT ![a] = All(j)]
  /\ UNCHANGED <<vphys, buffers, avail, charges, aborted>>

-----------------------------------------------------------------------------
(* sync_from_remote: by the thread old that had the data                   *)

FromCopy(d) == host' = IF mem[d] = None THEN host ELSE [host EXCEPT ![d] = copy[d]]

cpu_sync_from_remote(d) == UNCHANGED host
gpu_sync_from_remote(d) == FromCopy(d)
hip_sync_from_remote(d) == FromCopy(d)
opencl_sync_from_remote(d) == FromCopy(d)

sync_from_remote(old, d) ==
  CASE Kind[old] = "cpu" -> cpu_sync_from_remote(d)
    [] Kind[old] = "gpu" -> gpu_sync_from_remote(d)
    [] Kind[old] = "hip" -> hip_sync_from_remote(d)
    [] Kind[old] = "opencl" -> opencl_sync_from_remote(d)

\* err, which is then tested, is not initialised when there is no remote.
Uninitialised(old, d) == Kind[old] # "cpu" /\ mem[d] = None

(* free_remote: the device that is credited is the one of the virtual      *)
(* accelerator, which is the new one                                       *)

Credit(d) ==
  /\ avail' = [avail EXCEPT ![vphys[Accel[d]]] = @ + Size[d]]
  /\ dphys' = [dphys EXCEPT ![d] = None]

FreeMem(d) ==
  IF mem[d] # None
    THEN Credit(d) /\ mem' = [mem EXCEPT ![d] = None]
    ELSE UNCHANGED <<avail, dphys, mem>>

cpu_free_remote(d) == Credit(d) /\ UNCHANGED mem

gpu_free_remote(d) == FreeMem(d)
hip_free_remote(d) == FreeMem(d)
opencl_free_remote(d) == FreeMem(d)

free_remote(old, d) ==
  CASE Kind[old] = "cpu" -> cpu_free_remote(d)
    [] Kind[old] = "gpu" -> gpu_free_remote(d)
    [] Kind[old] = "hip" -> hip_free_remote(d)
    [] Kind[old] = "opencl" -> opencl_free_remote(d)

\* The assertion of arax_throttle_size_inc fails.
Overflows == \E a \in Devices : avail'[a] > Capacity

\* getVAQPhys2accelThread: the threads are named by their devices.
Holder(d) == dphys[d]

\* Mutant of migrateFromRemote: the buffer is freed and not copied.
MutFreeOnly(a) ==
  /\ mpc[a] = "from"
  /\ \E d \in io[a] :
       /\ Advance(a, d, "to", All(job[a]))
       /\ IF Holder(d) \in {None, a}
            THEN UNCHANGED <<avail, dphys, mem>>
            ELSE free_remote(Holder(d), d)
       /\ aborted' = Overflows
  /\ UNCHANGED <<vphys, host, copy, latest, charges, job, run>>

\* One data of the task; the order of the arguments is the application's.
migrateFromRemote(a) ==
  /\ mpc[a] = "from"
  /\ \E d \in io[a] :
       /\ Advance(a, d, "to", All(job[a]))
       /\ IF Holder(d) \in {None, a}
            THEN UNCHANGED <<host, avail, dphys, mem, aborted>>
            ELSE /\ sync_from_remote(Holder(d), d)
                 /\ free_remote(Holder(d), d)
                 /\ aborted' \in {Overflows, Overflows \/ Uninitialised(Holder(d), d)}
  /\ UNCHANGED <<vphys, copy, latest, charges, job, run>>

-----------------------------------------------------------------------------
(* alloc_remote: the throttle is that of the virtual accelerator's device  *)

\* arax_accel_size_dec blocks until there is enough.
Charge(d) ==
  /\ avail[vphys[Accel[d]]] >= Size[d]
  /\ avail' = [avail EXCEPT ![vphys[Accel[d]]] = @ - Size[d]]
  /\ dphys' = [dphys EXCEPT ![d] = vphys[Accel[d]]]

\* An allocation of no bytes is a null pointer.
Malloc(a, d) == mem' = [mem EXCEPT ![d] = IF Size[d] = 0 THEN None ELSE a]

alloc_remote(a, d) ==
  IF Kind[a] = "cpu" THEN Charge(d) /\ UNCHANGED mem
  ELSE IF mem[d] # None THEN UNCHANGED <<avail, dphys, mem>>
  ELSE Charge(d) /\ Malloc(a, d)

(* sync_to_remote: alloc_remote has allocated before, so that the          *)
(* alloc_no_throttle in the ones of HIP and OpenCL finds the buffer, or an *)
(* empty one; OpenCL makes no buffer of no bytes and cannot copy to it.    *)

ToCopy(d) == copy' = [copy EXCEPT ![d] = host[d]]

cpu_sync_to_remote(d) == UNCHANGED <<copy, aborted>>
gpu_sync_to_remote(d) == ToCopy(d) /\ UNCHANGED aborted
hip_sync_to_remote(d) == ToCopy(d) /\ UNCHANGED aborted
opencl_sync_to_remote(d) == ToCopy(d) /\ aborted' = (Size[d] = 0)

sync_to_remote(a, d) ==
  CASE Kind[a] = "cpu" -> cpu_sync_to_remote(d)
    [] Kind[a] = "gpu" -> gpu_sync_to_remote(d)
    [] Kind[a] = "hip" -> hip_sync_to_remote(d)
    [] Kind[a] = "opencl" -> opencl_sync_to_remote(d)

\* The branch for data without phys is never reached: no thread is null.
migrateToRemote(a) ==
  /\ mpc[a] = "to"
  /\ \E d \in io[a] :
       /\ Advance(a, d, AfterTo(job[a].outs), job[a].outs)
       /\ IF Holder(d) # a
            THEN alloc_remote(a, d) /\ sync_to_remote(a, d)
            ELSE UNCHANGED <<avail, dphys, mem, copy, aborted>>
  /\ UNCHANGED <<vphys, host, latest, charges, job, run>>

\* The worker allocates the outputs: a second charge on a CPU.
AllocOutputs(a) ==
  /\ mpc[a] = "outs"
  /\ \E d \in io[a] :
       /\ Advance(a, d, "execute", {})
       /\ alloc_remote(a, d)
       /\ charges' = IF Kind[a] = "cpu" THEN charges + Size[d] ELSE charges
  /\ UNCHANGED <<vphys, host, copy, latest, job, run, aborted>>

\* The kernel writes the outputs where it runs.
executeOperation(a) ==
  /\ mpc[a] = "execute"
  /\ LET new == [d \in job[a].outs |-> latest[d] + 1]
         Written(f) == [d \in Data |-> IF d \in job[a].outs THEN new[d] ELSE f[d]]
     IN  /\ latest' = Written(latest)
         /\ host' = IF Kind[a] = "cpu" THEN Written(host) ELSE host
         /\ copy' = IF Kind[a] = "cpu" THEN copy ELSE Written(copy)
  /\ job' = [job EXCEPT ![a] = NoJob]
  /\ mpc' = [mpc EXCEPT ![a] = "select"]
  /\ UNCHANGED <<vphys, dphys, mem, avail, charges, io, run, aborted>>

-----------------------------------------------------------------------------
Serve(a) ==
  migrateFromRemote(a) \/ migrateToRemote(a) \/ AllocOutputs(a) \/ executeOperation(a)

\* It waits in arax_accel_size_dec, perhaps for what was credited to another device.
Blocked(a) ==
  /\ mpc[a] \in {"to", "outs"}
  /\ \A d \in io[a] : Size[d] > avail[a]

Quiet ==
  /\ aborted \/ \A a \in Devices : mpc[a] = "select" \/ Blocked(a)
  /\ UNCHANGED mvars

MigNext ==
  \/ /\ ~aborted
     /\ \/ \E v \in Vacs : GiveUp(v) \/ \E a \in Devices : assignVac(v, a)
        \/ \E a \in Devices : Serve(a) \/ \E j \in Jobs : selectTask(a, j)
  \/ Quiet

MigSpec == MigInit /\ [][MigNext]_mvars

-----------------------------------------------------------------------------
(* A task that runs finds the last version of each input on its device,    *)
(* whichever devices, of whichever kinds, wrote and held it before.        *)
FreshData ==
  ~aborted =>
    \A a \in Devices : mpc[a] = "execute" =>
      \A d \in All(job[a]) :
        Size[d] > 0 => latest[d] = IF Kind[a] = "cpu" THEN host[d] ELSE copy[d]

(* data->phys names the device that data->remote is an allocation of.      *)
RemoteOnPhys ==
  \A d \in Data : mem[d] # None => mem[d] = dphys[d]

(* A migration credits the new device and not the old one, but what all    *)
(* devices together are charged for is what they hold, besides what CPUs   *)
(* are charged twice.                                                      *)
ChargedTogether ==
  MapThenSumSet(LAMBDA a : Available0 - avail[a], Devices)
    = charges + MapThenSumSet(LAMBDA d : IF dphys[d] = None THEN 0 ELSE Size[d], Data)

-----------------------------------------------------------------------------
(* For the proofs.  The data of a task are on its virtual accelerator:     *)
(* arax_data_input_init and arax_data_output_init have put them there.     *)
MigAssumption ==
  /\ None \notin Devices
  /\ Kind \in [Devices -> {"cpu", "gpu", "hip", "opencl"}]
  /\ Accel \in [Data -> Vacs] /\ Size \in [Data -> Nat]
  /\ \A j \in Jobs : j.vac \in Vacs /\ All(j) \subseteq Data /\ \A d \in All(j) : Accel[d] = j.vac

MigTypeOK ==
  /\ vphys \in [Vacs -> Devices \cup {None}]
  /\ dphys \in [Data -> Devices \cup {None}] /\ mem \in [Data -> Devices \cup {None}]
  /\ host \in [Data -> Nat] /\ copy \in [Data -> Nat] /\ latest \in [Data -> Nat]
  /\ mpc \in [Devices -> {"select", "from", "to", "outs", "execute"}]
  /\ io \in [Devices -> SUBSET Data]
  /\ job \in [Devices -> Jobs \cup {NoJob}]

\* Where the last version of a buffer is: in its allocation, if it has one.
DataOK(d) ==
  /\ mem[d] # None => mem[d] = dphys[d] /\ Kind[dphys[d]] # "cpu" /\ Size[d] > 0
  /\ Size[d] > 0 =>
       /\ dphys[d] # None /\ Kind[dphys[d]] # "cpu" => mem[d] # None
       /\ latest[d] = IF mem[d] # None THEN copy[d] ELSE host[d]

\* What the loops of a worker have done to the data of its task, which are its own
\* as long as the virtual accelerator is.
ServeOK(a) ==
  mpc[a] # "select" =>
    /\ job[a] \in Jobs /\ vphys[job[a].vac] = a /\ io[a] \subseteq All(job[a])
    /\ \A d \in All(job[a]) : Size[d] > 0 =>
         /\ mpc[a] = "from" /\ d \notin io[a] => dphys[d] \in {None, a}
         /\ mpc[a] = "to" => dphys[d] = a \/ (d \in io[a] /\ dphys[d] = None)
         /\ mpc[a] \in {"outs", "execute"} => dphys[d] = a

MigInv == MigTypeOK /\ (\A d \in Data : DataOK(d)) /\ \A a \in Devices : ServeOK(a)
=============================================================================
