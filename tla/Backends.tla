------------------------------ MODULE Backends ------------------------------
(***************************************************************************)
(* What the functors of the four device back ends (controller/src/Cpu,     *)
(* Cuda, ROCm, OpenCL) do to tasks, data and the device's throttle.  A     *)
(* function of the source is the sequence of the primitive operations it   *)
(* performs; module Lifetime runs them one by one.  Transfers, kernels and *)
(* the arguments' range checks have no effect on that state; a device call *)
(* that fails ends the controller (CUDA_ERROR_FATAL and the like).         *)
(***************************************************************************)
EXTENDS Sequences

\* Primitive operations on data d, task t, object o, and the device.
Phys(d) == <<"phys", d>>                \* data->phys = data->accel->phys
Charge(d) == <<"charge", d>>            \* arax_accel_size_dec: may block
Malloc(d) == <<"malloc", d>>            \* data->remote = an allocation
Unless(d, ops) == <<"unless", d, ops>>  \* ops, unless data->remote is set
Credit(t) == <<"credit", t>>            \* arax_accel_size_inc of the task's arguments
Done(t) == <<"done", t>>                \* arax_task_mark_done
Dec(o) == <<"dec", o>>                  \* arax_object_ref_dec

\* The task has copied its two arguments; an asynchronous copy has no waiter.
src(t) == t.io[1]
dst(t) == t.io[2]

-----------------------------------------------------------------------------
(* alloc_remote: what a worker does for each output before the functor     *)

cpu_alloc_remote(d) == <<Phys(d), Charge(d)>>
gpu_alloc_remote(d) == <<Unless(d, <<Phys(d), Charge(d), Malloc(d)>>)>>
hip_alloc_remote(d) == <<Unless(d, <<Phys(d), Charge(d), Malloc(d)>>)>>
opencl_alloc_remote(d) == <<Unless(d, <<Phys(d), Charge(d), Malloc(d)>>)>>

\* alloc_no_throttle of the built-ins, which does throttle.
gpu_alloc_no_throttle(d) == <<Unless(d, <<Phys(d), Charge(d), Malloc(d)>>)>>
hip_alloc_no_throttle(d) == <<Unless(d, <<Phys(d), Charge(d), Malloc(d)>>)>>
opencl_alloc_no_throttle(d) == <<Unless(d, <<Phys(d), Charge(d), Malloc(d)>>)>>

-----------------------------------------------------------------------------
(* alloc_data                                                              *)

alloc_cpu_data(id, t) == <<Phys(t.io[1]), Done(id)>>
alloc_gpu_data(id, t) == <<Unless(t.io[1], <<Malloc(t.io[1]), Phys(t.io[1])>>), Done(id)>>
alloc_hip_data(id, t) == <<Unless(t.io[1], <<Malloc(t.io[1]), Phys(t.io[1])>>), Done(id)>>
alloc_opencl_data(id, t) == <<Unless(t.io[1], <<Malloc(t.io[1]), Phys(t.io[1])>>), Done(id)>>

(* memset                                                                  *)

cpu_memset(id, t) == <<Done(id)>>

\* Mutant of gpu_memset: the completion is forgotten.
MutMemsetNotDone(id, t) == gpu_alloc_no_throttle(t.io[1])

gpu_memset(id, t) == gpu_alloc_no_throttle(t.io[1]) \o <<Done(id)>>
hip_memset(id, t) == hip_alloc_no_throttle(t.io[1]) \o <<Done(id)>>
\* The OpenCL back end also drops the issuer's reference.
opencl_memset(id, t) == opencl_alloc_no_throttle(t.io[1]) \o <<Done(id), Dec(id)>>

(* memcpy: args->sync tells whether somebody waits                         *)

cpu_memcpy(id, t) == <<Done(id)>> \o (IF t.sync THEN <<>> ELSE <<Dec(id)>>)

\* An asynchronous copy is neither marked done nor freed.
gpu_memcpy(id, t) ==
  gpu_alloc_no_throttle(dst(t)) \o gpu_alloc_no_throttle(src(t))
    \o (IF t.sync THEN <<Done(id)>> ELSE <<>>)

hip_memcpy(id, t) ==
  hip_alloc_no_throttle(dst(t)) \o hip_alloc_no_throttle(src(t))
    \o (IF t.sync THEN <<>> ELSE <<Dec(id)>>) \o <<Done(id)>>

opencl_memcpy(id, t) ==
  opencl_alloc_no_throttle(dst(t)) \o opencl_alloc_no_throttle(src(t))
    \o <<Done(id)>> \o (IF t.sync THEN <<>> ELSE <<Dec(id)>>)

(* free: issued by the destructor of a data with a remote; nobody waits    *)

\* Reads the size and phys of data that is freed, where the others read the
\* task's arguments.  No data of a CPU has a remote, so it is never issued.
cpu_memfree(id, t) == <<Credit(t), Done(id), Dec(id)>>

\* Mutant of gpu_memfree: the device's memory is not given back.
MutMemfreeNoCredit(id, t) == <<Done(id), Dec(id)>>

gpu_memfree(id, t) == <<Credit(t), Done(id), Dec(id)>>
hip_memfree(id, t) == <<Credit(t), Done(id), Dec(id)>>
opencl_memfree(id, t) == <<Credit(t), Done(id), Dec(id)>>

(* arax_data_set: nobody waits, the functor drops the issuer's reference   *)

arax_data_set_cpu(id, t) == <<Dec(id)>>

arax_data_set_gpu(id, t) == gpu_alloc_no_throttle(t.io[1]) \o <<Dec(id)>>
arax_data_set_hip(id, t) == hip_alloc_no_throttle(t.io[1]) \o <<Dec(id)>>
arax_data_set_opencl(id, t) == opencl_alloc_no_throttle(t.io[1]) \o <<Dec(id)>>

(* arax_data_get                                                           *)

arax_data_get_cpu(id, t) == <<Done(id)>>
arax_data_get_gpu(id, t) == <<Done(id)>>
arax_data_get_hip(id, t) == <<Done(id)>>
arax_data_get_opencl(id, t) == <<Done(id)>>

(* init_phys                                                               *)

init_phys_cpu(id, t) == <<Done(id)>>
init_phys_gpu(id, t) == <<Done(id)>>
init_phys_hip(id, t) == <<Done(id)>>
init_phys_opencl(id, t) == <<Done(id)>>

(* Functors of libraries: external, but for what they call around a kernel *)

Host2CPU(t) == <<>>
CPU2Host(id) == <<Done(id)>>

\* For the arguments no task has allocated; no charge, and phys stays as it is.
alloc_gpu(d) == <<Malloc(d)>>
Host2GPU(t) == [i \in DOMAIN t.io |-> Unless(t.io[i], alloc_gpu(t.io[i]))]
GPU2Host(id) == <<Done(id)>>

hip_alloc_gpu(d) == <<Malloc(d)>>
hip_Host2GPU(t) == [i \in DOMAIN t.io |-> Unless(t.io[i], hip_alloc_gpu(t.io[i]))]
hip_GPU2Host(id) == <<Done(id)>>

\* The OpenCL ones mark the task done both before and after the kernel.
Host2OpenCL(id) == <<Done(id)>>
OpenCL2Host(id) == <<Done(id)>>

-----------------------------------------------------------------------------
(* The ARAX_PROC_LISTs: arax_proc_get_functor of a procedure               *)

CpuFunctor(id, t) ==
  CASE t.proc = "alloc_data" -> alloc_cpu_data(id, t)
    [] t.proc = "free" -> cpu_memfree(id, t)
    [] t.proc = "memset" -> cpu_memset(id, t)
    [] t.proc = "memcpy" -> cpu_memcpy(id, t)
    [] t.proc = "arax_data_set" -> arax_data_set_cpu(id, t)
    [] t.proc = "arax_data_get" -> arax_data_get_cpu(id, t)
    [] t.proc = "init_phys" -> init_phys_cpu(id, t)
    [] OTHER -> Host2CPU(t) \o CPU2Host(id)

GpuFunctor(id, t) ==
  CASE t.proc = "alloc_data" -> alloc_gpu_data(id, t)
    [] t.proc = "free" -> gpu_memfree(id, t)
    [] t.proc = "memset" -> gpu_memset(id, t)
    [] t.proc = "memcpy" -> gpu_memcpy(id, t)
    [] t.proc = "arax_data_set" -> arax_data_set_gpu(id, t)
    [] t.proc = "arax_data_get" -> arax_data_get_gpu(id, t)
    [] t.proc = "init_phys" -> init_phys_gpu(id, t)
    [] OTHER -> Host2GPU(t) \o GPU2Host(id)

HipFunctor(id, t) ==
  CASE t.proc = "alloc_data" -> alloc_hip_data(id, t)
    [] t.proc = "free" -> hip_memfree(id, t)
    [] t.proc = "memset" -> hip_memset(id, t)
    [] t.proc = "memcpy" -> hip_memcpy(id, t)
    [] t.proc = "arax_data_set" -> arax_data_set_hip(id, t)
    [] t.proc = "arax_data_get" -> arax_data_get_hip(id, t)
    [] t.proc = "init_phys" -> init_phys_hip(id, t)
    [] OTHER -> hip_Host2GPU(t) \o hip_GPU2Host(id)

OpenclFunctor(id, t) ==
  CASE t.proc = "alloc_data" -> alloc_opencl_data(id, t)
    [] t.proc = "free" -> opencl_memfree(id, t)
    [] t.proc = "memset" -> opencl_memset(id, t)
    [] t.proc = "memcpy" -> opencl_memcpy(id, t)
    [] t.proc = "arax_data_set" -> arax_data_set_opencl(id, t)
    [] t.proc = "arax_data_get" -> arax_data_get_opencl(id, t)
    [] t.proc = "init_phys" -> init_phys_opencl(id, t)
    [] OTHER -> Host2OpenCL(id) \o OpenCL2Host(id)

executeOperation(kind, id, t) ==
  CASE kind = "CPU" -> CpuFunctor(id, t)
    [] kind = "GPU" -> GpuFunctor(id, t)
    [] kind = "HIP" -> HipFunctor(id, t)
    [] kind = "OPEN_CL" -> OpenclFunctor(id, t)

alloc_remote(kind, d) ==
  CASE kind = "CPU" -> cpu_alloc_remote(d)
    [] kind = "GPU" -> gpu_alloc_remote(d)
    [] kind = "HIP" -> hip_alloc_remote(d)
    [] kind = "OPEN_CL" -> opencl_alloc_remote(d)

\* Procedures whose functor drops the reference of the issuer, who must not.
Frees(kind, t) ==
  \/ t.proc \in {"free", "arax_data_set"}
  \/ t.proc = "memcpy" /\ ~t.sync
  \/ t.proc = "memset" /\ kind = "OPEN_CL"

=============================================================================
