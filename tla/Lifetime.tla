------------------------------ MODULE Lifetime ------------------------------
(***************************************************************************)
(* The lives of the objects in the shared segment: virtual accelerators,   *)
(* data and tasks, registered and reference-counted by arax_object.c,      *)
(* created and dropped by an application (src/arch/shm/impl.c,             *)
(* arax_data.c, arax_task.c), by the destructors and by the controller's   *)
(* workers (accelThread.cpp and the back ends), with the two budgets they  *)
(* are paid from: the pipe's and each device's.                            *)
(*                                                                         *)
(* A thread runs a stack of primitive operations, one per step.  The       *)
(* destructor of an object whose count reaches zero goes on top of it, so  *)
(* that destructors nest and interleave with the other threads as in the   *)
(* code.  An identifier is the address of an object: arch_alloc_allocate   *)
(* may return one again as soon as it was freed.                           *)
(***************************************************************************)
EXTENDS Backends, Integers, FiniteSets, SequencesExt

CONSTANTS
  Accels,       \* physical accelerators, each with its worker
  FreeVaq,      \* FreeVaq[a]: a's free_vaq
  Vacs, Datas, Tasks,   \* addresses of the other objects
  Kinds,        \* arax_accel_type_e of the devices in the configuration
  None,         \* the null pointer
  App,          \* the application's thread
  PipeSize,     \* the pipe's throttle, in objects
  DevSize,      \* a device's throttle, in data
  MaxCalls,     \* bound: calls of the application in a behaviour
  Early         \* whether it releases virtual accelerators the balancer has not assigned

ASSUME LifetimeAssumption ==
  /\ Kinds \subseteq {"CPU", "GPU", "HIP", "OPEN_CL"}
  /\ {PipeSize, DevSize, MaxCalls} \subseteq Nat
  /\ Early \in BOOLEAN

FreeVaqs == {FreeVaq[a] : a \in Accels}
Objects == Vacs \cup FreeVaqs \cup Datas \cup Tasks
Threads == {App} \cup Accels
Procs == {"arax_data_set", "arax_data_get", "alloc_data", "free"}

VARIABLES
  kind,       \* the type of the devices, chosen by the configuration
  ref,        \* ref_count; 0 for an address that is not registered
  live,       \* addresses that are allocated
  vac,        \* phys, queue and whether it is in the orphans, of each virtual accelerator
  data,       \* accel, phys, remote and OTHR_REMT of each data
  task,       \* accel, proc, io, inputs, args and state of each task
  procs,      \* ref_count of the procedures
  pipe, dev,  \* available sizes of the throttles
  orphan,     \* what the balancer has popped from the orphans, or None
  copy,       \* assignedVACs of each worker
  todo,       \* what each thread is about to do
  cur,        \* the task each thread is issuing
  handles,    \* what the application owns
  calls

memory == <<ref, live, pipe>>
thread == <<todo, cur>>
app == <<handles, calls>>
vars == <<kind, memory, vac, data, task, procs, dev, orphan, copy, thread, app>>

NoVac == [phys |-> None, linked |-> FALSE, queue |-> <<>>]
NoData == [accel |-> None, phys |-> None, remote |-> FALSE, other |-> FALSE]
NoTask == [accel |-> None, proc |-> "none", io |-> <<>>, ins |-> 0, sync |-> TRUE,
           phys |-> None, state |-> "none"]

Init ==
  /\ kind \in Kinds
  /\ ref = [o \in Objects |-> IF o \in FreeVaqs THEN 1 ELSE 0]
  /\ live = FreeVaqs
  /\ vac = [v \in Vacs \cup FreeVaqs |->
              IF v \in FreeVaqs
                THEN [NoVac EXCEPT !.phys = CHOOSE a \in Accels : FreeVaq[a] = v]
                ELSE NoVac]
  /\ data = [d \in Datas |-> NoData]
  /\ task = [t \in Tasks |-> NoTask]
  /\ procs = [p \in Procs |-> 1]
  /\ pipe = PipeSize
  /\ dev = [a \in Accels |-> DevSize]
  /\ orphan = None
  /\ copy = [a \in Accels |-> {}]
  /\ todo = [th \in Threads |-> <<>>]
  /\ cur = [th \in Threads |-> None]
  /\ handles = {}
  /\ calls = 0

-----------------------------------------------------------------------------
(* Programs: the calls as sequences of operations.  CUR is the task that   *)
(* the thread is issuing.                                                  *)

\* arax_data_input_init and arax_data_output_init
InitIo(d, v) == <<<<"inc", d>>, <<"migrate", d, v>>>>

\* arax_task_issue: arax_task_alloc, then arax_task_submit, which adds the task
\* to the virtual accelerator's queue.
arax_task_issue(v, p, ins, outs, sync, a) ==
  LET io == ins \o outs
      new == [accel |-> v, proc |-> p, io |-> io, ins |-> Len(ins), sync |-> sync,
              phys |-> a, state |-> "none"]
  IN  <<<<"regtask", new>>>> \o FlattenSeq([i \in DOMAIN io |-> InitIo(io[i], v)])
        \o <<<<"inc", v>>, <<"submit", v>>>>

arax_task_wait_free == <<<<"wait">>, <<"drop">>>>
GetProc(p) == <<"proc", p, 1>>
PutProc(p) == <<"proc", p, -1>>

arax_data_get(d) ==
  <<GetProc("arax_data_get")>>
    \o arax_task_issue(data[d].accel, "arax_data_get", <<>>, <<d>>, TRUE, None)
    \o arax_task_wait_free \o <<PutProc("arax_data_get")>>

\* The accelerator of data that has none is set, and referenced, up front.
arax_data_set(d, v) ==
  <<GetProc("arax_data_set")>>
    \o (IF data[d].accel = None THEN <<<<"inc", v>>, <<"accel", d, v>>>> ELSE <<>>)
    \o arax_task_issue(v, "arax_data_set", <<>>, <<d>>, FALSE, None)
    \o <<PutProc("arax_data_set")>>

\* The procedure is not put back, and the device is charged a second time.
arax_data_allocate_remote(d, v) ==
  <<GetProc("alloc_data")>> \o arax_task_issue(v, "alloc_data", <<>>, <<d>>, TRUE, None)
    \o arax_task_wait_free \o <<Charge(d)>>

\* Mutant of TaskDtor: the data of the task are not released.
MutTaskDtorKeepsIo(t) == <<Dec(task[t].accel)>>

\* __dtor_arax_task_msg_s
TaskDtor(t) == [i \in DOMAIN task[t].io |-> Dec(task[t].io[i])] \o <<Dec(task[t].accel)>>

\* __dtor_arax_data_s: the device's memory is freed by a task of its own.
DataDtor(d) ==
  IF data[d].remote /\ ~data[d].other
    THEN <<GetProc("free")>>
           \o arax_task_issue(FreeVaq[data[d].phys], "free", <<>>, <<>>, FALSE, data[d].phys)
           \o <<Dec(data[d].accel)>>
    ELSE IF data[d].accel # None THEN <<Dec(data[d].accel)>> ELSE <<>>

\* __dtor_arax_vaccel_s: out of the list it is in.
VaccelDtor(v) == <<<<"detach", v>>>>

dtor_table(o) ==
  IF o \in Tasks THEN TaskDtor(o) ELSE IF o \in Datas THEN DataDtor(o) ELSE VaccelDtor(o)

-----------------------------------------------------------------------------
(* The operations of a thread                                              *)

Doing(th, name) == todo[th] # <<>> /\ Head(todo[th])[1] = name
Arg(th) == Head(todo[th])[2]

\* The operation is over; ops come before what the thread was about to do.
Then(th, ops) == todo' = [todo EXCEPT ![th] = ops \o Tail(@)]

arax_object_ref_inc(th) ==
  /\ Doing(th, "inc")
  /\ ref' = [ref EXCEPT ![Arg(th)] = @ + 1]
  /\ Then(th, <<>>)
  /\ UNCHANGED <<kind, live, pipe, vac, data, task, procs, dev, orphan, copy, cur, app>>

\* Under the lock of the type's list; the last reference takes the object out
\* of the list, destroys it and frees it.
arax_object_ref_dec(th) ==
  /\ Doing(th, "dec")
  /\ ref' = [ref EXCEPT ![Arg(th)] = @ - 1]
  /\ Then(th, IF ref[Arg(th)] = 1
                THEN dtor_table(Arg(th)) \o <<<<"free", Arg(th)>>>> ELSE <<>>)
  /\ UNCHANGED <<kind, live, pipe, vac, data, task, procs, dev, orphan, copy, cur, app>>

Forget(f, o, none) == IF o \in DOMAIN f THEN [f EXCEPT ![o] = none] ELSE f

\* arch_alloc_free and arax_pipe_size_inc
Free(th) ==
  /\ Doing(th, "free")
  /\ live' = live \ {Arg(th)}
  /\ pipe' = pipe + 1
  /\ vac' = Forget(vac, Arg(th), NoVac)
  /\ data' = Forget(data, Arg(th), NoData)
  /\ task' = Forget(task, Arg(th), NoTask)
  /\ Then(th, <<>>)
  /\ UNCHANGED <<kind, ref, procs, dev, orphan, copy, cur, app>>

\* arax_object_register: arax_pipe_size_dec may block; o is a free address.
Register(th, o) ==
  /\ pipe > 0
  /\ pipe' = pipe - 1
  /\ live' = live \cup {o}
  /\ ref' = [ref EXCEPT ![o] = 1]

Fresh(S) == CHOOSE o \in S : o \notin live

\* arax_vaccel_init: an orphan, or assigned to the given accelerator.
arax_vaccel_init(th) ==
  /\ Doing(th, "regvac")
  /\ ~(Vacs \subseteq live)
  /\ LET v == Fresh(Vacs)
     IN  /\ Register(th, v)
         /\ vac' = [vac EXCEPT ![v] = [NoVac EXCEPT !.phys = Arg(th), !.linked = Arg(th) = None]]
         /\ handles' = handles \cup {v}
  /\ Then(th, <<>>)
  /\ UNCHANGED <<kind, data, task, procs, dev, orphan, copy, cur, calls>>

arax_data_init(th) ==
  /\ Doing(th, "regdata")
  /\ ~(Datas \subseteq live)
  /\ LET d == Fresh(Datas)
     IN  /\ Register(th, d)
         /\ data' = [data EXCEPT ![d] = NoData]
         /\ handles' = handles \cup {d}
  /\ Then(th, <<>>)
  /\ UNCHANGED <<kind, vac, task, procs, dev, orphan, copy, cur, calls>>

arax_task_alloc(th) ==
  /\ Doing(th, "regtask")
  /\ ~(Tasks \subseteq live)
  /\ LET t == Fresh(Tasks)
     IN  /\ Register(th, t)
         /\ task' = [task EXCEPT ![t] = Arg(th)]
         /\ cur' = [cur EXCEPT ![th] = t]
  /\ Then(th, <<>>)
  /\ UNCHANGED <<kind, vac, data, procs, dev, orphan, copy, app>>

SetAccel(th) ==
  /\ Doing(th, "accel")
  /\ data' = [data EXCEPT ![Arg(th)].accel = Head(todo[th])[3]]
  /\ Then(th, <<>>)
  /\ UNCHANGED <<kind, memory, vac, task, procs, dev, orphan, copy, cur, app>>

\* The end of arax_data_set_remote; phys stays null.
SetOther(th) ==
  /\ Doing(th, "other")
  /\ data' = [data EXCEPT ![Arg(th)].remote = TRUE, ![Arg(th)].other = TRUE]
  /\ Then(th, <<>>)
  /\ UNCHANGED <<kind, memory, vac, task, procs, dev, orphan, copy, cur, app>>

\* arax_data_migrate_accel.  Two accelerators on different devices end in the
\* assertion "D2D not implemented": see CanUse.
MigrateOps(d, v) ==
  LET old == data[d].accel
  IN  IF old = v THEN <<>>
      ELSE (IF old = None THEN <<>> ELSE <<Dec(old)>>) \o <<<<"inc", v>>, <<"accel", d, v>>>>

arax_data_migrate_accel(th) ==
  /\ Doing(th, "migrate")
  /\ Then(th, MigrateOps(Arg(th), Head(todo[th])[3]))
  /\ UNCHANGED <<kind, memory, vac, data, task, procs, dev, orphan, copy, cur, app>>

\* The end of arax_task_submit: state and arax_vaccel_add_task (module Dispatch).
arax_task_submit(th) ==
  /\ Doing(th, "submit")
  /\ task' = [task EXCEPT ![cur[th]].state = "issued"]
  /\ vac' = [vac EXCEPT ![Arg(th)].queue = Append(@, cur[th])]
  /\ Then(th, <<>>)
  /\ UNCHANGED <<kind, memory, data, procs, dev, orphan, copy, cur, app>>

arax_task_wait(th) ==
  /\ Doing(th, "wait")
  /\ task[cur[th]].state = "done"
  /\ Then(th, <<>>)
  /\ UNCHANGED <<kind, memory, vac, data, task, procs, dev, orphan, copy, cur, app>>

\* arax_task_free of the task that was issued, or it becomes a handle.
arax_task_free(th) ==
  /\ Doing(th, "drop")
  /\ Then(th, <<Dec(cur[th])>>)
  /\ cur' = [cur EXCEPT ![th] = None]
  /\ UNCHANGED <<kind, memory, vac, data, task, procs, dev, orphan, copy, app>>

KeepTask(th) ==
  /\ Doing(th, "keep")
  /\ handles' = handles \cup {cur[th]}
  /\ cur' = [cur EXCEPT ![th] = None]
  /\ Then(th, <<>>)
  /\ UNCHANGED <<kind, memory, vac, data, task, procs, dev, orphan, copy, calls>>

\* arax_task_mark_done.  The HIP back end marks a task done after its own
\* reference is gone.
arax_task_mark_done(th) ==
  /\ Doing(th, "done")
  /\ task' = [task EXCEPT ![Arg(th)].state = "done"]
  /\ Then(th, <<>>)
  /\ UNCHANGED <<kind, memory, vac, data, procs, dev, orphan, copy, cur, app>>

\* arax_proc_get and arax_proc_put: no procedure the built-ins use reaches zero.
UseProc(th) ==
  /\ Doing(th, "proc")
  /\ procs' = [procs EXCEPT ![Arg(th)] = @ + Head(todo[th])[3]]
  /\ Then(th, <<>>)
  /\ UNCHANGED <<kind, memory, vac, data, task, dev, orphan, copy, cur, app>>

\* arax_accel_del_vaccel or arax_pipe_remove_orphan_vaccel
Detach(th) ==
  /\ Doing(th, "detach")
  /\ vac' = [vac EXCEPT ![Arg(th)].phys = None, ![Arg(th)].linked = FALSE]
  /\ Then(th, <<>>)
  /\ UNCHANGED <<kind, memory, data, task, procs, dev, orphan, copy, cur, app>>

-----------------------------------------------------------------------------
(* The operations of the back ends                                         *)

DevOf(d) == vac[data[d].accel].phys

IfNoRemote(th) ==
  /\ Doing(th, "unless")
  /\ Then(th, IF data[Arg(th)].remote THEN <<>> ELSE Head(todo[th])[3])
  /\ UNCHANGED <<kind, memory, vac, data, task, procs, dev, orphan, copy, cur, app>>

SetPhys(th) ==
  /\ Doing(th, "phys")
  /\ data' = [data EXCEPT ![Arg(th)].phys = DevOf(Arg(th))]
  /\ Then(th, <<>>)
  /\ UNCHANGED <<kind, memory, vac, task, procs, dev, orphan, copy, cur, app>>

arax_accel_size_dec(th) ==
  /\ Doing(th, "charge")
  /\ dev[DevOf(Arg(th))] > 0
  /\ dev' = [dev EXCEPT ![DevOf(Arg(th))] = @ - 1]
  /\ Then(th, <<>>)
  /\ UNCHANGED <<kind, memory, vac, data, task, procs, orphan, copy, cur, app>>

AllocateRemote(th) ==
  /\ Doing(th, "malloc")
  /\ data' = [data EXCEPT ![Arg(th)].remote = TRUE]
  /\ Then(th, <<>>)
  /\ UNCHANGED <<kind, memory, vac, task, procs, dev, orphan, copy, cur, app>>

arax_accel_size_inc(th) ==
  /\ Doing(th, "credit")
  /\ dev' = [dev EXCEPT ![Arg(th).phys] = @ + 1]
  /\ Then(th, <<>>)
  /\ UNCHANGED <<kind, memory, vac, data, task, procs, orphan, copy, cur, app>>

Step(th) ==
  \/ arax_object_ref_inc(th) \/ arax_object_ref_dec(th) \/ Free(th) \/ arax_vaccel_init(th)
  \/ arax_data_init(th) \/ arax_task_alloc(th) \/ SetAccel(th) \/ SetOther(th) \/ arax_data_migrate_accel(th)
  \/ arax_task_submit(th) \/ arax_task_wait(th) \/ arax_task_free(th) \/ KeepTask(th)
  \/ arax_task_mark_done(th) \/ UseProc(th) \/ Detach(th) \/ IfNoRemote(th) \/ SetPhys(th)
  \/ arax_accel_size_dec(th) \/ AllocateRemote(th) \/ arax_accel_size_inc(th)

-----------------------------------------------------------------------------
(* The application: calls of include/arax.h and core/arax_data.h           *)

Call(ops) ==
  /\ todo[App] = <<>>
  /\ calls < MaxCalls
  /\ calls' = calls + 1
  /\ todo' = [todo EXCEPT ![App] = ops]
  /\ UNCHANGED <<kind, memory, vac, data, task, procs, dev, orphan, copy>>

Calls(ops) == Call(ops) /\ UNCHANGED <<cur, handles>>
Drops(o) == Call(<<Dec(o)>>) /\ handles' = handles \ {o} /\ UNCHANGED cur

MyVacs == handles \cap Vacs
MyData == handles \cap Datas
Outstanding(d) == \E t \in Tasks \cap live : \E i \in DOMAIN task[t].io : task[t].io[i] = d

\* The application moves data to another accelerator only when no task uses
\* them, and only between accelerators of one device: arax_data_migrate_accel
\* asserts that.
CanUse(d, v) ==
  IF data[d].accel \in {None, v} THEN TRUE
  ELSE ~Outstanding(d) /\ vac[v].phys # None /\ vac[data[d].accel].phys = vac[v].phys

arax_accel_acquire_type == Calls(<<<<"regvac", None>>>>)
arax_accel_acquire_phys(a) == Calls(<<<<"regvac", a>>>>)

\* Unless Early, the balancer has assigned what is released.
arax_accel_release(v) == (Early \/ vac[v].phys # None) /\ Drops(v)

ARAX_BUFFER == Calls(<<<<"regdata">>>>)
arax_data_free(d) == Drops(d)
SetData(d, v) == data[d].accel \in {None, v} /\ Calls(arax_data_set(d, v))
AllocateData(d, v) ==
  /\ kind # "CPU" /\ ~data[d].remote /\ CanUse(d, v)
  /\ Calls(arax_data_allocate_remote(d, v))
GetData(d) == data[d].accel # None /\ Calls(arax_data_get(d))

\* arax_data_set_remote: memory of the application's on the device.
arax_data_set_remote(d, v) ==
  /\ kind # "CPU"
  /\ data[d].accel = None
  /\ Calls(<<<<"inc", v>>, <<"accel", d, v>>, <<"other", d>>>>)

\* It walks all pairs under the comment "Check duplicates" and compares none.
check_semantics(io) == \A i \in DOMAIN io : io[i] \in Datas \cap live

\* arax_task_issue of a procedure of a library, with inputs that an earlier call
\* has given a value; arax_task_wait and arax_task_free of the handle come later.
Issue(v, ins, outs) ==
  /\ check_semantics(ins \o outs)
  /\ \A i \in DOMAIN ins : data[ins[i]].accel # None
  /\ \A i \in DOMAIN (ins \o outs) : CanUse((ins \o outs)[i], v)
  /\ Calls(arax_task_issue(v, "kernel", ins, outs, TRUE, None) \o <<<<"keep">>>>)

WaitAndFree(t) ==
  /\ Call(arax_task_wait_free)
  /\ handles' = handles \ {t}
  /\ cur' = [cur EXCEPT ![App] = t]

\* arax_task_issue_sync of a built-in.  opencl_memset, and memcpy that is not
\* to be waited for, free the task themselves.  An application that waits for
\* one and frees it, as it must on the other devices, frees it twice, or waits
\* on what is free: such an application is left out.
Builtin(v, p, ins, outs, sync) ==
  /\ check_semantics(ins \o outs)
  /\ \A i \in DOMAIN (ins \o outs) : CanUse((ins \o outs)[i], v)
  /\ Calls(arax_task_issue(v, p, ins, outs, sync, None)
             \o (IF Frees(kind, [proc |-> p, sync |-> sync]) THEN <<>> ELSE arax_task_wait_free))

\* arax_accel_list and arax_accel_list_free: a reference to each virtual
\* accelerator in the list, taken under the lock that arax_object_ref_dec holds
\* when it takes one out.
arax_accel_list ==
  LET listed == {v \in (Vacs \cup FreeVaqs) \cap live : ref[v] > 0}
  IN  /\ todo[App] = <<>>
      /\ calls < MaxCalls
      /\ calls' = calls + 1
      /\ ref' = [o \in Objects |-> IF o \in listed THEN ref[o] + 1 ELSE ref[o]]
      /\ todo' = [todo EXCEPT ![App] = SetToSeq({Dec(v) : v \in listed})]
      /\ UNCHANGED <<kind, live, pipe, vac, data, task, procs, dev, orphan, copy, cur, handles>>

Application ==
  \/ arax_accel_acquire_type \/ ARAX_BUFFER \/ arax_accel_list
  \/ \E a \in Accels : arax_accel_acquire_phys(a)
  \/ \E v \in MyVacs :
       \/ arax_accel_release(v)
       \/ Builtin(v, "init_phys", <<>>, <<>>, TRUE)
       \/ \E d \in MyData :
            \/ SetData(d, v) \/ AllocateData(d, v) \/ arax_data_set_remote(d, v)
            \/ Issue(v, <<>>, <<d>>) \/ Issue(v, <<d>>, <<>>)
            \/ Builtin(v, "memset", <<>>, <<d>>, TRUE)
            \/ \E e \in MyData, sync \in BOOLEAN :
                 /\ ~(kind = "GPU" /\ ~sync)
                 /\ Builtin(v, "memcpy", <<d>>, <<e>>, sync)
  \/ \E d \in MyData : arax_data_free(d) \/ GetData(d)
  \/ \E t \in handles \cap Tasks : WaitAndFree(t)

-----------------------------------------------------------------------------
(* The controller: the balancer and the workers                            *)

PopOrphan(v) ==
  /\ orphan = None
  /\ vac[v].linked
  /\ orphan' = v
  /\ vac' = [vac EXCEPT ![v].linked = FALSE]
  /\ UNCHANGED <<kind, memory, data, task, procs, dev, copy, thread, app>>

AssignOrphan(a) ==
  /\ orphan # None
  /\ vac' = [vac EXCEPT ![orphan].phys = a]
  /\ orphan' = None
  /\ UNCHANGED <<kind, memory, data, task, procs, dev, copy, thread, app>>

Assigned(a) == {v \in Vacs \cup FreeVaqs : vac[v].phys = a}
Waiting(S) == {v \in S : vac[v].queue # <<>>}

\* updateVirtAccels: woken by a task, the worker copies the list.
updateVirtAccels(a) ==
  /\ todo[a] = <<>>
  /\ copy[a] = {}
  /\ Waiting(Assigned(a)) # {}
  /\ copy' = [copy EXCEPT ![a] = Assigned(a)]
  /\ UNCHANGED <<kind, memory, vac, data, task, procs, dev, orphan, thread, app>>

\* Mutant of Serve: the worker takes no reference of its own.
MutServeNoRef(a, t) ==
  FlattenSeq([i \in 1 .. Len(task[t].io) - task[t].ins |->
                alloc_remote(kind, task[t].io[task[t].ins + i])])
    \o executeOperation(kind, t, task[t])

\* What workFunc does with a task.
Serve(a, t) ==
  <<<<"inc", t>>>>
    \o FlattenSeq([i \in 1 .. Len(task[t].io) - task[t].ins |->
                     alloc_remote(kind, task[t].io[task[t].ins + i])])
    \o executeOperation(kind, t, task[t])
    \o <<Dec(t)>>

\* selectTask pops from any queue of the copy (module Dispatch has the order).
selectTask(a) ==
  /\ \E v \in Waiting(copy[a]) :
       /\ vac' = [vac EXCEPT ![v].queue = Tail(@)]
       /\ todo' = [todo EXCEPT ![a] = Serve(a, Head(vac[v].queue))]
  /\ copy' = [copy EXCEPT ![a] = {}]
  /\ UNCHANGED <<kind, memory, data, task, procs, dev, orphan, cur, app>>

Balancer == (\E v \in Vacs : PopOrphan(v)) \/ \E a \in Accels : AssignOrphan(a)
Worker(a) == updateVirtAccels(a) \/ selectTask(a)
Steps == \E th \in Threads : Step(th)

Next == Application \/ Steps \/ Balancer \/ \E a \in Accels : Worker(a)

\* Every thread that can go on does: each is a thread of its process.
Fairness ==
  /\ \A th \in Threads : WF_vars(Step(th))
  /\ WF_vars(Balancer)
  /\ \A a \in Accels : WF_vars(Worker(a))

Spec == Init /\ [][Next]_vars /\ Fairness

-----------------------------------------------------------------------------
TypeOK ==
  /\ kind \in Kinds
  /\ ref \in [Objects -> Nat]
  /\ live \subseteq Objects
  /\ pipe \in 0 .. PipeSize
  /\ dev \in [Accels -> 0 .. DevSize]
  /\ orphan \in Vacs \cup {None}
  /\ handles \subseteq Objects
  /\ calls \in 0 .. MaxCalls

Count(S) == Cardinality(S)
One(b) == IF b THEN 1 ELSE 0
Quiet == \A th \in Threads : todo[th] = <<>>
Queued(t) == \E v \in Vacs \cup FreeVaqs : Contains(vac[v].queue, t)

Holders(o) ==
  CASE o \in Tasks -> One(o \in handles) + One(Queued(o) /\ Frees(kind, task[o]))
    [] o \in Datas -> One(o \in handles)
         + Count({x \in (Tasks \cap live) \X {1, 2} :
                    x[2] \in DOMAIN task[x[1]].io /\ task[x[1]].io[x[2]] = o})
    [] OTHER -> One(o \in handles \cup FreeVaqs)
         + Count({t \in Tasks \cap live : task[t].accel = o})
         + Count({d \in Datas \cap live : data[d].accel = o})

(* Reference counts are exact: between calls, the count of every object is *)
(* the number of those that hold it - the application's handles, the tasks *)
(* that name a data or an accelerator, the data placed on an accelerator,  *)
(* and the queued tasks whose functor will drop the issuer's reference.    *)
(* An extra reference leaks the object, a missing one frees it in use.     *)
RefsExact ==
  Quiet => /\ \A o \in live : ref[o] = Holders(o) /\ ref[o] > 0
           /\ Count(live) - Count(FreeVaqs) = PipeSize - pipe

(* Nothing in use is freed, whatever the interleaving: what a handle, the  *)
(* balancer, a queue, a referenced task or a referenced data points to is  *)
(* allocated, and so is every object that a thread is about to count down. *)
NoDangling ==
  /\ handles \cup ({orphan} \ {None}) \subseteq live
  /\ \A v \in Vacs \cup FreeVaqs : \A i \in DOMAIN vac[v].queue :
       vac[v].queue[i] \in live /\ ref[vac[v].queue[i]] > 0
  /\ \A t \in Tasks \cap live : ref[t] > 0 =>
       task[t].accel \in live /\ \A i \in DOMAIN task[t].io : task[t].io[i] \in live
  /\ \A th \in Threads : Doing(th, "dec") => ref[Arg(th)] > 0
  /\ \A a \in Accels : Doing(a, "charge") \/ Doing(a, "phys") =>
       data[Arg(a)].accel \in live /\ DevOf(Arg(a)) # None

(* The worker's copy of its list has no references: a virtual accelerator  *)
(* may be released between the copy and the look at its queue.  This does  *)
(* not hold.                                                               *)
CopiesLive == \A a \in Accels : copy[a] \subseteq live

(* Device memory is paid for while it is held, and no longer: between      *)
(* calls, what the throttles of the devices have handed out is what is     *)
(* allocated there - data with a remote of Arax's, and remotes whose free  *)
(* task has not run yet - and one more for every arax_data_allocate_remote *)
(* (which holds a count of its procedure): its charge after the worker's   *)
(* is never given back (arax_data.c:207).                                  *)
DeviceCharged ==
  Quiet /\ kind # "CPU" =>
    Count(Accels) * DevSize - FoldFunction(+, 0, dev) =
      Count({d \in Datas \cap live : data[d].remote /\ ~data[d].other})
        + Count({t \in Tasks \cap live : task[t].proc = "free"})
        + procs["alloc_data"] - 1

(* "Wait for an issued task to complete or fail" (arax.h:213):             *)
(* arax_task_wait returns.                                                 *)
WaitReturns == Doing(App, "wait") ~> ~Doing(App, "wait")

=============================================================================
