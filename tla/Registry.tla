------------------------------ MODULE Registry ------------------------------
(***************************************************************************)
(* The object repository of arax_object.c as several threads use it: the   *)
(* lists of physical accelerators, virtual accelerators and procedures,    *)
(* each with its lock, walked by the lookups of arax_pipe.c and impl.c     *)
(* while objects come and go.                                              *)
(*                                                                         *)
(* A thread runs a stack of operations, one per step, as in Lifetime.      *)
(* Procedures are registered by the controller, which loads its libraries  *)
(* one after the other and keeps what it registered; applications get and  *)
(* put them.  The array that arax_accel_list is given is of the kind that  *)
(* is asked for.                                                           *)
(***************************************************************************)
EXTENDS Integers, FiniteSets, FiniteSetsExt, SequencesExt

CONSTANTS
  Ctl, Apps,                      \* threads
  PhysObjs, VirtObjs, ProcObjs,   \* addresses
  Names, Functors,                \* of procedures; a functor per accelerator type
  Null,
  RegMaxCalls                     \* bound: calls of the threads

RegThreads == {Ctl} \cup Apps
RegTypes == {"PHYS", "VIRT", "PROC"}
RegObjects == PhysObjs \cup VirtObjs \cup ProcObjs
TypeOf(o) == IF o \in PhysObjs THEN "PHYS" ELSE IF o \in VirtObjs THEN "VIRT" ELSE "PROC"

VARIABLES
  rlock,      \* the owner of repo[type].lock
  list,       \* repo[type].list
  refs,       \* ref_count
  alive,      \* addresses that are allocated
  name,       \* obj.name of the procedures
  functors,   \* the functors of the procedures; any, until the memory is cleared
  free_vaq,   \* of the physical accelerators
  rtodo,      \* what each thread is about to do
  held,       \* references that it has
  array,      \* the array of its last arax_accel_list
  loaded,     \* history: functors that were set, of each name
  rcalls

rvars == <<rlock, list, refs, alive, name, functors, free_vaq, rtodo, held, array, loaded, rcalls>>
body == <<name, functors, free_vaq, loaded>>

\* After arax_object_repo_init the controller has registered one accelerator.
RegInit ==
  LET p == CHOOSE o \in PhysObjs : TRUE
      v == CHOOSE o \in VirtObjs : TRUE
  IN  /\ rlock = [ty \in RegTypes |-> Null]
      /\ list = [PHYS |-> <<p>>, VIRT |-> <<v>>, PROC |-> <<>>]
      /\ refs = [o \in RegObjects |-> IF o \in {p, v} THEN 1 ELSE 0]
      /\ alive = {p, v}
      /\ name = [o \in ProcObjs |-> Null]
      /\ functors = [o \in ProcObjs |-> {}]
      /\ free_vaq = [o \in PhysObjs |-> IF o = p THEN v ELSE Null]
      /\ rtodo = [t \in RegThreads |-> <<>>]
      /\ held = [t \in RegThreads |-> IF t = Ctl THEN <<p>> ELSE <<>>]
      /\ array = [t \in RegThreads |-> [of |-> "PHYS", objs |-> <<>>]]
      /\ loaded = [n \in Names |-> {}]
      /\ rcalls = 0

RDoing(t, op) == rtodo[t] # <<>> /\ Head(rtodo[t])[1] = op
RArg(t) == Head(rtodo[t])[2]
RThen(t, ops) == rtodo' = [rtodo EXCEPT ![t] = ops \o Tail(@)]

Without(s, o) == RemoveFirst(s, o)
RDrops(s) == [i \in DOMAIN s |-> <<"dec", s[i]>>]

-----------------------------------------------------------------------------
\* Bound: there is an address for what is to be added, besides what others add.
Room(ty) ==
  LET adds == {t \in RegThreads : \E i \in DOMAIN rtodo[t] : rtodo[t][i][1] = "add" /\ rtodo[t][i][2] = ty}
  IN  Cardinality({o \in alive : TypeOf(o) = ty}) + Cardinality(adds)
        < Cardinality({o \in RegObjects : TypeOf(o) = ty})

\* One call of an idle thread.
CtlCall ==
  \/ \E n \in Names, f \in Functors :
       rtodo' = [rtodo EXCEPT ![Ctl] = <<<<"register", n>>, <<"functor", n, f>>>>] /\ UNCHANGED <<held, array>>
  \/ /\ Room("PHYS") /\ Room("VIRT")
     /\ rtodo' = [rtodo EXCEPT ![Ctl] = <<<<"add", "PHYS">>, <<"add", "VIRT">>, <<"vaq">>>>]
     /\ UNCHANGED <<held, array>>
  \/ \E i \in DOMAIN held[Ctl], op \in {"dec", "delete"} :
       /\ held[Ctl][i] \in PhysObjs
       /\ rtodo' = [rtodo EXCEPT ![Ctl] = <<<<op, held[Ctl][i]>>>>]
       /\ held' = [held EXCEPT ![Ctl] = Without(@, held[Ctl][i])]
       /\ UNCHANGED array

AppCall(t) ==
  \/ \E n \in Names : rtodo' = [rtodo EXCEPT ![t] = <<<<"get", n>>>>] /\ UNCHANGED <<held, array>>
  \/ Room("VIRT") /\ rtodo' = [rtodo EXCEPT ![t] = <<<<"add", "VIRT">>>>] /\ UNCHANGED <<held, array>>
  \/ \E i \in DOMAIN held[t] :
       /\ rtodo' = [rtodo EXCEPT ![t] = <<<<"dec", held[t][i]>>>>]
       /\ held' = [held EXCEPT ![t] = Without(@, held[t][i])]
       /\ UNCHANGED array
  \/ \E ty \in {"PHYS", "VIRT"} :
       /\ array[t].objs = <<>> \/ array[t].of = ty
       /\ rtodo' = [rtodo EXCEPT ![t] = <<<<"list", ty>>>>]
       /\ UNCHANGED <<held, array>>
  \/ /\ array[t].objs # <<>>
     /\ rtodo' = [rtodo EXCEPT ![t] = RDrops(array[t].objs)]
     /\ array' = [array EXCEPT ![t].objs = <<>>]
     /\ UNCHANGED held

RegCall(t) ==
  /\ rtodo[t] = <<>>
  /\ rcalls < RegMaxCalls
  /\ rcalls' = rcalls + 1
  /\ IF t = Ctl THEN CtlCall ELSE AppCall(t)
  /\ UNCHANGED <<rlock, list, refs, alive, body>>

-----------------------------------------------------------------------------
(* Registering *)

\* The memory of a new object is cleared after others can find it.
arax_object_register(t) ==
  /\ RDoing(t, "add")
  /\ rlock[RArg(t)] = Null
  /\ \E o \in RegObjects \ alive :
       /\ TypeOf(o) = RArg(t)
       /\ alive' = alive \cup {o}
       /\ refs' = [refs EXCEPT ![o] = 1]
       /\ list' = [list EXCEPT ![RArg(t)] = <<o>> \o @]
       /\ held' = [held EXCEPT ![t] = Append(@, o)]
       /\ IF o \in ProcObjs
            THEN /\ name' = [name EXCEPT ![o] = Head(rtodo[t])[3]]
                 /\ \E garbage \in {{}, Functors} : functors' = [functors EXCEPT ![o] = garbage]
                 /\ RThen(t, <<<<"clear", o>>>>)
            ELSE RThen(t, <<>>) /\ UNCHANGED <<name, functors>>
  /\ UNCHANGED <<rlock, free_vaq, array, loaded, rcalls>>

\* memset(obj + 1, 0, ...)
ClearMemory(t) ==
  /\ RDoing(t, "clear")
  /\ functors' = [functors EXCEPT ![RArg(t)] = {}]
  /\ RThen(t, <<>>)
  /\ UNCHANGED <<rlock, list, refs, alive, name, free_vaq, held, array, loaded, rcalls>>

\* The end of arax_accel_init: the accelerator owns its free_vaq.
SetFreeVaq(t) ==
  /\ RDoing(t, "vaq")
  /\ LET h == held[t]
     IN  /\ free_vaq' = [free_vaq EXCEPT ![h[Len(h) - 1]] = h[Len(h)]]
         /\ held' = [held EXCEPT ![t] = Front(@)]
  /\ RThen(t, <<>>)
  /\ UNCHANGED <<rlock, list, refs, alive, name, functors, array, loaded, rcalls>>

-----------------------------------------------------------------------------
(* Looking up *)

\* The first of that name, or Null.
arax_pipe_find_proc(n) ==
  LET found == SelectSeq(list["PROC"], LAMBDA o : name[o] = n)
  IN  IF found = <<>> THEN Null ELSE Head(found)

arax_proc_register(t) ==
  /\ RDoing(t, "register")
  /\ rlock["PROC"] = Null
  /\ RThen(t, IF arax_pipe_find_proc(RArg(t)) = Null THEN <<<<"add", "PROC", RArg(t)>>>> ELSE <<>>)
  /\ UNCHANGED <<rlock, list, refs, alive, body, held, array, rcalls>>

\* Of what arax_proc_register returned: the newest of that name.
arax_proc_set_functor(t) ==
  /\ RDoing(t, "functor")
  /\ LET o == arax_pipe_find_proc(RArg(t))
     IN  functors' = [functors EXCEPT ![o] = @ \cup {Head(rtodo[t])[3]}]
  /\ loaded' = [loaded EXCEPT ![RArg(t)] = @ \cup {Head(rtodo[t])[3]}]
  /\ RThen(t, <<>>)
  /\ UNCHANGED <<rlock, list, refs, alive, name, free_vaq, held, array, rcalls>>

\* The lock is given up before the reference is taken.
arax_proc_get(t) ==
  /\ RDoing(t, "get")
  /\ rlock["PROC"] = Null
  /\ LET o == arax_pipe_find_proc(RArg(t))
     IN  RThen(t, IF o = Null THEN <<>> ELSE <<<<"inc", o>>>>)
  /\ UNCHANGED <<rlock, list, refs, alive, body, held, array, rcalls>>

\* arax_object_ref_inc, of what was found.
RepoRefInc(t) ==
  /\ RDoing(t, "inc")
  /\ refs' = [refs EXCEPT ![RArg(t)] = @ + 1]
  /\ held' = [held EXCEPT ![t] = Append(@, RArg(t))]
  /\ RThen(t, <<>>)
  /\ UNCHANGED <<rlock, list, alive, body, array, rcalls>>

\* Found in the list, with the lock; released without it.
arax_pipe_delete_accel(t) ==
  /\ RDoing(t, "delete")
  /\ rlock["PHYS"] = Null
  /\ RThen(t, IF \E i \in DOMAIN list["PHYS"] : list["PHYS"][i] = RArg(t)
                THEN <<<<"dec", RArg(t)>>>> ELSE <<>>)
  /\ UNCHANGED <<rlock, list, refs, alive, body, held, array, rcalls>>

-----------------------------------------------------------------------------
(* Dropping references *)

\* arax_object_ref_dec.
RepoRefDec(t) ==
  /\ RDoing(t, "dec")
  /\ LET o == RArg(t)
     IN  /\ rlock[TypeOf(o)] = Null
         /\ refs' = [refs EXCEPT ![o] = @ - 1]
         /\ IF refs[o] = 1
              THEN RThen(t, <<<<"unlink", o>>>>) /\ rlock' = [rlock EXCEPT ![TypeOf(o)] = t]
              ELSE RThen(t, <<>>) /\ UNCHANGED rlock
  /\ UNCHANGED <<list, alive, body, held, array, rcalls>>

Unlink(o) == list' = [list EXCEPT ![TypeOf(o)] = Without(@, o)]

\* Unless somebody changed the count, which does not save the object.
UnlinkUnused(t) ==
  /\ RDoing(t, "unlink")
  /\ IF refs[RArg(t)] = 0 THEN Unlink(RArg(t)) ELSE UNCHANGED list
  /\ rlock' = [rlock EXCEPT ![TypeOf(RArg(t))] = Null]
  /\ RThen(t, <<<<"destroy", RArg(t)>>>>)
  /\ UNCHANGED <<refs, alive, body, held, array, rcalls>>

\* __dtor_arax_accel_s releases the free_vaq.  Lifetime has the other destructors.
Destructor(o) == IF o \in PhysObjs /\ free_vaq[o] # Null THEN <<<<"dec", free_vaq[o]>>>> ELSE <<>>

\* The destructor, then arch_alloc_free.
DestroyObject(t) ==
  /\ RDoing(t, "destroy")
  /\ RThen(t, Destructor(RArg(t)) \o <<<<"free", RArg(t)>>>>)
  /\ free_vaq' = IF RArg(t) \in PhysObjs THEN [free_vaq EXCEPT ![RArg(t)] = Null] ELSE free_vaq
  /\ UNCHANGED <<rlock, list, refs, alive, name, functors, held, array, loaded, rcalls>>

FreeObject(t) ==
  /\ RDoing(t, "free")
  /\ alive' = alive \ {RArg(t)}
  /\ RThen(t, <<>>)
  /\ UNCHANGED <<rlock, list, refs, body, held, array, rcalls>>

-----------------------------------------------------------------------------
(* arax_accel_list: the array it is given is dropped, with the lock held   *)

PreLocked(s) == [i \in DOMAIN s |-> <<"drop", s[i]>>]

\* Up to the walk of the list.
RepoAccelList(t) ==
  /\ RDoing(t, "list")
  /\ rlock[RArg(t)] = Null
  /\ rlock' = [rlock EXCEPT ![RArg(t)] = t]
  /\ RThen(t, PreLocked(array[t].objs) \o <<<<"fill", RArg(t)>>>>)
  /\ array' = [array EXCEPT ![t] = [of |-> RArg(t), objs |-> <<>>]]
  /\ UNCHANGED <<list, refs, alive, body, held, rcalls>>

\* Mutant of arax_object_ref_dec_pre_locked: it is arax_object_ref_dec.
MutDropLocks(t) ==
  /\ RDoing(t, "drop")
  /\ RThen(t, <<<<"dec", RArg(t)>>>>)
  /\ UNCHANGED <<rlock, list, refs, alive, body, held, array, rcalls>>

\* The destructor runs with the lock.
arax_object_ref_dec_pre_locked(t) ==
  /\ RDoing(t, "drop")
  /\ refs' = [refs EXCEPT ![RArg(t)] = @ - 1]
  /\ IF refs[RArg(t)] = 1
       THEN Unlink(RArg(t)) /\ RThen(t, <<<<"destroy", RArg(t)>>>>)
       ELSE RThen(t, <<>>) /\ UNCHANGED list
  /\ UNCHANGED <<rlock, alive, body, held, array, rcalls>>

\* References are taken before the lock is given up.  Of accelerators of every type.
FillArray(t) ==
  /\ RDoing(t, "fill")
  /\ array' = [array EXCEPT ![t] = [of |-> RArg(t), objs |-> list[RArg(t)]]]
  /\ refs' = [o \in RegObjects |-> IF Contains(list[RArg(t)], o) THEN refs[o] + 1 ELSE refs[o]]
  /\ rlock' = [rlock EXCEPT ![RArg(t)] = Null]
  /\ RThen(t, <<>>)
  /\ UNCHANGED <<list, alive, body, held, rcalls>>

-----------------------------------------------------------------------------
RegStep(t) ==
  \/ arax_object_register(t) \/ ClearMemory(t) \/ SetFreeVaq(t)
  \/ arax_proc_register(t) \/ arax_proc_set_functor(t) \/ arax_proc_get(t)
  \/ RepoRefInc(t) \/ arax_pipe_delete_accel(t)
  \/ RepoRefDec(t) \/ UnlinkUnused(t) \/ DestroyObject(t) \/ FreeObject(t)
  \/ RepoAccelList(t) \/ arax_object_ref_dec_pre_locked(t) \/ FillArray(t)

RegNext == \E t \in RegThreads : RegCall(t) \/ RegStep(t)

RegSpec == RegInit /\ [][RegNext]_rvars

-----------------------------------------------------------------------------
Times(s, o) == Len(SelectSeq(s, LAMBDA x : x = o))

\* References to o that a thread, or a physical accelerator, has and will drop.
ReferencesTo(o) ==
  LET of(t) == Times(held[t], o) + Times(array[t].objs, o)
                 + Len(SelectSeq(rtodo[t], LAMBDA op : op[1] \in {"dec", "drop", "delete"} /\ op[2] = o))
      owners == {p \in PhysObjs : p \in alive /\ free_vaq[p] = o}
  IN  Cardinality(owners) + MapThenSumSet(of, RegThreads)

(* The count of every object is the number of references that threads,     *)
(* arrays and accelerators have to it, while lists of accelerators are     *)
(* taken, freed and taken again and the accelerators in them are released. *)
RepositoryExact == \A o \in alive : refs[o] = ReferencesTo(o)

(* What a walk of a list can find, and what a thread has found or listed,  *)
(* has not been freed, although its owner may release it at any time.      *)
FoundAlive ==
  /\ \A ty \in RegTypes : ToSet(list[ty]) \subseteq {o \in alive : refs[o] > 0 \/ rlock[ty] # Null}
  /\ \A t \in RegThreads :
       /\ ToSet(held[t]) \cup ToSet(array[t].objs) \subseteq alive
       /\ \A i \in DOMAIN rtodo[t] : rtodo[t][i][1] \in {"inc", "dec", "drop", "delete"} =>
            rtodo[t][i][2] \in alive

(* A procedure has one object, whichever library defines it first: what    *)
(* applications find by its name has every functor that was set for it.    *)
FunctorsFound ==
  \A n \in Names : loaded[n] # {} =>
    arax_pipe_find_proc(n) # Null /\ loaded[n] \subseteq functors[arax_pipe_find_proc(n)]

\* The lock that the next operation of a thread waits for, if any.
Needs(t) ==
  CASE Head(rtodo[t])[1] \in {"add", "list"} -> {RArg(t)}
    [] Head(rtodo[t])[1] \in {"register", "get"} -> {"PROC"}
    [] Head(rtodo[t])[1] = "delete" -> {"PHYS"}
    [] Head(rtodo[t])[1] = "dec" -> {TypeOf(RArg(t))}
    [] OTHER -> {}

(* Threads do not wait for each other's locks for ever, nor for one they   *)
(* have: the locks of two lists are taken in one order only, and what runs *)
(* with a lock held does not ask for it again.                             *)
NobodyStuck ==
  LET busy == {t \in RegThreads : rtodo[t] # <<>>}
  IN  busy # {} => \E t \in busy : \A ty \in Needs(t) : rlock[ty] = Null

-----------------------------------------------------------------------------
(* For the proofs. *)

RegAssumption ==
  /\ PhysObjs # {} /\ VirtObjs # {}
  /\ PhysObjs \cap VirtObjs = {} /\ ProcObjs \cap (PhysObjs \cup VirtObjs) = {}
  /\ Null \notin RegThreads

IsSeq(s) == Len(s) \in Nat /\ s = [i \in 1 .. Len(s) |-> s[i]]

\* Lists and arrays are of objects of one type, and accelerators own VAQs.
ListsTyped ==
  /\ list = [ty \in RegTypes |-> list[ty]]
  /\ \A ty \in RegTypes :
       IsSeq(list[ty]) /\ \A i \in 1 .. Len(list[ty]) : TypeOf(list[ty][i]) = ty
VaqsTyped ==
  /\ free_vaq = [o \in PhysObjs |-> free_vaq[o]]
  /\ \A o \in PhysObjs : free_vaq[o] # Null => TypeOf(free_vaq[o]) = "VIRT"
HeldTyped == held = [t \in RegThreads |-> held[t]] /\ \A t \in RegThreads : IsSeq(held[t])
ArraysTyped ==
  /\ array = [t \in RegThreads |-> [of |-> array[t].of, objs |-> array[t].objs]]
  /\ \A t \in RegThreads : LET objs == array[t].objs
                           IN  IsSeq(objs) /\ \A i \in 1 .. Len(objs) : TypeOf(objs[i]) = array[t].of
RegTyped ==
  /\ rlock = [ty \in RegTypes |-> rlock[ty]] /\ rtodo = [t \in RegThreads |-> rtodo[t]]
  /\ ListsTyped /\ VaqsTyped /\ HeldTyped /\ ArraysTyped

\* What a thread may do before the lock of type ty, which arax_accel_list took, is
\* given up: objects of that type die, and with physical accelerators their VAQs.
Under(op, ty) ==
  \/ op[1] = "free"
  \/ op[1] \in {"drop", "destroy"} /\ TypeOf(op[2]) = ty
  \/ op[1] \in {"dec", "unlink", "destroy"} /\ ty = "PHYS" /\ TypeOf(op[2]) = "VIRT"

Adds(op, ty) == op[1] = "add" /\ op[2] = ty

\* The thread is to give its newest accelerator, which it is still to make or
\* has made, its free_vaq.
Vaq(t) ==
  LET s == rtodo[t] h == held[t]
  IN  \/ Len(s) = 1 /\ Len(h) > 0 /\ TypeOf(h[Len(h)]) = "VIRT"
      \/ Len(s) = 2 /\ Adds(s[1], "VIRT")
      \/ Len(s) = 3 /\ Adds(s[1], "PHYS") /\ Adds(s[2], "VIRT")

StackOK(t) ==
  LET s == rtodo[t]
  IN  /\ IsSeq(s)
      /\ \A i \in 1 .. Len(s) :
           /\ s[i][1] = "unlink" => i = 1
           /\ s[i][1] = "add" => s[i][2] \in RegTypes
           /\ s[i][1] = "vaq" => i = Len(s) /\ Vaq(t)
           /\ s[i][1] = "list" => /\ Len(s) = 1 /\ s[i][2] \in {"PHYS", "VIRT"}
                                  /\ array[t].objs = <<>> \/ array[t].of = s[i][2]
           /\ s[i][1] = "fill" => /\ i = Len(s) /\ s[i][2] \in {"PHYS", "VIRT"}
                                  /\ \A j \in 1 .. i - 1 : Under(s[j], s[i][2])

\* Who has a lock is about to give it up, or in arax_accel_list.
Holds(t, ty) ==
  LET s == rtodo[t]
  IN  /\ Len(s) > 0
      /\ \/ s[1][1] = "unlink" /\ TypeOf(s[1][2]) = ty
         \/ s[Len(s)][1] = "fill" /\ s[Len(s)][2] = ty

LocksOK ==
  \A ty \in RegTypes : rlock[ty] # Null => rlock[ty] \in RegThreads /\ Holds(rlock[ty], ty)

RegInv == RegTyped /\ LocksOK /\ \A t \in RegThreads : StackOK(t)
=============================================================================
