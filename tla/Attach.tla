------------------------------- MODULE Attach -------------------------------
(***************************************************************************)
(* How processes and their threads attach to the shared segment and leave  *)
(* it: _arax_init and arax_exit (src/arch/shm/impl.c), arax_pipe_init,     *)
(* arax_pipe_exit and the map of processes (src/core/arax_pipe.c), and the *)
(* hand-shake by which applications wait for the controller.               *)
(*                                                                         *)
(* Removing the shm file leaves the segment to those who have it mapped;   *)
(* the next one to open the name gets a new, zeroed segment.  Segments are *)
(* numbered; 0 is the null pointer.  Of arax_pipe_init only what is        *)
(* published first (sha[0]) and the rest (lists, conditions, allocator)    *)
(* are told apart.  The failures of open, of mmap and of the set-up, which *)
(* end the process, and the address of the mapping are left out.           *)
(***************************************************************************)
EXTENDS Integers, FiniteSets

CONSTANTS
  Threads, Processes,
  Proc,          \* Proc[t]: the process of thread t
  Controller,    \* the thread of the controller, alone in its process
  MaxCalls,      \* bound: arax_init calls of each application thread
  MaxSegments,   \* bound: segments
  Leavers,       \* threads that call arax_exit
  Revisions,     \* what ARAX_GIT_REV may be
  Builds,        \* the revisions that processes may be of
  NoRev,         \* no revision: sha[0] is not set
  MapSize,       \* ARAX_PROC_MAP_SIZE
  CellBytes,     \* sizeof(uint64_t)
  PidBytes,      \* bytes of a pid that are not zero
  NoPid, Mixed   \* an unused cell; a cell with bytes of two pids

ASSUME AttachAssumption ==
  /\ Proc \in [Threads -> Processes]
  /\ Controller \in Threads
  /\ \A t \in Threads : Proc[t] = Proc[Controller] => t = Controller
  /\ {MaxCalls, MaxSegments, MapSize, CellBytes, PidBytes} \subseteq Nat \ {0}
  /\ PidBytes <= CellBytes
  /\ Leavers \subseteq Threads
  /\ {NoPid, Mixed} \cap Processes = {} /\ NoPid # Mixed

ASSUME BuildAssumption ==
  /\ Builds \subseteq [Processes -> Revisions]
  /\ NoRev \notin Revisions

VARIABLES
  linked,        \* the name of the shm file exists
  segment,       \* and it is this segment
  processes,     \* per segment: pipe->processes
  rev,           \* per process: the revision it was built from
  sha,           \* per segment: pipe->sha
  up,            \* per segment: the rest of the pipe is initialised
  cntrl_ready,   \* per segment
  proc_map,      \* per segment: pids of the processes that mapped it
  threads,       \* per process: arax_state.threads
  initialized,   \* per process: arax_state.initialized
  vpipe,         \* per process: arax_state.vpipe
  pc, calls      \* per thread

segments == <<linked, segment, rev>>
pipe == <<processes, sha, up, cntrl_ready, proc_map>>
state == <<threads, initialized, vpipe>>
vars == <<segments, pipe, state, pc, calls>>

Segments == 1 .. MaxSegments
Cells == 0 .. MapSize - 1

PC == {"out", "spin", "open", "map", "add", "publish", "setup", "sha", "attached", "good",
       "check", "wait", "asleep", "in", "notify", "serve", "null",
       "refused", "del", "destroy", "unmap", "unmaplast", "clean", "aborted"}

TypeOK ==
  /\ linked \in BOOLEAN
  /\ segment \in 0 .. MaxSegments
  /\ processes \in [Segments -> 0 .. Cardinality(Processes)]
  /\ rev \in Builds
  /\ sha \in [Segments -> Revisions \cup {NoRev}]
  /\ up \in [Segments -> BOOLEAN]
  /\ cntrl_ready \in [Segments -> BOOLEAN]
  /\ proc_map \in [Segments -> [Cells -> Processes \cup {NoPid, Mixed}]]
  /\ threads \in [Processes -> 0 .. Cardinality(Threads)]
  /\ initialized \in [Processes -> BOOLEAN]
  /\ vpipe \in [Processes -> 0 .. MaxSegments]
  /\ pc \in [Threads -> PC]
  /\ calls \in [Threads -> 0 .. MaxCalls]

Init ==
  /\ linked = FALSE
  /\ segment = 0
  /\ processes = [g \in Segments |-> 0]
  /\ rev \in Builds
  /\ sha = [g \in Segments |-> NoRev]
  /\ up = [g \in Segments |-> FALSE]
  /\ cntrl_ready = [g \in Segments |-> FALSE]
  /\ proc_map = [g \in Segments |-> [c \in Cells |-> NoPid]]
  /\ threads = [p \in Processes |-> 0]
  /\ initialized = [p \in Processes |-> FALSE]
  /\ vpipe = [p \in Processes |-> 0]
  /\ pc = [t \in Threads |-> "out"]
  /\ calls = [t \in Threads |-> 0]

Goto(t, label) == pc' = [pc EXCEPT ![t] = label]
Seg(t) == vpipe[Proc[t]]

-----------------------------------------------------------------------------
(* arax_pipe.c *)

First(map, values) ==
  LET found == {c \in Cells : map[c] \in values}
  IN  IF found = {} THEN MapSize ELSE CHOOSE c \in found : \A d \in found : c <= d

\* arax_pipe_have_to_mmap: the cell of pid, or else the first unused one.
arax_pipe_have_to_mmap(map, pid) ==
  LET c == First(map, {pid, NoPid})
  IN  IF c < MapSize THEN [map EXCEPT ![c] = pid] ELSE map

(* arax_pipe_mark_unmap moves the cells after c down by one, as many BYTES *)
(* as there are cells left: bytes \div CellBytes whole cells, and of one   *)
(* more the lower bytes, which are all of a pid if there are enough.       *)
arax_pipe_mark_unmap(map, pid) ==
  LET c == First(map, {pid})
      bytes == MapSize - (c + 1)
      last == c + bytes \div CellBytes
      rest == bytes % CellBytes
      Moved(i) ==
        CASE i = MapSize - 1 -> NoPid
          [] i \in c .. last - 1 -> map[i + 1]
          [] i = last /\ rest >= PidBytes -> map[i + 1]
          [] i = last /\ rest \in 1 .. PidBytes - 1 ->
               IF map[i] = map[i + 1] THEN map[i] ELSE Mixed
          [] OTHER -> map[i]
  IN  [i \in Cells |-> Moved(i)]

-----------------------------------------------------------------------------
(* _arax_init *)

Enter(t) ==
  /\ pc[t] = "out"
  /\ calls[t] < (IF t = Controller THEN 1 ELSE MaxCalls)
  /\ calls' = [calls EXCEPT ![t] = @ + 1]
  /\ threads' = [threads EXCEPT ![Proc[t]] = @ + 1]
  /\ Goto(t, IF threads[Proc[t]] = 0 THEN "open" ELSE "spin")
  /\ UNCHANGED <<segments, pipe, initialized, vpipe>>

\* Mutant of Spin: the other threads of a process do not wait for the first.
MutSpinNot(t) ==
  /\ pc[t] = "spin"
  /\ Goto(t, "good")
  /\ UNCHANGED <<segments, pipe, state, calls>>

\* while (!arax_state.initialized);
Spin(t) ==
  /\ pc[t] = "spin"
  /\ initialized[Proc[t]]
  /\ Goto(t, "good")
  /\ UNCHANGED <<segments, pipe, state, calls>>

\* shm_open with O_CREAT, and the first mmap.
OpenShm(t) ==
  /\ pc[t] = "open"
  /\ linked \/ segment < MaxSegments
  /\ segment' = IF linked THEN segment ELSE segment + 1
  /\ linked' = TRUE
  /\ vpipe' = [vpipe EXCEPT ![Proc[t]] = segment']
  /\ Goto(t, "map")
  /\ UNCHANGED <<rev, pipe, threads, initialized, calls>>

HaveToMmap(t) ==
  /\ pc[t] = "map"
  /\ proc_map' = [proc_map EXCEPT ![Seg(t)] = arax_pipe_have_to_mmap(@, Proc[t])]
  /\ Goto(t, "add")
  /\ UNCHANGED <<segments, processes, sha, up, cntrl_ready, state, calls>>

\* Mutant of AddProcess: whoever finds the segment without sha initialises it.
MutAddNoSha(t) ==
  /\ pc[t] = "add"
  /\ processes' = [processes EXCEPT ![Seg(t)] = @ + 1]
  /\ Goto(t, IF sha[Seg(t)] # NoRev THEN "sha" ELSE "publish")
  /\ UNCHANGED <<segments, sha, up, cntrl_ready, proc_map, state, calls>>

\* arax_pipe_add_process: the first initialises, the others wait for sha[0].
AddProcess(t) ==
  /\ pc[t] = "add"
  /\ processes' = [processes EXCEPT ![Seg(t)] = @ + 1]
  /\ Goto(t, IF processes[Seg(t)] = 0 THEN "publish" ELSE "sha")
  /\ UNCHANGED <<segments, sha, up, cntrl_ready, proc_map, state, calls>>

\* while (!pipe->sha[0]); and the revision is the same.
WaitSha(t) ==
  /\ pc[t] = "sha"
  /\ sha[Seg(t)] = rev[Proc[t]]
  /\ Goto(t, "attached")
  /\ UNCHANGED <<segments, pipe, state, calls>>

\* "Arax revision mismatch": arax_pipe_init returns 0, which _arax_init
\* dereferences.  The process ends, but it stays counted and in the map.
Refuse(t) ==
  /\ pc[t] = "sha"
  /\ sha[Seg(t)] \notin {NoRev, rev[Proc[t]]}
  /\ Goto(t, "refused")
  /\ UNCHANGED <<segments, pipe, state, calls>>

PublishSha(t) ==
  /\ pc[t] = "publish"
  /\ sha' = [sha EXCEPT ![Seg(t)] = rev[Proc[t]]]
  /\ Goto(t, "setup")
  /\ UNCHANGED <<segments, processes, up, cntrl_ready, proc_map, state, calls>>

\* The object repository, the allocator, the lists, conditions and throttle.
SetupPipe(t) ==
  /\ pc[t] = "setup"
  /\ up' = [up EXCEPT ![Seg(t)] = TRUE]
  /\ Goto(t, "attached")
  /\ UNCHANGED <<segments, processes, sha, cntrl_ready, proc_map, state, calls>>

\* The rest of _arax_init uses the pipe; then the process is initialised.
Attached(t) ==
  /\ pc[t] = "attached"
  /\ initialized' = [initialized EXCEPT ![Proc[t]] = TRUE]
  /\ Goto(t, "good")
  /\ UNCHANGED <<segments, pipe, threads, vpipe, calls>>

\* GOOD: only applications wait; they dereference vpipe.
Good(t) ==
  /\ pc[t] = "good"
  /\ Goto(t, CASE t = Controller -> "in"
               [] t # Controller /\ Seg(t) = 0 -> "null"
               [] OTHER -> "check")
  /\ UNCHANGED <<segments, pipe, state, calls>>

(* The loop on cntrl_ready.  The waiters hold the condition's mutex from   *)
(* the test to the wait; it only keeps them apart from one another, because*)
(* arax_controller_init_done does not take it.                             *)
CheckReady(t) ==
  /\ pc[t] = "check"
  /\ Goto(t, IF cntrl_ready[Seg(t)] THEN "in" ELSE "wait")
  /\ UNCHANGED <<segments, pipe, state, calls>>

Wait(t) ==
  /\ pc[t] = "wait"
  /\ Goto(t, "asleep")
  /\ UNCHANGED <<segments, pipe, state, calls>>

SpuriousWake(t) ==
  /\ pc[t] = "asleep"
  /\ Goto(t, "check")
  /\ UNCHANGED <<segments, pipe, state, calls>>

\* arax_controller_init_done: the flag, then the notification.
InitDone(t) ==
  /\ t = Controller
  /\ pc[t] = "in"
  /\ cntrl_ready' = [cntrl_ready EXCEPT ![Seg(t)] = TRUE]
  /\ Goto(t, "notify")
  /\ UNCHANGED <<segments, processes, sha, up, proc_map, state, calls>>

InitDoneNotify(t) ==
  /\ pc[t] = "notify"
  /\ pc' = [u \in Threads |->
             IF u = t THEN "serve"
             ELSE IF pc[u] = "asleep" /\ Seg(u) = Seg(t) THEN "check" ELSE pc[u]]
  /\ UNCHANGED <<segments, pipe, state, calls>>

-----------------------------------------------------------------------------
(* arax_exit *)

Leaving(t) == t \in Leavers /\ pc[t] = (IF t = Controller THEN "serve" ELSE "in") /\ Seg(t) # 0

\* The last thread of the process detaches it.
Exit(t) ==
  /\ Leaving(t)
  /\ threads' = [threads EXCEPT ![Proc[t]] = @ - 1]
  /\ Goto(t, IF threads[Proc[t]] = 1 THEN "del" ELSE "out")
  /\ UNCHANGED <<segments, pipe, initialized, vpipe, calls>>

\* Mutant of DelProcess: the last one finds a count of one and leaves it.
MutDelNotLast(t) ==
  /\ pc[t] = "del"
  /\ processes' = [processes EXCEPT ![Seg(t)] = IF @ = 1 THEN @ ELSE @ - 1]
  /\ Goto(t, IF processes[Seg(t)] = 1 THEN "destroy" ELSE "unmap")
  /\ UNCHANGED <<segments, sha, up, cntrl_ready, proc_map, state, calls>>

\* arax_pipe_exit: arax_pipe_del_process returned 1 to the last one.
DelProcess(t) ==
  /\ pc[t] = "del"
  /\ processes' = [processes EXCEPT ![Seg(t)] = @ - 1]
  /\ Goto(t, IF processes[Seg(t)] = 1 THEN "destroy" ELSE "unmap")
  /\ UNCHANGED <<segments, sha, up, cntrl_ready, proc_map, state, calls>>

\* It gives up the async metadata and the allocator.
DestroyPipe(t) ==
  /\ pc[t] = "destroy"
  /\ up' = [up EXCEPT ![Seg(t)] = FALSE]
  /\ Goto(t, "unmaplast")
  /\ UNCHANGED <<segments, processes, sha, cntrl_ready, proc_map, state, calls>>

\* arax_assert(available == arax_state.initialy_available): what is available
\* is not modelled, so that the assertion may fail.  The process ends with the
\* file in place and its pid in the map.
ExitAborts(t) ==
  /\ pc[t] = "unmaplast"
  /\ Goto(t, "aborted")
  /\ UNCHANGED <<segments, pipe, state, calls>>

\* initialized is not reset.
Unmap(t) ==
  /\ pc[t] \in {"unmap", "unmaplast"}
  /\ proc_map' = [proc_map EXCEPT ![Seg(t)] = arax_pipe_mark_unmap(@, Proc[t])]
  /\ vpipe' = [vpipe EXCEPT ![Proc[t]] = 0]
  /\ Goto(t, IF pc[t] = "unmap" THEN "out" ELSE "clean")
  /\ UNCHANGED <<segments, processes, sha, up, cntrl_ready, threads, initialized, calls>>

\* arax_clean unlinks the name, whatever segment it names by now.
Clean(t) ==
  /\ pc[t] = "clean"
  /\ linked' = FALSE
  /\ Goto(t, "out")
  /\ UNCHANGED <<segment, rev, pipe, state, calls>>

-----------------------------------------------------------------------------
InitStep(t) ==
  \/ Spin(t) \/ OpenShm(t) \/ HaveToMmap(t) \/ AddProcess(t) \/ WaitSha(t) \/ Refuse(t)
  \/ PublishSha(t) \/ SetupPipe(t) \/ Attached(t) \/ Good(t) \/ CheckReady(t) \/ Wait(t)
  \/ InitDone(t) \/ InitDoneNotify(t)

ExitStep(t) ==
  Exit(t) \/ DelProcess(t) \/ DestroyPipe(t) \/ ExitAborts(t) \/ Unmap(t) \/ Clean(t)

Next == \E t \in Threads : Enter(t) \/ InitStep(t) \/ SpuriousWake(t) \/ ExitStep(t)

Spec == Init /\ [][Next]_vars

\* A call that is under way goes on; nobody has to make one.
FairSpec == Spec /\ \A t \in Threads : WF_vars(InitStep(t))

-----------------------------------------------------------------------------
Of(p, labels) == \E t \in Threads : Proc[t] = p /\ pc[t] \in labels

\* Processes between arax_pipe_init and arax_pipe_exit, and with g mapped; also
\* those that ended there, the first in Refuse, the second in ExitAborts too.
Uncounted == {"map", "add", "destroy", "unmap", "unmaplast", "aborted"}
Counted(g) == {p \in Processes : vpipe[p] = g /\ ~Of(p, Uncounted)}
Mapping(g) == {p \in Processes : vpipe[p] = g /\ ~Of(p, {"map"})}

(* "Process counter - Processes using this" (arax_pipe.h): pipe->processes *)
(* is the number of processes between their arax_pipe_init and their       *)
(* arax_pipe_exit, however attaching and leaving, the removal of the file  *)
(* and its creation anew interleave.  A process of another revision is     *)
(* never taken off the count: with one, nobody is the last to leave.       *)
ProcessesCounted == \A g \in Segments : processes[g] = Cardinality(Counted(g))

(* "Array contains PIDs of all mmaped processes" (arax_pipe.h): proc_map   *)
(* names every process that has the segment mapped, once, and no other but *)
(* those that were refused or aborted, after every arax_pipe_have_to_mmap  *)
(* and arax_pipe_mark_unmap.                                               *)
ProcMapExact ==
  \A g \in Segments :
    /\ {proc_map[g][c] : c \in Cells} \ {NoPid} = Mapping(g)
    /\ \A p \in Processes : Cardinality({c \in Cells : proc_map[g][c] = p}) <= 1

(* The count and the map of the processes are exact, for every segment.    *)
ProcessesKnown == TypeOK /\ ProcessesCounted /\ ProcMapExact

(* "initialized by the 'first' issuer" (arax_pipe.h, arax_pipe_init): no   *)
(* two processes initialise the same segment at the same time, also when   *)
(* one attaches while the last one leaves.                                 *)
OneInitialiser ==
  \A t, u \in Threads :
    /\ pc[t] \in {"publish", "setup"} /\ pc[u] \in {"publish", "setup"}
    /\ Seg(t) = Seg(u)
    => t = u

(* "All subsequent issuers will receive the already initialized instance"  *)
(* (arax_pipe.h): arax_pipe_init returns an initialised pipe.  It may not, *)
(* for it publishes sha[0] before the rest is set up.                      *)
ReceivesInitialised == \A t \in Threads : pc[t] = "attached" => up[Seg(t)]

(* "I am not the first but stuff might not yet be initialized": a thread   *)
(* that finds others in its process gets past the wait in _arax_init only  *)
(* when the process has mapped the pipe.                                   *)
WaitsForInit == \A t \in Threads : pc[t] \in {"good", "check", "in", "null"} => Seg(t) # 0

(* "All applications will wait for the controller/server initialization"   *)
(* (impl.c): and no longer.  Once cntrl_ready is set, an application that  *)
(* waits for it goes on.                                                   *)
InitReturns ==
  \A t \in Threads : pc[t] = "asleep" /\ cntrl_ready[Seg(t)] ~> pc[t] # "asleep"

-----------------------------------------------------------------------------
(* What makes the properties above inductive.  It holds as long as nobody  *)
(* calls arax_exit while a thread of the same process is in arax_init,     *)
(* here: as long as those who leave are alone in their process.            *)

LeaversAlone == \A t \in Leavers, u \in Threads : Proc[u] = Proc[t] => u = t

\* The pids fit where arax_pipe_mark_unmap moves them.
MapFits == Cardinality(Processes) * CellBytes <= MapSize - 1 + CellBytes - PidBytes

Going == {"del", "destroy", "unmap", "unmaplast", "clean", "aborted"}
Coming == {"open", "map", "add", "publish", "setup", "sha", "refused", "attached"}
Unmapped == {"out", "spin", "open", "clean"}

Inside(p) == {t \in Threads : Proc[t] = p /\ pc[t] \notin Going \cup {"out"}}

\* arax_state.threads is exact; one thread of a process attaches it.
ThreadsInv ==
  /\ \A p \in Processes : threads[p] = Cardinality(Inside(p))
  /\ \A t, u \in Threads :
       pc[t] \in Coming /\ Proc[u] = Proc[t] /\ u # t => pc[u] \in {"out", "spin"}
  /\ \A t \in Threads : (pc[t] \in Going => t \in Leavers) /\ (pc[t] = "spin" => t \notin Leavers)

\* vpipe is set while a thread relies on it, and initialized tells of vpipe
\* in the processes that nobody leaves.
PipeInv ==
  /\ linked => segment # 0
  /\ \A t \in Threads : (pc[t] \notin Unmapped => Seg(t) # 0) /\ pc[t] # "null"
  /\ \A p \in Processes : vpipe[p] # 0 => Of(p, PC \ Unmapped)
  /\ \A p \in Processes :
       initialized[p] => \/ \E t \in Leavers : Proc[t] = p
                         \/ vpipe[p] # 0 /\ ~Of(p, Coming)

\* The pids are the first cells of the map, each once.
IsMap(map, pids) ==
  LET n == Cardinality(pids)
  IN  /\ \A c \in Cells : IF c < n THEN map[c] \in pids ELSE map[c] = NoPid
      /\ \A c, d \in Cells : map[c] = map[d] /\ map[c] # NoPid => c = d
      /\ \A p \in pids : \E c \in Cells : map[c] = p

MapInv == \A g \in Segments : IsMap(proc_map[g], Mapping(g))

IInv == TypeOK /\ ThreadsInv /\ PipeInv /\ ProcessesCounted /\ MapInv /\ OneInitialiser

=============================================================================
