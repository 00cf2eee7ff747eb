------------------------------- MODULE LibMgr -------------------------------
(***************************************************************************)
(* The libraries of kernels (controller/src/Core/araxLibMgr.cpp): the      *)
(* folders that the main thread scans and watches, the thread that loads   *)
(* what is written there later, and the functors the libraries put into    *)
(* the procedures of the shared segment (src/core/arax_proc.c).            *)
(*                                                                         *)
(* libs is not locked.  The two threads that use it do so one at a time,   *)
(* except that the loader may load a library while unloadLibraries walks   *)
(* the map; the model makes each of the two one step.                      *)
(***************************************************************************)
EXTENDS Integers, Sequences, FiniteSets

CONSTANTS
  Folders,       \* paths of folders that can be opened
  Files,         \* paths of everything else that may be found in them
  Folder,        \* Folder[p]: the path p is in, or None
  Real,          \* Real[p]: the file or folder p leads to, as others may
  Kind,          \* Kind[f]: "arax", "other" (no arax_proc_defs), "broken"
                 \* (dlopen fails) or "text" (not called *.so)
  Defs,          \* Defs[f]: the <<procedure, type>> pairs of arax_proc_defs
  Procs, Types,  \* procedures; types below ARAX_ACCEL_TYPES
  FirstFiles,    \* the sets of files that may be there at the start
  Unwatchable,   \* folders inotify_add_watch refuses
  Unwritable,    \* folders that run.false cannot be created in
  None           \* no file, no folder

VARIABLES
  present,       \* files that exist
  todo,          \* what loadFolder has yet to visit, a stack
  lib_paths,
  lib_fd_paths,  \* paths by watch descriptor; 0 is that of a refused watch
  events,        \* what inotify has to report: <<descriptor, file written>>
  libs,          \* libraries that are open
  functors,      \* the library a functor is in, or None
  run,           \* the loader's flag
  rpc, rfile     \* the loader, and the file it was told of

libvars == <<present, todo, lib_paths, lib_fd_paths, events, libs, functors, run, rpc, rfile>>

Wake == "run.false"

LibTypeOK ==
  /\ present \subseteq Files
  /\ todo \in Seq(Folders \cup Files \cup {None})
  /\ lib_paths \subseteq Folders
  /\ lib_fd_paths \in [DOMAIN lib_fd_paths -> Folders]
  /\ events \in Seq((DOMAIN lib_fd_paths) \X ({Real[f] : f \in Files} \cup {Wake}))
  /\ libs \subseteq Files
  /\ functors \in [Procs \X Types -> Files \cup {None}]
  /\ run \in BOOLEAN
  /\ rpc \in {"none", "top", "read", "load", "exit"}
  /\ rfile \in Files \cup {Wake, None}

\* AraxLibMgr::AraxLibMgr
LibInit ==
  /\ present \in FirstFiles
  /\ todo = <<>>
  /\ lib_paths = {}
  /\ lib_fd_paths = [d \in {} |-> None]
  /\ events = <<>>
  /\ libs = {}
  /\ functors = [d \in Procs \X Types |-> None]
  /\ run = TRUE
  /\ rpc = "none"
  /\ rfile = None

\* inotify knows a folder by what it is, not by its path.
Watches(folder) == {d \in DOMAIN lib_fd_paths \ {0} : Real[lib_fd_paths[d]] = Real[folder]}

-----------------------------------------------------------------------------
(* loadLibrary *)

\* arax_proc_register and arax_proc_set_functor for every definition, unless
\* its type is one this build does not know.
SetFunctors(f) ==
  [d \in Procs \X Types |-> IF d \in Defs[f] THEN f ELSE functors[d]]

\* Mutant of loadLibrary: the library is closed once its definitions are read.
MutLoadCloses(f) ==
  /\ functors' = IF f \in Files /\ f \in present /\ Kind[f] = "arax" THEN SetFunctors(f)
                 ELSE functors
  /\ UNCHANGED libs

loadLibrary(f) ==
  IF f \in Files /\ f \in present \ libs /\ Kind[f] = "arax"
    THEN libs' = libs \cup {f} /\ functors' = SetFunctors(f)
    ELSE UNCHANGED <<libs, functors>>

-----------------------------------------------------------------------------
(* loadFolder, by the main thread *)

\* The new watch goes to lib_fd_paths under its descriptor, or under -1.  A
\* folder that is watched already has its descriptor, and gets the new path.
AddWatch(folder) ==
  LET d == CASE folder \in Unwatchable -> 0
             [] folder \notin Unwatchable /\ Watches(folder) # {} ->
                  CHOOSE e \in Watches(folder) : TRUE
             [] OTHER -> Cardinality(DOMAIN lib_fd_paths \ {0}) + 1
  IN  lib_fd_paths' = [e \in DOMAIN lib_fd_paths \cup {d} |->
                         IF e = d THEN folder ELSE lib_fd_paths[e]]

\* What readdir finds, in some order.
Entries(folder) == {p \in Folders \cup present : Folder[p] = folder}
Orders(set) ==
  {s \in [1 .. Cardinality(set) -> set] : \A i, j \in DOMAIN s : s[i] = s[j] => i = j}

\* The folder is watched before it is read: what is written meanwhile is found
\* by the one or reported by the other.  lib_paths holds paths: a folder that
\* two of them lead to is read twice.
EnterFolder(folder) ==
  /\ IF folder \in lib_paths
       THEN todo' = Tail(todo) /\ UNCHANGED <<lib_paths, lib_fd_paths>>
       ELSE /\ AddWatch(folder)
            /\ lib_paths' = lib_paths \cup {folder}
            /\ \E s \in Orders(Entries(folder)) : todo' = s \o Tail(todo)
  /\ UNCHANGED <<present, events, libs, functors, run, rpc, rfile>>

\* The next entry: a folder, or else perhaps a library.
VisitEntry ==
  /\ todo # <<>>
  /\ Head(todo) # None
  /\ IF Head(todo) \in Folders
       THEN EnterFolder(Head(todo))
       ELSE /\ loadLibrary(Head(todo))
            /\ todo' = Tail(todo)
            /\ UNCHANGED <<present, lib_paths, lib_fd_paths, events, run, rpc, rfile>>

-----------------------------------------------------------------------------
(* The loader *)

\* startRunTimeLoader
StartLoader ==
  /\ rpc' = "top"
  /\ UNCHANGED <<present, todo, lib_paths, lib_fd_paths, events, libs, functors, run, rfile>>

\* while (libmgr->run)
LoaderTop ==
  /\ rpc = "top"
  /\ rpc' = IF run THEN "read" ELSE "exit"
  /\ UNCHANGED <<present, todo, lib_paths, lib_fd_paths, events, libs, functors, run, rfile>>

\* The path of a file in the folder of a descriptor.
Path(d, file) ==
  IF file = Wake THEN Wake
  ELSE CHOOSE f \in Files : Folder[f] = lib_fd_paths[d] /\ Real[f] = file

\* read() waits for events and returns as many as fit into the buffer; only the
\* first one is looked at.
LoaderRead ==
  /\ rpc = "read"
  /\ events # <<>>
  /\ rfile' = Path(Head(events)[1], Head(events)[2])
  /\ \E n \in 1 .. Len(events) : events' = SubSeq(events, n + 1, Len(events))
  /\ rpc' = "load"
  /\ UNCHANGED <<present, todo, lib_paths, lib_fd_paths, libs, functors, run>>

LoaderLoad ==
  /\ rpc = "load"
  /\ loadLibrary(rfile)
  /\ rpc' = "top"
  /\ rfile' = None
  /\ UNCHANGED <<present, todo, lib_paths, lib_fd_paths, events, run>>

Loader == LoaderTop \/ LoaderRead \/ LoaderLoad

\* Somebody puts a file into a folder (IN_CLOSE_WRITE).
WriteFile(f) ==
  /\ f \notin present
  /\ present' = present \cup {g \in Files : Real[g] = Real[f]}
  /\ IF Watches(Folder[f]) = {} THEN UNCHANGED events
     ELSE \E d \in Watches(Folder[f]) : events' = Append(events, <<d, Real[f]>>)
  /\ UNCHANGED <<todo, lib_paths, lib_fd_paths, libs, functors, run, rpc, rfile>>

-----------------------------------------------------------------------------
(* The end, by the main thread *)

\* The functors keep pointing into what is closed: procs was never filled.
unloadLibraries ==
  /\ libs' = {}
  /\ UNCHANGED <<present, todo, lib_paths, lib_fd_paths, events, functors, run, rpc, rfile>>

\* ~AraxLibMgr: run.false in the folder of the lowest descriptor wakes the
\* loader, if it can be created there and the folder is watched.
FirstFolder == lib_fd_paths[CHOOSE d \in DOMAIN lib_fd_paths :
                              \A e \in DOMAIN lib_fd_paths : d <= e]
Wakes == FirstFolder \notin Unwritable /\ Watches(FirstFolder) # {}

WakeLoader ==
  /\ run' = FALSE
  /\ IF ~Wakes THEN UNCHANGED events
     ELSE \E d \in Watches(FirstFolder) : events' = Append(events, <<d, Wake>>)
  /\ UNCHANGED <<present, todo, lib_paths, lib_fd_paths, libs, functors, rpc, rfile>>

=============================================================================
