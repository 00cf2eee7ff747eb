------------------------------- MODULE Config -------------------------------
(***************************************************************************)
(* What the controller makes of its configuration file                     *)
(* (controller/src/Core/Config.cpp): groups of accelerators, each group    *)
(* with a scheduler, and one map of all accelerators by name.              *)
(*                                                                         *)
(* A JSON value that code asks for is Missing, Bad (of another type), or   *)
(* the value.  Group names are numbered in the order of std::map.  An      *)
(* AccelConfig object is known by <<g, i>>, its place in the file, because *)
(* two of them may have one name.  Every exception is Thrown: nobody       *)
(* catches one but to add to its text.                                     *)
(***************************************************************************)
EXTENDS Integers, Sequences, FiniteSets, SequencesExt

CONSTANTS
  Missing, Bad, Thrown,
  Unreadable, Unparsable,   \* files that cannot be opened, or are not JSON
  Architectures,            \* the names arax_accel_type_from_str knows
  ThreadTypes,              \* threadFactory: the back ends that were built
  SchedulerTypes,           \* schedulerFactory
  HardwareConcurrency       \* std::thread::hardware_concurrency()

\* Utilities.h.  obj[key] of a key that is not there is null, of no type.
jsonGetSafe(value) == IF value \in {Missing, Bad} THEN Thrown ELSE value
jsonGetSafeOptional(value, def) == IF value = Missing THEN def ELSE jsonGetSafe(value)

\* operator>> and CpuSet::set, for the numbers of a list "1,2": one that is
\* negative stands for all cores.
Affinity(cores) ==
  IF \E i \in DOMAIN cores : cores[i] >= HardwareConcurrency
    THEN Thrown
    ELSE UNION {IF cores[i] < 0 THEN 0 .. HardwareConcurrency - 1 ELSE {cores[i]} :
                  i \in DOMAIN cores}

\* The spellings of a job preference that occur, and what tolower makes of them.
tolower(pref) ==
  CASE pref = "NoJob" -> "nojob"
    [] pref = "AnyJob" -> "anyjob"
    [] OTHER -> pref

fromString(pref) ==
  LET pref_map == [nojob |-> "NoJob", userjob |-> "UserJob", batchjob |-> "BatchJob",
                   anyjob |-> "AnyJob"]
  IN  IF tolower(pref) \in DOMAIN pref_map THEN pref_map[tolower(pref)] ELSE Thrown

-----------------------------------------------------------------------------
(* AccelConfig *)

\* The name of an accelerator that the file gives none: "group:arch:count", a
\* string like any other, which the file may give too.
DefaultName(g, arch, count) == <<g, arch, count>>

\* The type of that name, or ARAX_ACCEL_TYPES.
arax_accel_type_from_str(str) == IF str \in Architectures THEN str ELSE "ARAX_ACCEL_TYPES"

\* Whether the library knows the type and a back end of the build registered its
\* thread.
Known(type_str) == arax_accel_type_from_str(type_str) # "ARAX_ACCEL_TYPES" /\ type_str \in ThreadTypes

\* An AccelConfig for the count-th name of group g.
AccelConfig(conf, g, count) ==
  IF conf = Bad \/ ~Known(jsonGetSafe(conf.arch))
    THEN Thrown
    ELSE LET accel == [arch |-> conf.arch,
                       name |-> jsonGetSafeOptional(conf.name,
                                                    DefaultName(g, conf.arch, count)),
                       affinity |-> IF conf.cpu_core = Bad THEN Thrown
                                    ELSE Affinity(jsonGetSafeOptional(conf.cpu_core, <<-1>>)),
                       pref |-> IF conf.job_pref = Bad THEN Thrown
                                ELSE fromString(jsonGetSafeOptional(conf.job_pref, "AnyJob")),
                       device |-> conf.device]
         IN  IF accel.name = Thrown \/ accel.affinity = Thrown \/ accel.pref = Thrown
               THEN Thrown ELSE accel

-----------------------------------------------------------------------------
(* GroupConfig *)

\* map with key -> value: operator[] replaces what was there, emplace does not.
Assign(map, key, value) ==
  [k \in DOMAIN map \cup {key} |-> IF k = key THEN value ELSE map[k]]
Emplace(map, more) ==
  [k \in DOMAIN map \cup DOMAIN more |-> IF k \in DOMAIN map THEN map[k] ELSE more[k]]

Empty == [k \in {} |-> k]

\* addAccelerator, the last thing an AccelConfig does to its group.
addAccelerator(group, id, accel) ==
  [group EXCEPT !.accelerators = Assign(@, accel.name, id),
                !.objects = Assign(@, id, accel)]

\* new AccelConfig(accel_obj, this) for the i-th of the array.
AddAccel(group, i, accels) ==
  IF group = Thrown THEN Thrown
  ELSE LET accel == AccelConfig(accels[i], group.name,
                                Cardinality(DOMAIN group.accelerators))
       IN  IF accel = Thrown THEN Thrown
           ELSE addAccelerator(group, <<group.name, i>>, accel)

GroupConfig(g, conf) ==
  LET class == IF conf.sched = Bad THEN Thrown
               ELSE jsonGetSafeOptional(conf.sched, "RoundRobin")
      accels == jsonGetSafe(conf.accels)
  IN  IF class \notin SchedulerTypes \/ accels \in {Thrown, <<>>}
        THEN Thrown
        ELSE FoldLeft(LAMBDA group, i : AddAccel(group, i, accels),
                      [name |-> g, scheduler |-> class, accelerators |-> Empty,
                       objects |-> Empty],
                      [i \in DOMAIN accels |-> i])

-----------------------------------------------------------------------------
(* Config *)

\* A path is the folder it names, or Bad; "/" is one that is not relative.
Paths(jpaths) ==
  IF \E i \in DOMAIN jpaths : jpaths[i] \in {Bad, "/"} THEN Thrown ELSE jpaths

\* The next group of the file, after those that went into config.
AddGroup(config, g, jgroups) ==
  IF config = Thrown \/ jgroups[g] = Bad THEN Thrown
  ELSE LET group == GroupConfig(g, jgroups[g])
       IN  IF group = Thrown THEN Thrown
           ELSE [config EXCEPT !.groups = Append(@, group),
                               !.accelerators = Emplace(@, group.accelerators),
                               !.objects = Emplace(@, group.objects)]

\* The constructor: the configuration of a file, or Thrown.
ReadConfig(file) ==
  IF \/ file \in {Unreadable, Unparsable, Bad}
     \/ file.clean_shm = Bad \/ file.paths = Bad \/ jsonGetSafe(file.groups) = Thrown
    THEN Thrown
    ELSE LET paths == Paths(jsonGetSafeOptional(file.paths, <<>>))
         IN  IF paths = Thrown \/ file.groups = <<>> THEN Thrown
             ELSE FoldLeft(LAMBDA config, g : AddGroup(config, g, file.groups),
                           [clean_shm |-> jsonGetSafeOptional(file.clean_shm, TRUE),
                            paths |-> paths, groups |-> <<>>, accelerators |-> Empty,
                            objects |-> Empty],
                           [g \in DOMAIN file.groups |-> g])

\* getAccelerators(): the objects in the map of all accelerators.
getAccelerators(config) == {config.accelerators[n] : n \in DOMAIN config.accelerators}

\* getAccelerators(type)
getAcceleratorsOf(config, type) ==
  {id \in getAccelerators(config) : type = "ANY" \/ config.objects[id].arch = type}

\* getSchedulers()[0], which the balancer asks for every orphan.
FirstScheduler(config) == config.groups[1].scheduler

=============================================================================
