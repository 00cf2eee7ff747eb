---------------------------- MODULE MCController ----------------------------
(* Controller with configurations of up to three accelerators, most of them *)
(* with something wrong, two folders and three files, one by two paths.     *)
EXTENDS Controller

MCObjects == {<<1, 1>>, <<1, 2>>, <<1, 3>>, <<2, 1>>}

\* The built-ins' folder is in the other one: two paths lead to it.
MCFolder == [p \in Folders \cup Files |->
               CASE p = "builtins/core.so" -> "builtins"
                 [] p = "apps/builtins/core.so" -> "apps/builtins"
                 [] p \in {"builtins", "apps"} -> None
                 [] OTHER -> "apps"]
MCReal == [p \in Folders \cup Files |->
             CASE p = "apps/builtins" -> "builtins"
               [] p = "apps/builtins/core.so" -> "builtins/core.so"
               [] OTHER -> p]
MCKind == [f \in Files |-> IF f = "apps/notes" THEN "text" ELSE "arax"]

\* On CPUs there is a functor only once app.so is loaded.
MCDefs == [f \in Files |->
             CASE f = "apps/app.so" -> {<<"memset", "CPU">>, <<"memset", "GPU">>, <<"memset", "NEW">>}
               [] f = "apps/notes" -> {}
               [] OTHER -> {<<"memset", t>> : t \in {"GPU", "HIP", "OPEN_CL"}}]
MCFirstFiles == {Files \ {"apps/app.so"}}

Dev(pci, kn, fits) == [pci_id |-> pci, host_register |-> TRUE, fits |-> fits, kn |-> kn]
Accel(arch, name, pref, dev) ==
  [arch |-> arch, name |-> name, cpu_core |-> Missing, job_pref |-> pref, device |-> dev]
Plain(arch, dev) == Accel(arch, Missing, Missing, dev)
Group(accels) == [sched |-> Missing, accels |-> accels]
File(groups) == [clean_shm |-> Missing, paths |-> <<"apps">>, groups |-> groups]

Cpu == Plain("CPU", Dev(-1, -1, TRUE))
Gpu(pci) == Plain("GPU", Dev(pci, -1, TRUE))
Named(name) == Accel("CPU", name, "AnyJob", Dev(-1, -1, TRUE))
NamedX == Named(<<"x">>)

GoodFiles == {
  \* Two GPUs, and two streams of one of them.
  File(<<Group(<<Gpu(0), Gpu(1)>>)>>),
  File(<<Group(<<Gpu(0), Gpu(0)>>)>>),
  \* Two accelerators of one name, in a group and in two groups.
  File(<<Group(<<NamedX, NamedX, Cpu>>)>>),
  File(<<Group(<<Accel("CPU", Missing, "NoJob", Dev(-1, -1, TRUE))>>),
         Group(<<NamedX>>)>>),
  File(<<Group(<<NamedX>>), Group(<<NamedX>>)>>),
  \* The name of the second is that of the first; that of all three is that of
  \* the first; the name of the third is that of another group's.
  File(<<Group(<<Named(DefaultName(1, "CPU", 1)), Cpu>>)>>),
  File(<<Group(<<Named(DefaultName(1, "CPU", 1)), Cpu, Cpu>>)>>),
  File(<<Group(<<Cpu, Cpu>>), Group(<<Named(DefaultName(1, "CPU", 1))>>)>>),
  \* run.false cannot be created among the built-ins.
  [File(<<Group(<<Cpu>>)>>) EXCEPT !.paths = <<>>],
  \* The other back ends; the second aborts.
  File(<<Group(<<Plain("OPEN_CL", Dev(0, 1, TRUE)), Plain("HIP", Dev(0, -1, TRUE))>>)>>),
  File(<<Group(<<Plain("OPEN_CL", Dev(0, 2, TRUE))>>)>>),
  \* A GPU that is not there, and one the constructor refuses.
  File(<<Group(<<Cpu, Plain("GPU", Dev(2, -1, FALSE))>>)>>),
  File(<<Group(<<Cpu, Gpu(3)>>)>>)}

With(accel) == File(<<Group(<<accel>>)>>)

BadFiles == {
  Unreadable, Unparsable, Bad,
  [File(<<Group(<<Cpu>>)>>) EXCEPT !.clean_shm = Bad],
  [File(<<Group(<<Cpu>>)>>) EXCEPT !.paths = Bad],
  [File(<<Group(<<Cpu>>)>>) EXCEPT !.paths = <<"apps", "/">>],
  [File(<<Group(<<Cpu>>)>>) EXCEPT !.paths = <<None>>],
  File(Missing), File(<<>>), File(<<Bad>>), File(<<Group(<<>>)>>), File(<<Group(Missing)>>),
  File(<<[Group(<<Cpu>>) EXCEPT !.sched = "Random"]>>),
  File(<<Group(<<Cpu>>), [Group(<<Cpu>>) EXCEPT !.sched = Bad]>>),
  With(Bad), With([Cpu EXCEPT !.arch = "TPU"]), With([Cpu EXCEPT !.arch = "SDA"]),
  With([Cpu EXCEPT !.name = Bad]), With([Cpu EXCEPT !.cpu_core = <<0, 2>>]),
  With([Cpu EXCEPT !.cpu_core = Bad]), With([Cpu EXCEPT !.job_pref = "OddJob"]),
  With([Cpu EXCEPT !.job_pref = Bad])}

MCConfigFiles == GoodFiles \cup BadFiles

(* Whoever is let in finds one ready worker for each name of the            *)
(* configuration, that of the accelerator which the file's order says       *)
(* (NamesKept), and no worker has ended the controller by pinning the       *)
(* segment again.                                                           *)
ServesConfigured == TypeOK /\ NamesKept /\ PinnedOnce /\ ReadyWhenLetIn
=============================================================================
