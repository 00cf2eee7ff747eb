SPECIFICATION MCSpec
CONSTANTS
  a1 = a1
  f1 = f1
  Accels = {a1}
  FreeVaq <- TheFreeVaq
  Vacs = {v1, v2}
  Datas = {d1, d2}
  Tasks = {t1, t2, t3}
  Kinds = {"CPU", "GPU", "HIP", "OPEN_CL"}
  None = None
  App = App
  PipeSize = 7
  DevSize = 6
  MaxCalls = 5
  Early = FALSE
  Ctl = "controller"
  Apps = {"app1", "app2"}
  PhysObjs = {"p1"}
  VirtObjs = {"v1", "v2"}
  ProcObjs = {"q1", "q2"}
  Names = {"memset"}
  Functors = {"CPU", "GPU"}
  Null = None
  RegMaxCalls = 4
INVARIANTS CountsExact NothingDangling DeviceCharged NobodyStuck
PROPERTY WaitReturns
CHECK_DEADLOCK FALSE
