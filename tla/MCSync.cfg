SPECIFICATION MCSpec
CONSTANTS
  Objects = {o1, o2, o3, o4}
  Capacity = 3
  Available0 = 2
  t1 = t1  t2 = t2  t3 = t3
  Threads = {t1, t2, t3}
  NoThread = NoThread
  Archs = {"mutex", "spin"}
  Need <- MCNeed
  MaxCalls = 4
  VM = VM
  NoVM = NoVM
  IvThreads = {i1, i2}
  IvMaxCalls = 5
INVARIANTS
  NobodyEarly
  NoLostWakeup
PROPERTIES
  RequestGranted
  ImplementsApi
  WaitersServed
  BellHeard
