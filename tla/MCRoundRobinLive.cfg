SPECIFICATION FairSpec
CONSTANTS
  a1 = a1  a2 = a2  f1 = f1  f2 = f2  v1 = v1  v2 = v2  k1 = k1  k2 = k2  k3 = k3
  Accels = {a1}
  Vaccels = {f1, v1, v2}
  Tasks = {k1, k2, k3}
  None = None
  FreeVaq <- OneFree
  Vaq <- MCVaq
  Acquired <- FirstAcquired
  QueueCap = 1
  SizeMod = 8
  MayStop = TRUE
  MaxSpurious = 2
INVARIANT
  AssignsVaccel
PROPERTIES
  EveryTaskServed WorkerStops
