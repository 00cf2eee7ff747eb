SPECIFICATION MCSpec
CONSTANTS
  a1 = a1  a2 = a2  f1 = f1  f2 = f2  v1 = v1  v2 = v2  v3 = v3  k1 = k1  k2 = k2  k3 = k3
  Accels = {a1, a2}
  Vaccels = {f1, f2, v1, v2}
  Tasks = {k1, k2, k3}
  None = None
  FreeVaq <- TwoFree
  Vaq <- TwoVaqs
  Acquired <- SecondAcquired
  CanRun <- MCCanRun
  QueueCap = 2
  SizeMod = 8
  MayStop = TRUE
  MaxSpurious = 1
INVARIANTS
  AllListsConsistent InOrder
