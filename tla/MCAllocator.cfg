CONSTANTS
  Word = 4
  TreeBinShift = 3
  Page = 16
  Granularity = 32
  MmapThreshold = 40
  TrimThreshold = 40
  MSize = 4
  MAX_RELEASE_CHECK_RATE = 2
  Pages = 16
  Sizes = {3, 14, 24, 40}
  Blocks = {6, 30}
  Layouts <- MCLayouts
  Alignments = {6}
  IallocAlone = TRUE
  MaxLive = 7
  MaxCalls = 3
  MpThreads = {p1, p2}
  MpMaxCalls = 3
  Asked = {0, 3, 4}
SPECIFICATION MCSpec
INVARIANTS HeapSound LiveIntact SearchesExact ParamsSound
PROPERTY ImplementsPool
CHECK_DEADLOCK FALSE
