SPECIFICATION AttachFair
CONSTANTS
  ctl = ctl  t1 = t1  t2 = t2  t3 = t3  p0 = p0  p1 = p1  p2 = p2
  Threads = {ctl, t1, t3}
  Processes = {p0, p1, p2}
  Proc <- AloneProc
  Controller = ctl
  MaxCalls = 1
  MaxSegments = 1
  Leavers = {}
  Revisions = {"r1", "r2"}
  Builds <- OneBuild
  NoRev = NoRev
  MapSize = 24
  CellBytes = 8
  PidBytes = 3
  NoPid = NoPid
  None = None
  Mixed = Mixed
PROPERTY
  InitReturns
CHECK_DEADLOCK FALSE
