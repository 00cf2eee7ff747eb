SPECIFICATION MCSpec
CONSTANTS
  ctl = ctl  t1 = t1  t2 = t2  t3 = t3  p0 = p0  p1 = p1  p2 = p2
  Threads = {ctl, t1, t2, t3}
  Processes = {p0, p1, p2}
  Proc <- MCProc
  Controller = ctl
  MaxCalls = 2
  MaxSegments = 4
  Leavers = {ctl, t3}
  Revisions = {"r1", "r2"}
  Builds <- MCBuilds
  NoRev = NoRev
  MapSize = 24
  CellBytes = 8
  PidBytes = 3
  NoPid = NoPid
  None = None
  Mixed = Mixed
INVARIANTS
  ProcessesKnown OneInitialiser WaitsForInit SettingsSound
CHECK_DEADLOCK FALSE
