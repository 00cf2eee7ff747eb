SPECIFICATION Spec
CONSTANTS
  Missing = Missing
  Bad = Bad
  Thrown = Thrown
  Unreadable = Unreadable
  Unparsable = Unparsable
  None = None
  NoLib = None
  Architectures = {"CPU", "GPU", "HIP", "OPEN_CL", "SDA"}
  ThreadTypes = {"CPU", "GPU", "HIP", "OPEN_CL"}
  SchedulerTypes = {"RoundRobin"}
  HardwareConcurrency = 2
  Folders = {"builtins", "apps", "apps/builtins"}
  Files = {"builtins/core.so", "apps/builtins/core.so", "apps/app.so", "apps/notes"}
  Folder <- MCFolder
  Real <- MCReal
  Kind <- MCKind
  Defs <- MCDefs
  Procs = {"memset"}
  Types = {"CPU", "GPU", "HIP", "OPEN_CL"}
  FirstFiles <- MCFirstFiles
  Unwatchable = {}
  Unwritable = {"builtins"}
  Objects <- MCObjects
  Cudas = 2
  ConfigFiles <- MCConfigFiles
  Builtins = "builtins"
  MaxTasks = 1
INVARIANTS
  ServesConfigured
  NothingGoneInUse
PROPERTIES
  Ends
