CONSTANTS
  idle = idle
  main = main
  a = a
  b = b
  cm = cm
  ca = ca
  cb = cb
  Threads <- MCThreadSet
  Prio <- MCPrio
  Idle = idle
  Main = main
  NoThread = NoThread
  SCHED_PRIO_LEVELS = 2
  MAXTHREADS = 3
  CreateFlags = {"NONE"}
  Contexts = {cm, ca, cb}
  NoContext = NoContext
  MayUse <- MCOwn
  Values = {0, 1}
  StatusValues = {0, 1}
SPECIFICATION FpuSpec
INVARIANT StatusPreserved
