CONSTANTS
  idle = idle
  main = main
  a = a
  b = b
  c = c
  Threads <- MCThreadSet
  Prio <- MCPrio
  Idle = idle
  Main = main
  NoThread = NoThread
  SCHED_PRIO_LEVELS = 3
  MAXTHREADS = 4
  CreateFlags = {"NONE", "SLEEPING"}
SPECIFICATION FairSpec
INVARIANTS TypeOK RunqueuesAgree LpopRemovesCaller TableConsistent HighestPriorityRuns
PROPERTIES KeepsTurn RoundRobin
