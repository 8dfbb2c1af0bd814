CONSTANTS
  idle = idle
  a = a
  b = b
  c = c
  Threads <- MCThreadSet
  Prio <- MCPrio
  Idle = idle
  NoThread = NoThread
  SCHED_PRIO_LEVELS = 3
  UINT_BITS = 3
  Programs <- MCRacing
  MaxMessages = 3
SPECIFICATION Spec
INVARIANT NeverOverfull
