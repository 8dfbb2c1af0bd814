CONSTANTS
  idle = idle
  a = a
  b = b
  c = c
  Threads <- MCThreadSet
  Prio <- MCPrio
  Idle = idle
  NoThread = NoThread
  SCHED_PRIO_LEVELS = 3
  UINT_BITS = 3
  Programs <- MCAll
  MaxMessages = 4
SPECIFICATION Spec
INVARIANTS ListsAgree FifoNothingLost OnlyLateOverlooked NoWriterWaitsForFree
