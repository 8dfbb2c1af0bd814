CONSTANTS
  idle = idle
  a = a
  b = b
  c = c
  ghost = ghost
  Threads <- MCThreadSet
  Prio <- MCPrio
  Idle = idle
  NoThread = NoThread
  SCHED_PRIO_LEVELS = 3
  Flags = {0}
  Masks = {}
  THREAD_FLAG_MSG_WAITING = 0
  Absent = {ghost}
  Programs <- MCPrograms
  MaxInFlight = 3
SPECIFICATION MsgFairSpec
INVARIANTS DeliveredOnceInOrder NoStrandedMessage RequestsAndRepliesMatch KernelConsistent LoopMissesNoMessage
PROPERTY EveryRequestIsAnswered
