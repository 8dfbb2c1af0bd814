CONSTANTS
  idle = idle
  a = a
  b = b
  c = c
  lock = lock
  read_cond = read_cond
  write_cond = write_cond
  Subjects = {"cond", "flags"}
  Threads <- MCThreadSet
  Prio <- MCPrio
  Idle = idle
  NoThread = NoThread
  SCHED_PRIO_LEVELS = 3
  Mutexes = {lock}
  Signals = {}
  MUTEX_LOCKED = MUTEX_LOCKED
  NoMutex = NoMutex
  MAX_QUEUE_LENGTH = 2
  Calls = {"write", "read", "close"}
  Flags = {0, 1}
  Masks = {{1}, {0, 1}}
SPECIFICATION WaitingSpec
INVARIANTS PriorityRespected CondBlockedIffQueued NoLostSignal NoLostFlag WaitReturnsItsFlags
PROPERTIES CloseReleasesAll EveryFlagIsSeen
