CONSTANTS
  idle = idle
  a = a
  b = b
  c = c
  m = m
  s = s
  Subjects = {"mutex", "rmutex"}
  Threads <- MCThreadSet
  Prio <- MCPrio
  Idle = idle
  NoThread = NoThread
  SCHED_PRIO_LEVELS = 3
  Mutexes = {m, s}
  Signals = {s}
  MUTEX_LOCKED = MUTEX_LOCKED
  NoMutex = NoMutex
  mutex = m
  RefcountBits = 2
  MaxDepth = 2
SPECIFICATION LocksSpec
INVARIANTS OneOwner BlockedIffQueued OwnerTruthful CountsNesting
PROPERTIES NoOvertaking ImplementsLock EveryWaiterGetsIt LockCompletes
