SPECIFICATION LockSpec
CONSTANTS
  Procs = {p1, p2, p3}
  MaxMutexes = 4
INVARIANTS
  DeadEntryIsRemoved
PROPERTIES
  ImplementsProjectMutex
CHECK_DEADLOCK FALSE
