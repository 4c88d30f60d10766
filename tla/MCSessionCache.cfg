SPECIFICATION CacheFairSpec
CONSTANTS
  Callers = {c1, c2}
  MaxInstances = 3
INVARIANTS
  StreamsRouted
PROPERTIES
  NewerWorkerKept
  OrphansReclaimed
CHECK_DEADLOCK FALSE
