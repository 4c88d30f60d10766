SPECIFICATION FairSpec
CONSTANT Stoppers = {s1, s2}
INVARIANTS
  StoppedMeansReaped
  ProvokedIsNotAbnormal
PROPERTIES
  StopsReturn
CHECK_DEADLOCK FALSE
