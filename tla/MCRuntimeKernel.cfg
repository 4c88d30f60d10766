SPECIFICATION FairSpec
CONSTANTS
  first = first
  second = second
  stop = stop
  Ids = {first, second, stop}
  None = None
  Scenarios <- MCScenarios
INVARIANTS
  NewerWaitsForStop
  UnknownIsHeld
PROPERTIES
  TerminalIsFinal
  OverruledNeverSucceeds
  
CHECK_DEADLOCK FALSE
