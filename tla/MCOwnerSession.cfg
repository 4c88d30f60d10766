SPECIFICATION FairSpec
CONSTANTS
  recover = recover
  stopwork = stopwork
  shutdown = shutdown
  Reqs = {recover, stopwork, shutdown}
  Act <- MCAct
  None = None
  RestartLimit = 2
  MaxGens = 3
  MaxOwners = 2
  Scenarios <- MCScenarios
INVARIANTS
  StoppedIsQuiet
  OneGeneration
PROPERTIES
  RecordIsFinal
  StoppedUntilExplicit
  ControlsEnd
CHECK_DEADLOCK FALSE
