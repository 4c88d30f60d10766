SPECIFICATION Spec
CONSTANTS
  m1 = m1
  m2 = m2
  Chats = {c1, c2}
  Stops = {p1}
  Requests <- MCRequests
  Sids = {s1, s2}
  NoSid = NoSid
  MaxExecs = 2
  MaxCalls = 2
  Scenarios <- MCScenarios
SYMMETRY Symmetry
INVARIANTS
  OneLiveChild
  LiveChildObservable
  SentToOwnModel
  RunningIsNotIdle
PROPERTIES
  CleanupSparesUsed
CHECK_DEADLOCK FALSE
