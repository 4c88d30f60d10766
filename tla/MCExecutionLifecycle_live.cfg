SPECIFICATION FairSpec
CONSTANTS
  m1 = m1
  m2 = m2
  Chats = {c1, c2}
  Stops = {}
  Requests <- MCRequests
  Sids = {s1, s2}
  NoSid = NoSid
  MaxExecs = 1
  MaxCalls = 2
  Scenarios <- LiveScenarios
PROPERTY RequestEnds
CHECK_DEADLOCK FALSE
