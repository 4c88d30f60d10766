SPECIFICATION FairSpec
CONSTANTS
    a = a
    b = b
    c = c
    Reqs = {a, b, c}
    None = None
    MaxScans = 2
    Scenarios <- MCScenarios
INVARIANTS
  RecyclingSparesTraffic
  OneFlight
  MarksAgree
PROPERTIES
  RequestsAnswered
CHECK_DEADLOCK FALSE
