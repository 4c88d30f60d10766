SPECIFICATION Spec
CONSTANTS
  Projects = {p1, p2}
  Sessions = {s1, s2, s3}
  Workers = {w1, w2}
  Notifiers = {n1}
  Resumable = {s1, s2}
  MaxExecs = 4
  None = None
SYMMETRY Interchangeable
INVARIANTS
  RoutesAgree
PROPERTIES
  OutdatedFilteredAtRest
CHECK_DEADLOCK FALSE
