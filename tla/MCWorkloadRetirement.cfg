SPECIFICATION Spec
CONSTANTS
    a = a
    b = b
    d = d
    None = None
    Callers = {a, b, d}
    Scenarios <- MCScenarios
INVARIANTS
  AdmittedIsKept
  IdleSparesWork
PROPERTIES
  RetiredIsGone
  AdmittedReviveNothing
CHECK_DEADLOCK FALSE
