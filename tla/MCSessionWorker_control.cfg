SPECIFICATION Spec
CONSTANTS
  Subs = {s1, s2}
  Ctls = {c1}
  RingSize = 2
  MaxSubscribers = 1
  ChanCap = 1
  OutCap = 1
  QueueCap = 2
  MaxSeq = 2
  MaxAttempts = 1
  PushKinds = {"update", "cancelled"}
  Sweeps = FALSE
  Clears = FALSE
  Panics = FALSE
  NoCtl = NoCtl
SYMMETRY Symmetry
INVARIANTS
  ControlReachesOnlyCaptured
  ClosedByControlEndsWithReceipt
CHECK_DEADLOCK FALSE
