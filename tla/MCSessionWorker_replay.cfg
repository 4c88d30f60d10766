SPECIFICATION FairSpec
CONSTANTS
  Subs = {s1}
  Ctls = {}
  RingSize = 2
  MaxSubscribers = 1
  ChanCap = 1
  OutCap = 1
  QueueCap = 2
  MaxSeq = 3
  MaxAttempts = 2
  PushKinds = {"update", "prompt_end"}
  Sweeps = TRUE
  Clears = TRUE
  Panics = TRUE
  NoCtl = NoCtl
INVARIANTS
  StreamOrdered
  NothingLostWhileRegistered
  NoFinishedTurnReplayed
PROPERTIES
  RemovedStreamEnds
CHECK_DEADLOCK FALSE
