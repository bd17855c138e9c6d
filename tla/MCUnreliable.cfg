CONSTANTS
  s1 = s1
  t1 = t1
  w1 = w1
  sweep = sweep
  NoSession = NoSession
  Sessions = {s1}
  Turns = {t1}
  Workers = {w1}
  Worker = w1
  Readers = {sweep}
  WorkerOf <- MCOneWorker
  Times <- MCTimes
  Positions = {1, 2}
  Pieces = {"message_started", "piece"}
  LeaseTime = 2
  QueuedTime = 1
  MaxRunning = 1
  Heartbeat = 1
  Stalled = 0
  MaxAge = 0
  Unreliable = TRUE
SPECIFICATION FairSpec
INVARIANTS
  EventsAreContiguous
PROPERTIES
  EveryTurnEnds
CHECK_DEADLOCK FALSE
