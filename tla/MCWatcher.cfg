CONSTANTS
  s1 = s1
  t1 = t1
  t2 = t2
  w1 = w1
  NoSession = NoSession
  NoTurnYet = NoTurnYet
  Sessions = {s1}
  Turns = {t1, t2}
  Watched = {t1}
  Workers = {w1}
  WorkerOf <- MCOneWorker
  Times <- MCTimes
  Positions = {1}
  Pieces = {"piece"}
  LeaseTime = 1
  QueuedTime = 1
  MaxAge = 1
  GivenUp = {1}
SPECIFICATION FairWatchSpec
INVARIANTS
  WatchInv
  NothingSkipped
PROPERTIES
  WatchEnds
CHECK_DEADLOCK FALSE
