CONSTANTS
  s1 = s1
  t1 = t1
  t2 = t2
  w1 = w1
  NoSession = NoSession
  Nobody = Nobody
  Sessions = {s1}
  Turns = {t1, t2}
  Workers = {w1}
  WorkerOf <- MCOneWorker
  Times <- MCTimes
  Positions = {}
  Pieces = {}
  LeaseTime = 1
  QueuedTime = 1
  MaxAge = 1
  GivenUp = {0}
SPECIFICATION OpenSpec
INVARIANTS
  NothingLapsedShown
  ShowsWhatRuns
SYMMETRY MCTurnSymmetry
CHECK_DEADLOCK FALSE
