CONSTANTS
  s1 = s1
  s2 = s2
  t1 = t1
  t2 = t2
  w1 = w1
  w2 = w2
  NoSession = NoSession
  Sessions = {s1, s2}
  Turns = {t1, t2}
  Workers = {w1, w2}
  Pieces = {"piece"}
  WorkerOf <- MCTwoWorkers
  Times = {0, 2}
  Positions = {1, 2}
  LeaseTime = 1
  QueuedTime = 2
SPECIFICATION Spec
INVARIANTS
  StoreInv
  TurnEndedIsLast
  AnswerWithItsEnd
PROPERTIES
  KeepsContract
SYMMETRY MCSymmetry
CHECK_DEADLOCK FALSE
