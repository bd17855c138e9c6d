SPECIFICATION FleetSpec
CONSTANTS
  None = None
  Builds = {"old", "new"}
  Tables <- MCTables
  Databases <- MCDatabases
  Commands = {c1, c2}
  w1 = w1
  w2 = w2
  Configurations <- MCConfigurations
  Workers = {w1, w2}
  Turns = {t1}
  MaxStarts = 2
  Kept = 1
  MaxCancels = 1
  MaxFaults = 1
  MaxOrders = 2
  EndsWithParent = TRUE
INVARIANTS
  FleetInv
  EndsWithServer
  NothingLeftBehind
  HearsEveryCancel
PROPERTIES
  HandsItsOwn
  NeverRelabels
  StartAndStopEnd
CHECK_DEADLOCK FALSE
