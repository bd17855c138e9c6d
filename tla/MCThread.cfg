SPECIFICATION ThreadSpec
CONSTANTS
  Clients = {a}
  MaxTurns = 3
  MaxQuestions = 3
  MaxRounds = 1
  Pauses = 0
INVARIANTS
  ThreadInv
  RemembersAbove
CHECK_DEADLOCK FALSE
