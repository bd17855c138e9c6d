SPECIFICATION FairSpec
CONSTANTS
  Texts <- Piece
  Arguments = {"plain"}
  MaxEvents = 3
  Retries = 1
INVARIANTS
  StreamInv
  StoredAsStreamed
  EndIsShown
PROPERTIES
  ClientIsDone
CHECK_DEADLOCK FALSE
