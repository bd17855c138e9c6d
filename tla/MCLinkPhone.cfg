CONSTANTS
  Codes <- MCCodes
  AtMost = 1
  WrongTries = 2
  Life = 1
  AutoRenewals = 1
  Concurrent = 1
  Losses = 1
SPECIFICATION FairLinkSpec
INVARIANTS
  LinkInv
  TableBounded
PROPERTIES
  EndedNeverLinks
  LinkingEnds
CHECK_DEADLOCK FALSE
