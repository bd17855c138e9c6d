CONSTANTS
  None = None
  Sessions = {1, 2, 3, 4}
  AgentOf <- MCAgentOf
  Mine = 4
  Where <- MCWhere
  Configurations <- MCConfigurations
  ToolsOf <- MCToolsOf
  Build = {"search_sessions"}
  Limits = {0, 2}
  Arguments <- MCArguments
  MaxResults = 2
  DefaultResults = 2
  MaxSessions = 3
  PageSize = 2
  MaxClock = 2
  MaxDelay = 1
  MaxWrites = 2
SPECIFICATION SessionsSpec
INVARIANTS
  SessionsInv
  ListsWhole
  FindsTheNewest
PROPERTIES
  SearchAnswers
