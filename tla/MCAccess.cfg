CONSTANTS
  e = e
  s = s
  l1 = l1
  l2 = l2
  p1 = p1
  p2 = p2
  b1 = b1
  b2 = b2
  t1 = t1
  c1 = c1
  c2 = c2
  r1 = r1
  k1 = k1
  None = None
  DomainOf <- MCDomainOf
  People = {e}
  Logins = {l1, l2}
  Callbacks = {c1, c2}
  Tokens = {}
  Codes = {}
  AtMost = 1
  WrongTries = 1
  Life = 1
  OwnerOf <- MCOwnerOf
  LoginLife = 1
  SessionLife = 3
  FreshFor = 1
  Processes = {p1, p2}
  Browsers = {b1}
  Requests = {r1}
  Files <- TwoFiles
  ProviderOf <- MCProviderOf
  Accounts <- MCAccounts
  Discoveries <- MCDiscoveries
  Answers <- MCAnswers
  CheckLife = 2
  MaxWait = 1
  Stops = 1
SYMMETRY ProcessesAlike
SPECIFICATION AccessSpec
PROPERTIES
  WithinAMinute
CHECK_DEADLOCK FALSE
