CONSTANTS
  e = e
  s = s
  l1 = l1
  l2 = l2
  p1 = p1
  p2 = p2
  b1 = b1
  b2 = b2
  t1 = t1
  c1 = c1
  c2 = c2
  r1 = r1
  k1 = k1
  None = None
  DomainOf <- MCDomainOf
  People = {e, s}
  Logins = {l1, l2}
  Callbacks = {c1, c2}
  Tokens = {t1}
  Codes = {k1}
  AtMost = 1
  WrongTries = 1
  Life = 1
  OwnerOf <- MCOwnerOf
  LoginLife = 1
  SessionLife = 1
  FreshFor = 1
  Processes = {p1}
  Browsers = {b1, b2}
  Requests = {r1}
  Files <- MCFiles
  ProviderOf <- MCProviderOf
  Accounts <- MCAccounts
  Discoveries <- MCDiscoveries
  Answers <- MCAnswers
  CheckLife = 1
  MaxWait = 0
  Stops = 0
INVARIANTS
  AccessInv
  LandsWhereBegun
  OnlyThoseMeant
SYMMETRY BrowsersAlike
SPECIFICATION AccessSpec
CHECK_DEADLOCK FALSE
