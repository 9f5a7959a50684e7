SPECIFICATION FairSpec
CONSTANTS
  client = client
  Servers = {s1, s2}
  MaxConns = 1
  MaxReads = 0
  MaxHooks = 0
  EarlyData = FALSE
  LateOpen = FALSE
PROPERTIES PermitsGoRound
CHECK_DEADLOCK FALSE
