SPECIFICATION FairSpec
CONSTANTS
  client = client
  Servers = {s1}
  MaxConns = 1
  MaxReads = 2
  MaxHooks = 1
  EarlyData = TRUE
  LateOpen = FALSE
INVARIANTS NothingLeaks AttemptsAccountedFor
PROPERTIES NoPrematureClose Terminates
CHECK_DEADLOCK FALSE
