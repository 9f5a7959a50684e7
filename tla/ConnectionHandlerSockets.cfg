SPECIFICATION Spec
CONSTANTS
  client = client
  Servers = {s1}
  MaxConns = 1
  MaxReads = 1
  MaxHooks = 0
  EarlyData = FALSE
  LateOpen = FALSE
INVARIANTS SocketsAreClosed
CHECK_DEADLOCK FALSE
