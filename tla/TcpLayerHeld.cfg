SPECIFICATION Spec
CONSTANTS
  Ignoring = {FALSE}
  MaxMessages = 2
  MaxInjected = 0
  Losses = FALSE
INVARIANTS RelaysEverything
CHECK_DEADLOCK FALSE
