SPECIFICATION FairSpec
CONSTANTS
  Ignoring = {TRUE, FALSE}
  MaxMessages = 2
  MaxInjected = 1
  Losses = TRUE
INVARIANTS Relayed EndedOnce
PROPERTIES EndOrError
CHECK_DEADLOCK FALSE
