SPECIFICATION Spec
CONSTANTS
  MaxChunks = 1
  Verdicts = {"fine"}
  Connects = FALSE
  EarlyResponses = TRUE
INVARIANT ErrorOrResponse
CHECK_DEADLOCK FALSE
