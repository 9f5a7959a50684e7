SPECIFICATION FairSpec
CONSTANTS
  MaxChunks = 2
  Verdicts = {"fine", "stream", "abort"}
  Connects = TRUE
  EarlyResponses = TRUE
INVARIANTS OneOutcomeEndsLife HooksAndEventsInOrder MessagesWhole
PROPERTIES KilledIsNotAnswered Concluded
CHECK_DEADLOCK FALSE
