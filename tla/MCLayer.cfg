SPECIFICATION FairSpec
CONSTANTS
  Depth = 3
  MaxEvents = 2
  MaxCommands = 4
INVARIANTS TypeOK InOrder CallStack NothingLeftBehind
PROPERTIES ImplementsMailbox
CHECK_DEADLOCK FALSE
