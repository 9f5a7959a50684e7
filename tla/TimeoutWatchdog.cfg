SPECIFICATION Spec
CONSTANTS
  Timeout = 3
  MaxTime = 11
  MaxHooks = 2
  Races = {"chained_hook", "silent_hook", "slow_connect"}
INVARIANTS IdleIsTimedOut
PROPERTIES HooksInTimeAreSafe
CHECK_DEADLOCK FALSE
