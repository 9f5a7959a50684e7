SPECIFICATION Spec
CONSTANTS
  Timeout = 3
  MaxTime = 11
  MaxHooks = 2
  Races = {"chained_hook"}
PROPERTIES OnlyIdleTimesOut
CHECK_DEADLOCK FALSE
