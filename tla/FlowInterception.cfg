SPECIFICATION AttentiveSpec
CONSTANT UserActions = {"resume", "kill", "edit", "revert"}
INVARIANTS WaitsAreConsistent
PROPERTIES InterceptionHolds KilledIsNotForwarded FlowEnds
CHECK_DEADLOCK FALSE
