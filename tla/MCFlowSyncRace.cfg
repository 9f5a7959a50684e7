SPECIFICATION Spec
CONSTANTS
    Flows = {1, 2, 3}
    Values = {1, 2}
    Accepts <- MCAccepts
    Scenarios <- MCScenarios
CHECK_DEADLOCK FALSE
INVARIANT RaceIsHandled
