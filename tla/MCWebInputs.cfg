SPECIFICATION Spec
CONSTANTS
    Undefined = Undefined
    NaN = NaN
    Uses = {"read", "type", "bar", "line"}
INVARIANTS ReadAlikeByBoth ShownIsInForce NothingEnteredIsLost CompletesWhatWasTyped LinesReadBack
CHECK_DEADLOCK FALSE
