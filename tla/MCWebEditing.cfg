SPECIFICATION Spec
CONSTANT NoEntry = NoEntry
INVARIANTS SpecsRoundTrip ShownAreRunning OptionsShown FieldsKept HeadersKept ContentShown SavedAsShown TogglingRestores
CHECK_DEADLOCK FALSE
