SPECIFICATION Spec
CONSTANT UserActions = {"resume", "kill"}
INVARIANTS ResumeIsHeard
CHECK_DEADLOCK FALSE
