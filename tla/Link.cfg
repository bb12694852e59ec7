SPECIFICATION FairSpec
CONSTANT
    Scenarios <- MCScenarios
INVARIANTS TypeOK ActivatedHasEngine Deactivated
PROPERTIES LinkWindsUp
CHECK_DEADLOCK FALSE
