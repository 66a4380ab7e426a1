SPECIFICATION StoreSpec
CONSTANTS
    N = 2
    Budget = 4
    Estimate = 1
    Costs <- MCCosts
INVARIANTS
    BudgetStopsCandidates
    CancelStopsCandidates
    CleanedUpOnceBeforePublishing
    AcceptedMeansVerified
PROPERTIES
    ValidIsFinal
    RunEnds
CHECK_DEADLOCK FALSE
