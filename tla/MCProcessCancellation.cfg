SPECIFICATION Spec
CONSTANTS
    provider = provider
    gbrain = gbrain
    c1 = c1
    c2 = c2
    Ops <- MCOps
    GroupOps <- MCGroupOps
    Cancellers <- MCCancellers
INVARIANTS
    KilledIsNotAResult
    NobodyWaitsForTheLiving
    NothingOutlivesItsRun
PROPERTY
    CancelEndsOperations
CHECK_DEADLOCK FALSE
