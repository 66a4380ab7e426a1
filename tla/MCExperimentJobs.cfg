SPECIFICATION Spec
CONSTANTS
    e1 = e1
    e2 = e2
    e3 = e3
    c1 = c1
    c2 = c2
    Ids <- MCIds
    Clients <- MCClients
    MaxJobs = 2
    MaxEvents = 1
INVARIANTS
    CancelWins
    OneOwner
    NoStrandedJob
PROPERTIES
    ImplementsLifecycle
    JobsSettle
CHECK_DEADLOCK FALSE
