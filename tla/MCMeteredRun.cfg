SPECIFICATION RunSpec
CONSTANTS
    Unpriced = Unpriced
    Nobody = Nobody
    t1 = t1
    t2 = t2
    p1 = p1
    Threads <- MCThreads
    Native <- MCThreads
    Costs <- MCCosts
    MaxCost = 3
    Budget = 2
    MaxRequests = 2
    Candidates <- MCCandidates
    ServedBy <- MCServedBy
    GBrain = "gbrain"
    Configs <- MCConfigs
    Probers <- MCProbers
INVARIANTS
    OvershootIsBounded
    CompleteCostIsTheBill
    AnswerIsOwn
PROPERTIES
    CallsEnd
CHECK_DEADLOCK FALSE
