SPECIFICATION Spec
CONSTANTS
    p1 = p1
    q1 = q1
    q2 = q2
    none = none
    Threads = {1, 2, 3}
    Pages = {p1}
    Questions = {q1, q2}
    MinCases = 2
    MaxCases = 2
    Settings <- MCSettings
    PageKinds <- MCPageKinds
    Budget = 1
    MaxCost = 1
INVARIANTS
    AnswersStayWithTheEvaluator
    UsageIsTheBill
    ArtifactsAreWhole
PROPERTY BuildEnds
CHECK_DEADLOCK FALSE
