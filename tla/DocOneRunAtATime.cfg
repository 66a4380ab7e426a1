SPECIFICATION Spec
CONSTANTS
    p1 = p1
    p2 = p2
    c1 = c1
    none = none
    Providers = {p1, p2}
    FirstProvider = p1
    Sources = {"slack"}
    Candidates = {c1}
    MinCandidates = 1
    MaxEffects = 2
INVARIANT OneRunAtATime
CHECK_DEADLOCK FALSE
