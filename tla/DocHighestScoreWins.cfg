SPECIFICATION VerdictSpec
CONSTANTS
    Candidates = {1, 2, 3}
    Cases = 4
    MinScoredCases = 4
    MinSuccess = 90
    MinSupport = 50
    QualityFloor = 50
    Epsilon = 25
    Costs = {1, 2}
    Latencies = {1}
    Infinity = 9
    NoRecommendation = NoRecommendation
    null = null
INVARIANT HighestScoreWins
CHECK_DEADLOCK FALSE
