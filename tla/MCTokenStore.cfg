SPECIFICATION Spec
CONSTANTS
    Nobody = Nobody
    p1 = p1
    p2 = p2
    Procs <- MCProcs
    MaxTokens = 3
INVARIANTS
    NoReplay
    NoOrphanToken
    DeadGrantForgotten
    OneRefresher
CHECK_DEADLOCK FALSE
