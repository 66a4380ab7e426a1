SPECIFICATION RunSpec
CONSTANTS
    c1 = c1
    c2 = c2
    c3 = c3
    m1 = m1
    m2 = m2
    n1 = n1
    r1 = r1
    r2 = r2
    f1 = f1
    f2 = f2
    v1 = v1
    e1 = e1
    e2 = e2
    slack = slack
    notion = notion
    none = none
    b1 = b1
    b2 = b2
    Cursors = {k1, k2}
    Results <- MCResults
    Unknowns <- MCUnknowns
    Main = main
    Channels <- MCChannels
    Listing <- MCListing
    History <- MCHistory
    ToolSets <- MCToolSets
    Concurrency = 1
    MaxRetries = 1
INVARIANTS
    OkIsComplete
    PartialMarksAreTrue
    ClaimedCoverageIsWhole
PROPERTY CrawlEnds
CHECK_DEADLOCK FALSE
