SPECIFICATION Spec
CONSTANTS
    mem0 = mem0
    llmWiki = llmWiki
    gbrain = gbrain
    Docs = 2
    Queries = 2
    MaxCleanups = 2
    MaxMemories = 2
INVARIANTS
    AttributionHolds
    RedactionHolds
PROPERTIES
    ImplementsContract
    CandidateSettles
CHECK_DEADLOCK FALSE
