SPECIFICATION FeedSpec
CONSTANTS
    Batches <- MCBatches
    Actionable <- MCActionable
    HighPriority <- MCHighPriority
    Queries <- MCQueries
    Limit = 1
    MaxTime = 2
INVARIANTS
    WalkIsExact
PROPERTIES
    EveryEdgeIsTried
