SPECIFICATION ViewSpec
CONSTANTS
    Layouts <- MCSmallLayouts
    MaxCandidates = 2
    RoutingDocs = 3
    TopRanked = 2
    Limit = 2
    Scores = {0, 1, 2}
    MinScore = 1
    MaxMatches = 3
INVARIANTS
    TruncationReported
CHECK_DEADLOCK FALSE
