SPECIFICATION AllSpec
CONSTANTS
    Layouts <- MCLayouts
    MaxCandidates = 3
    RoutingDocs = 2
    TopRanked = 2
    Limit = 2
    Scores = {0, 1, 2}
    MinScore = 1
    MaxMatches = 3
    Widths <- MCWidths
    MaxChars = 5
    Budgets = {1, 2, 4}
    Shapes <- MCShapes
    Titles = {"a", "b"}
    MaxLevel = 2
    TextBytes = 4
    MaxWindows = 3
    HintSizes = {1, 2, 3}
    MaxHints = 4
    Envelope = 5
    Frame = 1
    MaxQuestions = 3
    MaxCalls = 2
    MaxBytes = 9
    Grades = {0, 1, 2}
    MaxSelected = 2
    MaxPacket = 4
INVARIANTS
    CandidatesKept
    ExhaustiveWhenClaimed
    TreeCovers
    MergeKeeps
    NeverDearer
    WindowsJoin
    HintsExact
CHECK_DEADLOCK FALSE
