SPECIFICATION FairSpec
CONSTANTS
    n1 = n1
    n2 = n2
    Nodes <- MCNodes
    Parts <- MCParts
    MaxToolCalls = 2
    MaxEdits = 1
    MaxReindex = 1
INVARIANTS
    IssuedWasShown
    CitationsHold
    BudgetTrue
    OneTurn
    GroupContained
PROPERTIES
    SessionEnds
CHECK_DEADLOCK FALSE
