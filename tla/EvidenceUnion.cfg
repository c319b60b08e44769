SPECIFICATION Spec
CONSTANTS
    Spans = {1, 2, 3, 4}
    SourceOf <- MCSourceOf
    Views = 2
    MaxWindows = 2
    MaxCandidates = 3
    Limit = 2
    Scores = {0, 1}
    MinScore = 1
    Roles = {1, 2}
INVARIANTS
    UnionSound
    DeliveryExplained
    LedgerAgreesWithIssue
CHECK_DEADLOCK FALSE
