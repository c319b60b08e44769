SPECIFICATION FairSpec
CONSTANTS
    Alternates = 2
    MaxInFlight = 2
    MaxHits = 2
    MaxReindex = 1
INVARIANTS
    LedgerBrackets
    RecordComplete
    DeliverySound
PROPERTIES
    NoCallAfterRefusal
    SearchEnds
CHECK_DEADLOCK FALSE
