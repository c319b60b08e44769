SPECIFICATION FairSpec
CONSTANTS
    p1 = p1
    p2 = p2
    Procs <- MCProcs
    MaxBuilder = 2
    MaxJev = 1
    SupportRetries = 1
    UnitCount = 1
    RunWindows = 1
    MaxRecords = 12
    MaxStarts = 3
    MaxReindex = 0
INVARIANTS
    FileGoverns
PROPERTIES
    ImplementsLedger
    RunsEnd
CHECK_DEADLOCK FALSE
