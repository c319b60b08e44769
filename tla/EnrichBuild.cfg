SPECIFICATION Spec
CONSTANTS
    p1 = p1
    p2 = p2
    Procs = {p1}
    MaxBuilder = 2
    MaxJev = 1
    SupportRetries = 2
    UnitCount = 2
    RunWindows = 2
    MaxRecords = 17
    MaxStarts = 4
    MaxReindex = 1
INVARIANTS
    NothingRefusedMidway
    BuildKept
PROPERTIES
    NoRepaidWindow
CHECK_DEADLOCK FALSE
