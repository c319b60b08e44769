SPECIFICATION Spec
CONSTANTS
    EventLimits = {11, 17, 30}
    MaxBatches = 2
    MaxFaults = 2
INVARIANTS
    ReservedBeforeSpent
    TerminalTrue
    AdmittedScanFits
CHECK_DEADLOCK FALSE
