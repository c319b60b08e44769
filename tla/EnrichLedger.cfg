SPECIFICATION Spec
CONSTANTS
    MaxBuilder = 1
    MaxJev = 1
    SupportRetries = 1
    u1 = u1
    u2 = u2
    Units <- MCUnits
    Artifacts <- MCArtifacts
SYMMETRY Symmetry
INVARIANTS
    TypeOK
    CallBudget
    HistorySound
PROPERTIES
    PreparedFreezesHistory
CHECK_DEADLOCK FALSE
