SPECIFICATION HintSpec
CONSTANTS
    w1 = w1
    w2 = w2
    r1 = r1
    g1 = g1
    g2 = g2
    g3 = g3
    Docs = {1, 2}
    Writers = {w1, w2}
    Askers = {r1}
    Gens = {g1, g2, g3}
    TextOf <- MCTextOf
    MaxFiles = 2
    Restores = FALSE
    MaxEdits = 2
    MaxRuns = 4
    MaxReads = 1
SYMMETRY Symmetry
INVARIANTS
    CurrentComplete
    HintsWitnessed
PROPERTIES
    PublicationSound
CHECK_DEADLOCK FALSE
