SPECIFICATION SearchSpec
CONSTANTS
    w1 = w1
    r1 = r1
    g1 = g1
    g2 = g2
    Docs = {1, 2}
    Writers = {w1}
    Readers = {r1}
    Gens = {g1, g2}
    TextOf <- MCTextOf
    Queries <- MCQueries
    MaxFiles = 1
    Restores = TRUE
    Limit = 1
    MaxEdits = 2
    MaxRuns = 1
    MaxSearches = 1
    MaxOutages = 0
SYMMETRY Symmetry
INVARIANTS
    FreshEvidence
CHECK_DEADLOCK FALSE
