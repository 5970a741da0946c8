SPECIFICATION Spec
CONSTANTS
    Id = {a, b, c, d}
    NodeTableSize = 3
    NodeTimeout = 2
    PruneEvery = 1
    ClockMod = 6
    MaxTime = 9
SYMMETRY Symmetry
INVARIANTS TypeOK NoDuplicates NoStaleEntry
PROPERTIES FreshSurvivesPrune
CHECK_DEADLOCK FALSE
