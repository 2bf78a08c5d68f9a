SPECIFICATION Spec
CONSTANTS
    Callers = {c1, c2}
    Size = 2
    MaxSpawn = 4
    MaxCrashes = 2
    CursorMod = 4
    ShutsDown = TRUE
    Probed = TRUE
SYMMETRY Symmetry
INVARIANTS TypeOK NoOrphanProcess FailedStartLeavesNothing
PROPERTY OnlyDeadReplaced
CHECK_DEADLOCK FALSE
