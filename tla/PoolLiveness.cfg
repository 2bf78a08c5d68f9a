SPECIFICATION FairSpec
CONSTANTS
    Callers = {c1, c2}
    Size = 2
    MaxSpawn = 4
    MaxCrashes = 2
    CursorMod = 3
    ShutsDown = FALSE
    Probed = FALSE
PROPERTIES CallsReturn DeadSlotsRefilled
CHECK_DEADLOCK FALSE
