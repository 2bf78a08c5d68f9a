SPECIFICATION FairSpec
CONSTANTS
    c1 = c1
    c2 = c2
    c3 = c3
    p1 = p1
    Callers = {c1, c2, c3}
    Pages = {p1}
    PageOf <- OnePage
    SSR = {c1, c2}
    Size = 1
    MaxSpawn = 2
    MaxCrashes = 1
    CursorMod = 2
    Hangs = TRUE
INVARIANT SlotsAreWaitedFor
PROPERTIES ShutdownCompletes CancelEndsProcesses EveryPageAnswered
CHECK_DEADLOCK FALSE
