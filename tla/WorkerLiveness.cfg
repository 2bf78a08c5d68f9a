SPECIFICATION FairSpec
CONSTANTS
    Callers = {c1, c2}
    Components = {Header}
    NoHTML = NoHTML
    MaxID = 2
    StdinCap = 1
    StdoutCap = 1
    Faults = {"noise", "crash"}
PROPERTY EveryRenderReturns
CHECK_DEADLOCK FALSE
