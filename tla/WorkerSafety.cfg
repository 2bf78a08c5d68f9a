SPECIFICATION Spec
CONSTANTS
    Callers = {c1, c2}
    Components = {Header, Counter}
    NoHTML = NoHTML
    MaxID = 3
    StdinCap = 1
    StdoutCap = 1
    Faults = {"noise", "corrupt", "hang", "crash"}
SYMMETRY Symmetry
INVARIANTS OwnReply NoPendingLeak
PROPERTIES NoLiveResponseDiscarded ImplementsRenderService ImplementsSubprocess
CHECK_DEADLOCK FALSE
