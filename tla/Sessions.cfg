SPECIFICATION Spec
CONSTANTS
    t1 = t1
    t2 = t2
    Tabs = {t1, t2}
    Skips = {"page", "login"}
    Rotations = {TRUE}
    MaxAge = 5
    CodecAge = 4
    Latency = 1
    MaxTime = 7
    CrossedTime = 3
    MaxPosts = 1
    MaxRestarts = 1
SYMMETRY Symmetry
INVARIANTS LogoutSticks FormsAccepted SeenIsGone
PROPERTY ActiveStaysIn
