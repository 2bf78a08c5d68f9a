SPECIFICATION Spec
CONSTANTS
    Goroutines = {g1, g2}
    Keys = {alice, bob}
    Rate = 2
    Capacity = 5
    Unit = 3
    Expiration = 3
    MaxTime = 7
    MaxBuckets = 3
SYMMETRY Symmetry
INVARIANT LimitUpToStrays
CHECK_DEADLOCK FALSE
