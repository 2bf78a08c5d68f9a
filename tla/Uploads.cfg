SPECIFICATION Spec
CONSTANTS
    r1 = r1
    r2 = r2
    none = none
    NoBody = none
    Requests = {r1, r2}
    Paths = {"avatar", "report"}
    Fields <- SomeFields
    MaxBytes = 2
    Bodies <- AllBodies
    Wide = 8
    Kinds <- SmallKinds
INVARIANTS SaveIsWhole OnlySavedBytes HandlesAreReturned DecodeIsStrict QueryIntIsExact
SYMMETRY Sym
CHECK_DEADLOCK FALSE
