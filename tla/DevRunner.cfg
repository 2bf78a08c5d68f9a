SPECIFICATION FairSpec
CONSTANT MaxEdits = 2
INVARIANTS AtMostOneServer NothingLeftBehind
PROPERTIES RunReturns EditsReachBuild
CHECK_DEADLOCK FALSE
