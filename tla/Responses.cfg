SPECIFICATION Spec
CONSTANTS
    home = home
    about = about
    r1 = r1
    r2 = r2
    NoTag = NoTag
    Pages = {home, about}
    Requests = {r1, r2}
    Chains <- AllChains
    Codes = {200, 204, 404}
    Validators <- PageTags
INVARIANTS WritersExclusive NotModifiedIsCurrent FailuresReported AnswerStands LoggedIsSent HeadersMatchBody
SYMMETRY Sym
CHECK_DEADLOCK FALSE
