SPECIFICATION Spec
CONSTANTS
    home = home
    about = about
    r1 = r1
    r2 = r2
    NoTag = NoTag
    Pages = {home, about}
    Requests = {r1, r2}
    Chains <- EtagOnly
    Codes = {200, 204, 404}
    Validators <- NoTags
INVARIANT BodyMatchesEtag
CHECK_DEADLOCK FALSE
