SPECIFICATION Spec
CONSTANTS
    Rate = 2
    User = "me"
    Users = {"me", "other", "all"}
    All = "all"
    Addresses = {a1, a2}
    Names = {"site", "cdn"}
    Below <- SubdomainOf
    Sizes = {1, 3}
    MaxEntries = 1
    MaxAnswers = 1
    MaxRules = 1
    MaxUp = 1
    MaxDown = 2
    MaxTime = 1
    None = None
INVARIANTS
    TypeOK
    ForbiddenStays
    BlockedForCause
    CacheBounded
PROPERTIES
    RateHolds
SYMMETRY Permuted
CHECK_DEADLOCK FALSE
