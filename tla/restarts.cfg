SPECIFICATION SpecWithRestarts
CONSTANTS
    None = None
    Users = {alice}
    Addresses = {a1, a2}
    Handlers = {h1, h2}
    Panels = {}
    InitialQuotas = {1}
    Sizes = {1}
    Requests = {1}
    TopUps = {}
    MaxGranted = 2
    MaxDebt = 0
SYMMETRY Alike
INVARIANTS
    OnlineFlagBacked
    EarnedQuota
