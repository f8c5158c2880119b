SPECIFICATION Spec
CONSTANTS
    None = None
    Users = {alice}
    Addresses = {a1}
    Handlers = {h1, h2}
    Panels = {p1}
    InitialQuotas = {1}
    Sizes = {1}
    Requests = {}
    TopUps = {1}
    MaxGranted = 2
    MaxDebt = 0
SYMMETRY Alike
INVARIANTS
    EarnedQuota
