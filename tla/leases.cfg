SPECIFICATION SpecWithRestarts
CONSTANTS
    None = None
    Users = {alice}
    Addresses = {a1, a2}
    Handlers = {h1, h2, h3}
    Panels = {}
    InitialQuotas = {1}
    Sizes = {}
    Requests = {}
    TopUps = {}
    MaxGranted = 1
    MaxDebt = 0
SYMMETRY Alike
INVARIANTS
    AddressesPartitioned
PROPERTIES
    ImplementsLease
