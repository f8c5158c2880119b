SPECIFICATION FairSpec
CONSTANTS
    None = None
    Users = {alice}
    Addresses = {a1}
    Handlers = {h1, h2}
    Panels = {}
    InitialQuotas = {1}
    Sizes = {1}
    Requests = {}
    TopUps = {}
    MaxGranted = 1
    MaxDebt = 0
PROPERTIES
    StoppedCloses
    ExhaustedCloses
CHECK_DEADLOCK FALSE
