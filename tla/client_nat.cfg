SPECIFICATION Spec
CONSTANTS
    WordSize = 5
    Flows <- SmallFlows
    Ports = {0, 1, 2, 3, 4}
    Ignored = {4}
    Exit = 2
    MaxEntries = 2
    MaxICMP = 2
    None = None
INVARIANTS
    TypeOK
    MapsAreInverse
    EmittedIsMapped
    AnswersReachFlow
    TablesBounded
    RewritesVerify
