SPECIFICATION Spec
CONSTANTS
    None = None
    Threads = {t1, t2}
    Clients = {c1}
    Flows = {f1, f2, f3}
    Ports = {q1, q2, q3}
    MaxPerClient = 1
SYMMETRY Alike
INVARIANTS
    TypeOK
    NoStaleReverse
    RepliesFindFlow
    TablesBounded
