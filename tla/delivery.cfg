SPECIFICATION FairSpec
CONSTANTS
    MaxData = 2
    Lengths = {3}
    MaxPackets = 2
    MaxControl = 2
    WireSize = 5
    Session = 5
    Nobody = Nobody
INVARIANTS
    TypeOK
    StreamArrives
    OnlyTimeoutsGarble
PROPERTIES
    WrittenIsReceived
CHECK_DEADLOCK FALSE
