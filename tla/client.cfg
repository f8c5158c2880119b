SPECIFICATION FairSpec
CONSTANTS
    MaxRetries = 2
    Machines = {{"system loopback"}, {"system route"}}
INVARIANTS
    TypeOK
    SessionsDoNotMix
    ThreadsHaveResources
    NothingLeftOpen
    MachineOnRecord
PROPERTIES
    HangsOnlyOnSilence
    SessionEndsWhole
CHECK_DEADLOCK FALSE
