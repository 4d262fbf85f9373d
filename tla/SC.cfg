SPECIFICATION FairSpec
CONSTANTS
    Peers = {p1, p2}
    Pointers = {p1, p2}
    None = None
    MAX_PAIRED = 1
    FAIL_COOLDOWN = 2
    Wrap = 4
    AgeMax = 3
PROPERTIES
    ReconnectsUnlessLeftOpen
    LastRefusedSkipped
    ImplementsReconnect
INVARIANTS
    TypeOK
    ScanOnlyIdle
