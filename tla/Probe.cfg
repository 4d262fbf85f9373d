SPECIFICATION FairSpec
CHECK_DEADLOCK FALSE
CONSTANTS
    mouse = mouse
    combo = combo
    Peers = {mouse, combo}
    None = None
    Ads <- MCAds
    DB <- MCDB
    MAX_PAIRED = 1
    MAX_REPORTS = 2
    MAX_SEEN = 1
    MaxFaults = 2
INVARIANTS
    TypeOK
    ConnMatchesLink
    WiredOwn
    Complete
PROPERTIES
    ImplementsSubscriptions
    ReconnectsUnlessStuck
    DiscoveryEnds
