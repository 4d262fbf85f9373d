SPECIFICATION Spec
CONSTANTS
    mouse = mouse
    combo = combo
    Peers = {mouse, combo}
    None = None
    DB <- MCDB
    MapLen <- MCMapLen
    PointerId <- MCPointerId
    NoPointer = NoPointer
    RM_MAX = 1
    MAX_REPORTS = 2
    MaxFaults = 1
    MsgqMax = 2
    Cooperative = TRUE
INVARIANTS
    NoReportStranded
    OnlyPointerOnceWired
PROPERTIES
    LoneReportPublished
    ImplementsDelivery
