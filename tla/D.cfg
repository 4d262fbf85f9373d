SPECIFICATION FairDiscSpec
CONSTANTS
    mouse = mouse
    combo = combo
    keyboard = keyboard
    bare = bare
    odd = odd
    Peers = {mouse, combo, keyboard, bare}
    None = None
    DB <- MCDB
    MapLen <- MCMapLen
    PointerId <- MCPointerId
    NoPointer = NoPointer
    RM_MAX = 1
    MAX_REPORTS = 2
    MaxFaults = 3
INVARIANTS
    DiscTypeOK
    AnswerFindsItsState
    WiredRight
    SlotsSound
    DescriptorsApart
    Complete
    OnlyFirstPassIsLeftOpen
PROPERTIES
    ImplementsSubscriptions
    DiscoveryEnds
