SPECIFICATION DiscSpec
CONSTANTS
    mouse = mouse
    combo = combo
    keyboard = keyboard
    bare = bare
    odd = odd
    Peers = {odd}
    None = None
    DB <- MCDB
    MapLen <- MCMapLen
    PointerId <- MCPointerId
    NoPointer = NoPointer
    RM_MAX = 1
    MAX_REPORTS = 2
    MaxFaults = 0
INVARIANTS
    NoForeignDescriptor
