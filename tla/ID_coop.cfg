SPECIFICATION Spec
CONSTANTS
    ButtonBits = {0, 1, 2}
    PUBLISH_BTNS = 2
    Reports <- MCReports
    QueueMax = 3
    HWheelAsKeys = TRUE
    WheelAsKeys = TRUE
    Cooperative = TRUE
INVARIANTS
    TypeOK
    DpadTracked
    NoPhantomPress
    DrainedAgrees
PROPERTIES
    LatchOnlyByReset
