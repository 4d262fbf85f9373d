SPECIFICATION FairSpec
CONSTANTS
    ButtonBits = {0}
    PUBLISH_BTNS = 1
    Reports <- MCOneWheelReports
    QueueMax = 5
    HWheelAsKeys = FALSE
    WheelAsKeys = TRUE
    Cooperative = TRUE
PROPERTIES
    TapsReach
    PressesReach
    ReleasesReach
