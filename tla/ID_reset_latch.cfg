SPECIFICATION Spec
CONSTANTS
    ButtonBits = {0, 1}
    PUBLISH_BTNS = 2
    Reports <- MCButtonReports
    QueueMax = 3
    HWheelAsKeys = FALSE
    WheelAsKeys = FALSE
    Cooperative = TRUE
PROPERTIES
    ResetReleasesAll
