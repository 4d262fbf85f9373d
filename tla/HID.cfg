SPECIFICATION Spec
CONSTANTS
    BYTE = 3
    WORD = 4
    ZMK_HID_MAX_BUTTONS = 2
    ZMK_HID_MAX_KEYS = 2
    MAX_LOCAL_USAGES = 2
    GLOBAL_STACK_DEPTH = 1
    BIT_OFFSET_MAX = 7
    PAGE_GENERIC_DESKTOP = 1
    PAGE_KEYBOARD = 7
    PAGE_BUTTON = 9
    PAGE_CONSUMER = 12
    USAGE_GD_MOUSE = 2
    USAGE_GD_KEYBOARD = 6
    USAGE_GD_X = 48
    USAGE_GD_Y = 49
    USAGE_GD_WHEEL = 56
    USAGE_KBD_MOD_MIN = 60
    USAGE_CONSUMER_AC_PAN = 57
    MaxBits = 8
    MaxDepth = 2
    MaxBytes = 3
    None = None
    Dialects <- MCDialects
    Phrases <- MCPhrases
INVARIANTS
    MapTypeOK
    RightPlaces
    CursorFollows
    ReadsInside
    PointerMeaning
    KeyboardMeaning
PROPERTIES
    FirstUsableKept
