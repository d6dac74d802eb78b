CONSTANTS
    QueueSize = 1
    NUMINPUT_LEN = 2
SPECIFICATION FairSpec
INVARIANTS
    MenuPath
    RedrawMatchesKeypad
PROPERTIES
    UserGetsBack
CHECK_DEADLOCK FALSE
