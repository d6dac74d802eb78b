CONSTANTS
    bufWords = 4
    Periods = {2, 3}
    Clipped <- Clips
    MaxSamples = 11
SPECIFICATION Spec
INVARIANTS
    ValuesWhole
PROPERTIES
    CaughtUp
CHECK_DEADLOCK FALSE
