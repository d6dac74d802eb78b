CONSTANTS
    NCells = 3
    MenuCells = {3}
    UpperCells = {1}
    Shapes = {"flat", "steep"}
    Positions = {1, 2}
    Off = 0
    Trace <- TraceCells
    Icon <- IconCells
    MaxEvents = 4
    MaxFrames = 2
SPECIFICATION FairSpec
INVARIANTS
    NoGhosts
PROPERTIES
    KeypadUndisturbed
    CatchesUp
CHECK_DEADLOCK FALSE
