CONSTANTS
    Jogs = {"LeverLeft"}
    Centers = {"LeverCenter"}
    Touches = {"Touch"}
    TransitionThreshold = 1
    TickDelay = 3
    TickInterval = 3
SPECIFICATION LeverFairSpec
PROPERTIES
    PressesWellFormed
    HeldIsNoticed
