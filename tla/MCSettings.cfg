CONSTANTS
    FREQUENCY_MIN = 1
    FREQUENCY_MAX = 5
    SWEEP_POINTS_MIN = 2
    SWEEP_POINTS_MAX = 4
    FULL = 0
    REFL_THRU = 1
    Modes = {0, 1}
    Entered <- Typed
    EnteredPoints = {1, 3, 5}
    Default <- Factory
    SAVEAREA_MAX = 2
    Pages <- TwoPages
    MaxSaves = 2
    MaxSettings = 2
SPECIFICATION Spec
INVARIANTS
    FreqInRange
    CalFromNeighbours
PROPERTIES
    RecallsWhatWasSaved
