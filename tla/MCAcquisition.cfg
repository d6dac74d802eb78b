CONSTANTS
    UISweeps <- TwoSweeps
    HostSweeps <- WideSweep
    BootSweeps <- LowSweep
    BootAverages <- One
    Averages <- OneOrTwo
    RecalledAverages <- None
    HostAverages <- Two
    Modes <- BothModes
    SweepPointsMax = 3
    UsbPointsMax = 3
    QueueSize = 2
    IgnoreAfterSave = 1
    MaxAverage = 2
    MaxChanges = 3
SPECIFICATION Spec
INVARIANTS
    EcalComplete
PROPERTIES
    CollectionComplete
VIEW ValuesAside
