CONSTANTS
    UISweeps <- TwoSweeps
    HostSweeps <- WideSweep
    BootSweeps <- LowSweep
    BootAverages <- One
    Averages <- OneOrTwo
    RecalledAverages <- None
    HostAverages <- None
    Modes <- BothModes
    SweepPointsMax = 3
    UsbPointsMax = 3
    QueueSize = 3
    IgnoreAfterSave = 1
    MaxAverage = 2
    MaxChanges = 1
SPECIFICATION FairSpec
INVARIANTS
    TypeOK
PROPERTIES
    DisplayConverges
    EcalEnds
    CollectionEnds
