CONSTANTS
    UISweeps <- LowSweep
    HostSweeps <- None
    BootSweeps <- LowSweep
    BootAverages <- One
    Averages <- OneOrTwo
    RecalledAverages <- One
    HostAverages <- None
    Modes <- FullMode
    SweepPointsMax = 3
    UsbPointsMax = 3
    QueueSize = 3
    IgnoreAfterSave = 1
    MaxAverage = 2
    MaxChanges = 2
SPECIFICATION FairSpec
PROPERTIES
    DisplayConverges
