CONSTANTS
    UISweeps <- SweptAndCarrier
    HostSweeps <- Registers
    Modes <- AllModes
    TornFreqs <- Torn
    NWaitSwitch = 1
    NWaitSynth = 1
    FirstPointWait = 2
    NPeriods = 2
    NPeriodsCal = 1
    EcalInterval = 2
    MaxGain = 2
    LowBand = 2
    MidBand = 2
    HighBand = 3
    BootFreq = 4
    MaxRepeats = 2
    MaxChanges = 1
    MaxDuring = 2
SPECIFICATION FairSpec
INVARIANTS
    TypeOK
    Settled
    MeanIsOverSummed
    GainInRange
PROPERTIES
    PointCoherent
    ClipsReported
    ImplementsPointStream
    KeepsEmitting
    EcalKeepsComing
CHECK_DEADLOCK FALSE
