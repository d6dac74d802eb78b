CONSTANTS
    BufferSize = 32
    PacketMax = 7
    UserFlash = 16
    UserFlashEnd = 48
    PageSize = 8
    SendBlock = 3
    ReadBlock = 4
    Streams <- Everything
SPECIFICATION FairSpec
INVARIANTS
    CallsAreMeaning
    NothingLost
    FlashHoldsHanded
PROPERTIES
    DroppedOnlyWhenFull
    UploadEnds
CHECK_DEADLOCK FALSE
