SPECIFICATION FairSpec
CONSTANTS
    BlockSamples = 8
    CutOff = 2
    buf_sz = 38
    QueueLimit = 3
    MaxInFlight = 2
INVARIANTS
    TypeOK
    NeverAhead
    RoomForBacklog
PROPERTIES
    BacklogDrains
