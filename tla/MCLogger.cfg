SPECIFICATION FairSpec
CONSTANTS
    Threads = {main, play}
    Nobody = Nobody
    CLOG_MAX_MESSAGE_SIZE = 1024
    CLOG_MAX_TIME_SIZE = 32
    CLOG_MAX_LOCATION_SIZE = 256
    Lengths <- MCLengths
    MaxExits = 1
INVARIANTS
    TypeOK
    LinesWhole
    WriteInBounds
PROPERTIES
    LinesEnd
CHECK_DEADLOCK FALSE
