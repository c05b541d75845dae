SPECIFICATION FairSpec
CONSTANTS
    MaxPairs = 2
    MaxLoads = 2
    NotSet = NotSet
    Defaults <- MCDefaults
    Environments <- MCEnvironments
    Files <- MCFiles
INVARIANTS
    TypeOK
    OnePlayer
    SecondPairIsBrief
    SectionsExclusive
PROPERTIES
    TakenPortEndsProcess
    LastPairEnds
CHECK_DEADLOCK FALSE
