SPECIFICATION Spec
CONSTANTS
    Requests <- EveryRequest
    Settings <- SeparateSettings
    MaxRequests = 2
    MaxFailures = 1
    MaxKeepAlives = 1
    MaxRestarts = 1
INVARIANTS
    TypeOK
    OnlyWhatIsPermitted
    ReplyTellsAnswers
    TextIsSent
PROPERTIES
    TextAsTyped
CHECK_DEADLOCK FALSE
