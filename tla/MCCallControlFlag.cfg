SPECIFICATION Spec
CONSTANTS
    Callers = {friend, stranger}
    Phonebook = {friend}
    NoCaller = NoCaller
    Commands = {"ATD", "ATH", "PB_ONLY=1", "query"}
    MayRefuse = {"ATA", "ATD"}
    MaxCalls = 2
    MaxCommands = 2
    MaxKeepAlives = 1
    MaxRestarts = 0
    MaxUnread = 3
INVARIANTS
    TypeOK
    FlagTellsCall
CONSTRAINT NotMisled
