SPECIFICATION FairSpec
CONSTANTS
    Callers = {friend, stranger}
    Phonebook = {friend}
    NoCaller = NoCaller
    Commands = {"ATD", "ATH", "PB_ONLY=1", "RNSTOP"}
    MayRefuse = {"ATA", "ATD"}
    MaxCalls = 2
    MaxCommands = 1
    MaxKeepAlives = 0
    MaxRestarts = 1
    MaxUnread = 2
PROPERTIES
    CommandReturns
    KnownCallerServed
