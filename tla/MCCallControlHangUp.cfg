SPECIFICATION FairSpec
CONSTANTS
    Callers = {friend, stranger}
    Phonebook = {friend}
    NoCaller = NoCaller
    Commands = {"ATH"}
    MayRefuse = {}
    MaxCalls = 2
    MaxCommands = 1
    MaxKeepAlives = 0
    MaxRestarts = 0
    MaxUnread = 2
PROPERTIES
    IncomingCallsAnswered
