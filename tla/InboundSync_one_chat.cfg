SPECIFICATION Spec
CONSTANTS
    Chats = {c1}
    MaxMessages = 2
    HistoryLimit = 1
    BackfillCount = 1
    StormThreshold = 1
    MaxFaults = 1
    MaxCrashes = 1
    MaxCommands = 2
    MaxEvents = 2
    MaxOwn = 0
    PostKinds = {"text"}
    NoChat = NoChat
PROPERTIES
    DeliversAsPromised
    
INVARIANTS
    TypeOK
    RedeliveryIsPaid
    EveryTextHasAFate
    MuteIsLateAtMostByOneRead
