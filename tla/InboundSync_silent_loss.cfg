SPECIFICATION MappedSpec
CONSTANTS
    Chats = {c1}
    MaxMessages = 2
    HistoryLimit = 2
    BackfillCount = 1
    StormThreshold = 2
    MaxFaults = 1
    MaxCrashes = 0
    MaxCommands = 0
    MaxEvents = 1
    MaxOwn = 0
    PostKinds = {"text"}
    NoChat = NoChat
INVARIANT NoSilentLoss
