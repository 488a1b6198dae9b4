SPECIFICATION MappedFairSpec
CONSTANTS
    Chats = {c1, c2}
    MaxMessages = 1
    HistoryLimit = 1
    BackfillCount = 1
    StormThreshold = 2
    MaxFaults = 1
    MaxCrashes = 0
    MaxCommands = 0
    MaxEvents = 1
    MaxOwn = 1
    PostKinds = {"text", "service"}
    NoChat = NoChat
PROPERTY EventuallySettled
