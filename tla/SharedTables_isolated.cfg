SPECIFICATION Spec
CONSTANTS
    Nobody = Nobody
    Users = {u1, u2}
    Chats = {c1}
    MaxMessages = 2
    HistoryLimit = 1
    BackfillCount = 1
    MaxCommands = 1
    MaxFaults = 1
    MaxCrashes = 1
INVARIANT Isolated
