SPECIFICATION Spec
CONSTANTS
    Chats = {c1}
    Channels = {c1}
    Handlers = {h1}
    Poller = poller
    MaxTopics = 2
    MaxCommands = 1
    MaxCrashes = 1
    NoChat = NoChat
INVARIANTS
    TypeOK
    CommandsStand
    OnlyDepartedAutoMuted
    DuplicatesDoNotPileUp
