SPECIFICATION Spec
CONSTANTS
    Chats = {c1}
    Channels = {}
    Handlers = {h1}
    Poller = poller
    MaxTopics = 2
    MaxCommands = 1
    MaxCrashes = 1
    NoChat = NoChat
INVARIANT MuteSurvivesResync
