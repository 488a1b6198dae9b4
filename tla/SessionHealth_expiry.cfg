SPECIFICATION FairSpec
CONSTANTS
    Handlers = {h1}
    MaxSessions = 1
    MaxFaults = 0
    MaxCrashes = 0
PROPERTY ExpiryIsNoticed
