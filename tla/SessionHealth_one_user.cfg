SPECIFICATION FairSpec
CONSTANTS
    Handlers = {h1, h2}
    MaxSessions = 2
    MaxFaults = 1
    MaxCrashes = 1
INVARIANTS
    TypeOK
    OneNoticeADay
    OnlyLostAreMarked
PROPERTY LossIsNoticed
