SPECIFICATION FairSpec
CONSTANTS
    Users = {u1, u2}
    Senders = {s1}
    Poller = poller
    Main = main
    MaxClients = 3
    MaxFaults = 1
INVARIANTS
    TypeOK
    CacheIsExact
    FailureShows
    QueueIsExact
    NoClientIsLost
PROPERTIES
    VisitedOrUnhealthy
    ShutdownEnds
    KeepsSessions
    WindsDown
CHECK_DEADLOCK FALSE
