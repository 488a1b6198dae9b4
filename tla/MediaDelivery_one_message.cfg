SPECIFICATION Spec
CONSTANTS
    Attachments <- MCAttachments
    MaxAttaches = 3
    Texts = {0, 1, 3, 11}
    PrefixLen = 2
    CaptionLimit = 4
    TextLimit = 6
    GroupLimit = 2
    RetryLimit = 1
    MaxFaults = 2
CHECK_DEADLOCK FALSE
PROPERTY AlwaysNearer
INVARIANTS
    TypeOK
    DeliveredIsShown
    RepeatedOnlyAfterRefusal
    TextInOrder
    TextLostOnlyToFallback
