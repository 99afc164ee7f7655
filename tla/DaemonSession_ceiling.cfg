CONSTANTS
    Conn = {k1, k2}
    Session = {s1, s2}
    None = None
    Streaming = FALSE
    OverlayEvents = TRUE
    MaxInbox = 1
    MaxRequests = 0
    AgeMax = 2
    Recorded = {}
SPECIFICATION FairSpec
PROPERTY HardCeiling
CHECK_DEADLOCK FALSE
