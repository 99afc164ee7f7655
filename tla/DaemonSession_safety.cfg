CONSTANTS
    Conn = {k1, k2}
    Session = {s1, s2}
    None = None
    Streaming = TRUE
    OverlayEvents = TRUE
    MaxInbox = 1
    MaxRequests = 1
    AgeMax = 2
    Recorded = {"final_result", "FAILED", "SESSION_ABORTED", "session_ended"}
SPECIFICATION Spec
SYMMETRY Symmetry
INVARIANTS
    NoOrphanCapture
    OwnerServed
    GuardIsActive
    SealedBeforeReply
PROPERTIES
    RefinesLifecycle
CHECK_DEADLOCK FALSE
