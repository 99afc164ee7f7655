CONSTANTS
    Conn = {k1, k2}
    Session = {s1, s2}
    None = None
    Streaming = FALSE
    OverlayEvents = TRUE
    MaxInbox = 2
    MaxRequests = 2
    AgeMax = 2
    Recorded = {"final_result", "session_ended", "SESSION_BUSY", "SESSION_NOT_FOUND", "FAILED", "UNEXPECTED"}
    Intents = {"dictate", "llm"}
SPECIFICATION SystemSpec
SYMMETRY Symmetry
INVARIANTS
    AgreementUnlessMisled
    DeferredIsAwaited
PROPERTY InjectedFromHere
CHECK_DEADLOCK FALSE
