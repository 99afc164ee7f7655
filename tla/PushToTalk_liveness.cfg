CONSTANTS
    Conn = {k1, k2}
    Session = {s1, s2}
    None = None
    Streaming = TRUE
    OverlayEvents = TRUE
    MaxInbox = 2
    MaxRequests = 2
    AgeMax = 2
    Recorded = {"final_result", "session_ended", "SESSION_BUSY", "SESSION_NOT_FOUND", "FAILED", "UNEXPECTED"}
    Intents = {"dictate", "llm"}
SPECIFICATION FairNarrow
PROPERTIES
    ReadyAgain
    HandlerReturns
    
CHECK_DEADLOCK FALSE
