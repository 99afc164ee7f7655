CONSTANTS
    Session = {s1, s2}
    None = None
    Nil = Nil
    Intents = {"dictate", "llm"}
    MaxSeq = 3
SPECIFICATION FairSpec
INVARIANTS
    CurrentShown
    AnswerShown
PROPERTIES
    NotReopened
    LeavesUnlessCut
CHECK_DEADLOCK FALSE
