CONSTANTS
    s1 = s1
    s2 = s2
    Session = {s1, s2}
    None = None
    Nil = Nil
    Char <- Letters
    Full = 15
    Measure = 4
    MaxLines = 2
    Transcripts <- Spoken
    Answers <- Answered
    Sendable <- Script
    Slots = {1, 2}
    MaxSent = 4
SPECIFICATION FairSpec
INVARIANTS
    OwnTail
    ClampRight
    AnswerWhole
    DrawnRight
    CoilReads
PROPERTIES
    CatchesUp
    NoTear
    SettledStay
CHECK_DEADLOCK FALSE
