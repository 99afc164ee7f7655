CONSTANTS
    Session = {s1, s2}
    None = None
    Nil = Nil
    Outputs = {o1, o2}
    NeedsName = TRUE
    MaxSeq = 3
SPECIFICATION Spec
INVARIANTS
    Restored
    OverLeaves
PROPERTY QuestionKept
CHECK_DEADLOCK FALSE
