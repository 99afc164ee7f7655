CONSTANTS
    None = None
    Capacity = 6
    MaxSamples = 5
    SliceSize = 2
    Blocks = {1, 2, 7}
    MaxClock = 11
SPECIFICATION Spec
INVARIANTS
    OneStretch
    SlicesCover
PROPERTY FinalIsWhole
CHECK_DEADLOCK FALSE
