\* Two texts, room for one, two failures, one copy by the user; every setting.
CONSTANTS
    Jobs = 2
    Capacity = 1
    MaxFaults = 2
    MaxCopies = 1
SPECIFICATION FairSpec
INVARIANTS
    PastesOwn
    PastedOnce
    KeysReleased
    Kept
PROPERTY Reported
\* Every text has been dealt with.
CHECK_DEADLOCK FALSE
