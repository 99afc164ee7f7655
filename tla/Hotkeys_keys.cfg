\* Two keyboards and the client's own, one modifier, two presses, one fault or device plugged in.
CONSTANTS
    Path = {d1, d2, v}
    Ours = {v}
    Modifiers = {Shift}
    Talk = Talk
    MaxPresses = 2
    MaxTroubles = 1
SPECIFICATION FairSpec
INVARIANTS
    CountsMatch
    UpIsOwed
PROPERTIES
    IntentHonest
    NeverStuck
\* The supervisor may be done.
CHECK_DEADLOCK FALSE
