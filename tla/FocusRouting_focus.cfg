\* A terminal and an editor, two outputs, three changes, one broken connection.
CONSTANTS
    t = t
    g = g
    Window = {t, g}
    Output = {o1, o2}
    None = None
    HintsOf <- Hints2
    MaxChanges = 3
    MaxBreaks = 1
SPECIFICATION FocusSpec
INVARIANTS
    RouteSuits
    OnlyFocused
\* Nothing more may change.
CHECK_DEADLOCK FALSE
