--------------------------- MODULE MCFocusRouting ---------------------------
EXTENDS FocusRouting
CONSTANTS t, g

\* A terminal that shows a repository of code, and an editor.
Hints2 == t :> {"terminal", "general"} @@ g :> {"general"}
=============================================================================
