\* The first question of a conversation and a renaming while it is answered.
SPECIFICATION Spec
CONSTANTS
    Asks = {a1}
    Editors = {e1}
    Ops = {"rename"}
    MaxEvents = 1
    MaxMessages = 4
    MaxMishaps = 0
INVARIANT ChosenTitleIsKept
CHECK_DEADLOCK FALSE
