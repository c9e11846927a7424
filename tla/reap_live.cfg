\* A run is launched between a reaper's look at the tree and its removal.
SPECIFICATION Spec
CONSTANTS
    None = none
    Apart = FALSE
    Quick = TRUE
    LatePush = FALSE
    Switches = FALSE
    MaxWork = 2
    MaxPulls = 2
CHECK_DEADLOCK FALSE
PROPERTY TreeIsKept
