SPECIFICATION Spec
CONSTANTS
    Sink = {s1, s2}
    Follower = {f1}
    NoState = no_state
    Apart = FALSE
    Relays = TRUE
    MaxEvents = 2
    MaxFaults = 2
CHECK_DEADLOCK FALSE
INVARIANT LogGapless
