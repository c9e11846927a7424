SPECIFICATION Spec
CONSTANTS
    Sweeper = {p1}
    Repo = {r1}
    None = none
    Kinds = {"full"}
    Desk = TRUE
    Crosses = TRUE
    Closers = FALSE
    Window = FALSE
    MaxAge = 1
    MaxClock = 0
    MaxRev = 2
    MaxFaults = 0
CHECK_DEADLOCK FALSE
INVARIANT AnswerStays
