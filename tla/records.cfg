SPECIFICATION MCSpec
SYMMETRY Interchangeable
CONSTANTS
    Pass = {x1, x2}
    Command = {x1, x2}
    Payload = {x1, x2}
    Apart = FALSE
    OneAtATime = TRUE
    WholeLines = TRUE
    MaxRecords = 5
    MaxFaults = 2
    Two = {x1, x2}
    One = {y}
    NoState = no_state
    None = none
    MaxEvents = 2
    MaxInputs = 2
CHECK_DEADLOCK FALSE
INVARIANTS
    AllTyped
    EventsKept
    LogIsFollowed
    OneTerminalEvent AnsweredAsRecorded
    TripIsDue
    RecordedOnce AttentionKept
PROPERTY ReusedIsRecent
