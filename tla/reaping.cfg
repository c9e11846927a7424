SPECIFICATION MCSpec
CONSTANTS
    Pass = {x1, x2}
    Mortal = {}
    NoLease = no_lease
    NoClaim = no_claim
    Identified = TRUE
    StartsApart = TRUE
    Derived = TRUE
    EmptyScope = FALSE
    WritesFail = FALSE
    EarlyEnds = {"held"}
    HarnessEnds = {"failed"}
    Reaper = {y}
    Gone = gone
    WholeClaims = TRUE
    StopsFail = FALSE
    MaxKills = 0
CHECK_DEADLOCK FALSE
SYMMETRY Interchangeable
INVARIANTS AllTyped OneEndPerHold StoppedSaysStalled
PROPERTY EndRecordedGone
