SPECIFICATION Spec
CONSTANTS
    Attempt = {1, 2, 3}
    Item = {i1, i2}
    Reaper = {}
    NoLease = no_lease
    NoRun = no_run
    Backend = "process"
    Overlap = FALSE
    Again = TRUE
    WholeLaunches = TRUE
    Killable = {}
    WritesFail = FALSE
    MaxInFlight = 1
    MaxOrders = 2
CHECK_DEADLOCK FALSE
SYMMETRY Interchangeable
INVARIANT RunsWithinCeiling
