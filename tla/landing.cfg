SPECIFICATION MCSpec
SYMMETRY Interchangeable
CONSTANTS
    Item = {a, b}
    Attempt = {1, 2}
    Reaper = {r1}
    NoLease = no_lease
    NoRun = no_run
    Backend = "process"
    Overlap = FALSE
    Again = FALSE
    WholeLaunches = TRUE
    Killable = {"dispatcher", "run", "worker"}
    WritesFail = TRUE
    MaxInFlight = 1
    MaxOrders = 2
    Two = {a, b}
    One = {y}
    None = none
CHECK_DEADLOCK FALSE
INVARIANTS
    AllTyped
    OneRunPerItem RunsAreCounted RunKeepsOnlyRow
    WorkIsKept
    PassStandsOnItsHead DeliveredOnce AuditTells
    AnswersTookEffect ExcusedWasAsked
PROPERTIES
    LeaseOutlivesOrder
    TreeIsKept
    RepairStandsOnListing
    PublishedWhole
