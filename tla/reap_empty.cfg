SPECIFICATION FairReapSpec
CONSTANTS
    Pass = {p1}
    Mortal = {p1}
    NoLease = no_lease
    NoClaim = no_claim
    Identified = TRUE
    StartsApart = TRUE
    Derived = FALSE
    EmptyScope = FALSE
    WritesFail = FALSE
    EarlyEnds = {}
    HarnessEnds = {"failed"}
    Reaper = {r1}
    Gone = gone
    WholeClaims = FALSE
    StopsFail = FALSE
    MaxKills = 1
CHECK_DEADLOCK FALSE
PROPERTY EveryHoldCloses
