SPECIFICATION Spec
CONSTANTS
    Pass = {p1, p2}
    Mortal = {p1, p2}
    NoLease = no_lease
    NoClaim = no_claim
    Identified = TRUE
    StartsApart = FALSE
    Derived = FALSE
    EmptyScope = FALSE
    WritesFail = FALSE
    EarlyEnds = {"held"}
    HarnessEnds = {"completed"}
CHECK_DEADLOCK FALSE
SYMMETRY Interchangeable
PROPERTY NewHolderKeepsLease
