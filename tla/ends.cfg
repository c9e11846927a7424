SPECIFICATION MCSpec
CONSTANTS
    Proc = {p1, p2}
    Mortal = {p1}
    NoLease = no_lease
    Unreadable = unreadable
    NoProc = no_proc
    TTL = 1
    MaxTime = 2
    Renewable = TRUE
    Identified = TRUE
    ProcReadable = TRUE
    WritesFail = TRUE
    Pass = {q1}
    Reaper = {r1}
    NoClaim = no_claim
    Gone = gone
    Sink = {s1, s2}
    Follower = {f1}
    NoState = no_state
    Call = {c1}
    Id = {t1}
    Session = {h1}
    None = none
CHECK_DEADLOCK FALSE
INVARIANTS TypeOK HolderKeepsLease
PROPERTIES ImplementsExclusion EverythingEnds RunSettles
