SPECIFICATION MCSpec
SYMMETRY Interchangeable
CONSTANTS
    Proc = {p1, p2, p3}
    Payload = {a}
    Pair = {q1, q2}
    Choice = {b, c}
    Ghost = ghost
    NoOne = no_one
    NoPayload = no_payload
    Leftover = "claim"
    WritesFail = TRUE
    MaxInodes = 4
    Loop = {l1}
    Worker = {w1, w2, w3, w4}
    Up = {u1}
    None = none
    MaxSlot = 3
    MaxVersion = 2
    MaxFaults = 2
CHECK_DEADLOCK FALSE
INVARIANTS
    AllTyped
    DoubleHoldNeedsDisplacement
    WorkersApart
PROPERTIES PairExclusion
