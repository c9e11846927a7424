SPECIFICATION MCSpec
CONSTANTS
    Reaper = {r1, r2}
    Cleaner = {c1}
    None = none
    Gone = gone
    Apart = TRUE
    Outside = {"worker"}
    WritesFail = TRUE
    MaxKills = 2
    Pass = {p1, p2}
    Mortal = {p1}
    NoLease = no_lease
    NoClaim = no_claim
    Item = {i1}
    NoRun = no_run
    Loop = {l1}
    Worker = {w1, w2, w3, w4}
    Up = {u1}
CHECK_DEADLOCK FALSE
INVARIANTS OrderEndRecorded OrderEndedOnce
PROPERTIES LoserYields WhatBeganEnds
