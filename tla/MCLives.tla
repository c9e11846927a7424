-------------------------------- MODULE MCLives -------------------------------
(* The lives of what is started, and how they end: the end of an order,    *)
(* passes that share a lease, dispatched orders, and the workers of        *)
(* `ostrom up`.  They share no state; the one that moving names takes all  *)
(* the steps, so that the others' properties hold of it as it stands.      *)
EXTENDS OrderReap

CONSTANTS
    Pass, Mortal, NoLease, NoClaim,   \* the passes
    Item, NoRun,                      \* the dispatches, by the systemd backend
    Loop, Worker, Up                  \* the loop supervisor

VARIABLES
    moving,
    wakes, passLease, trace, passClaim, passPc, owner, lost, armed, result, passTold, alive,
    child, recorded,
    issued, file, itemLease, orders, dpc, order, wpc, served, spc, job, expired,
    slot, overdue, version, state, upPc, todo, work, workerPc, args, read, faults

passVars == <<wakes, passLease, trace, passClaim, passPc, owner, lost, armed, result, passTold,
              alive, child, recorded>>
orderVars == <<issued, file, itemLease, orders, dpc, order, wpc, served, spc, job, expired>>
loopVars == <<slot, overdue, version, state, upPc, todo, work, workerPc, args, read, faults>>
allVars == <<moving, vars, passVars, orderVars, loopVars>>

(* A run that can always write its row; that of the extended module may    *)
(* fail to.                                                                *)
Written == INSTANCE OrderReap WITH WritesFail <- FALSE, MaxKills <- 1
Passes == INSTANCE PassLife WITH
    Identified <- TRUE, StartsApart <- TRUE, Derived <- FALSE, EmptyScope <- TRUE,
    WritesFail <- FALSE, EarlyEnds <- {}, HarnessEnds <- {"completed"},
    lease <- passLease, claim <- passClaim, pc <- passPc, told <- passTold, harness <- child
Runs == INSTANCE Dispatch WITH
    Attempt <- {1, 2}, Reaper <- Cleaner, Backend <- "systemd", Overlap <- FALSE, Again <- TRUE,
    WholeLaunches <- FALSE, Killable <- {"dispatcher", "run", "worker", "supervisor"},
    WritesFail <- TRUE, MaxInFlight <- 1, MaxOrders <- 2,
    lease <- itemLease, trace <- orders, old <- expired
Loops == INSTANCE LoopSupervisor WITH
    Apart <- TRUE, Prompt <- TRUE, Careless <- FALSE,
    MaxSlot <- 3, MaxVersion <- 2, MaxFaults <- 1, old <- overdue, wpc <- workerPc

ASSUME EndConstants == Constants /\ Written!Constants /\ MaxKills \in Nat \ {0}

OnlyEnd == moving \in {"order", "written"} /\ UNCHANGED <<moving, passVars, orderVars, loopVars>>
OnlyPass == moving = "pass" /\ UNCHANGED <<moving, vars, orderVars, loopVars>>
OnlyRuns == moving = "runs" /\ UNCHANGED <<moving, vars, passVars, loopVars>>
OnlyLoops == moving = "loops" /\ UNCHANGED <<moving, vars, passVars, orderVars>>

MCInit ==
    /\ moving \in {"order", "written", "pass", "runs", "loops"}
    /\ Init /\ Passes!Init /\ Runs!Init /\ Loops!Init

MCNext ==
    \/ OnlyEnd /\ moving = "order" /\ Next
    \/ OnlyEnd /\ moving = "written" /\ Written!Next
    \/ OnlyPass /\ Passes!Next
    \/ OnlyRuns /\ Runs!Next
    \/ OnlyLoops /\ Loops!Next

(* The fairness that PassLife, Dispatch and LoopSupervisor state, for one  *)
(* reaper and one `up`; each pass goes with one of the two dispatches and  *)
(* orders.  As moving never changes, a condition on a choice between the   *)
(* components' steps is the same condition on each; and where each of      *)
(* several has finitely many steps, one condition is on all of them.       *)
Same(p) == IF p \in Mortal THEN 1 ELSE 2

Fairness ==
    /\ \A p \in Pass :
          /\ WF_allVars(\/ OnlyPass /\ Passes!Step(p)
                        \/ OnlyRuns /\ Runs!DispatchStep(Same(p))
                        \/ OnlyLoops /\ p \in Mortal /\ \E u \in Up : Loops!Start(u) \/ Loops!UpStep(u)
                        \/ OnlyLoops /\ p \notin Mortal /\ \E w \in Worker : Loops!WorkerStep(w))
          /\ WF_allVars(\/ OnlyPass /\ Passes!Renew(p) /\ lost' # lost
                        \/ OnlyRuns /\ Runs!RunStep(Same(p)))
    /\ WF_allVars(OnlyRuns /\ \E x \in Runs!Actor : Runs!CloseStep(x))
    /\ WF_allVars(OnlyRuns /\ \E o \in DOMAIN issued : Runs!GrowOld(o))
    /\ SF_allVars(OnlyRuns /\ \E x \in Runs!Actor : Runs!WriteTerminal(x))
    /\ SF_allVars(OnlyRuns /\ \E x \in Cleaner, o \in DOMAIN issued : Runs!Observe(x, o))

MCSpec == MCInit /\ [][MCNext]_allVars /\ Fairness

(* What each component has to come to, in one formula: a pass that started *)
(* records its end (StartedPassEnds), a dispatched order is ended          *)
(* (DispatchedOrderEnds), and the latest slot is recorded again and again  *)
(* (SlotsAreRecorded).                                                     *)
Begun(p) ==
    \/ moving = "pass" /\ Passes!Started(p)
    \/ moving = "runs" /\ Runs!Dispatched(Same(p))
    \/ moving = "loops"

Over(p) ==
    \/ moving = "pass" /\ (Passes!Ended(owner[p]) \/ Passes!Killed(p) \/ p \in child)
    \/ moving = "runs" /\ Runs!Terminal(Same(p))
    \/ moving = "loops" /\ Loops!SlotRecorded

WhatBeganEnds == \A p \in Pass : Begun(p) ~> Over(p)

(* A pass whose lease another pass took leaves it in place and stops its   *)
(* own harness (docs/loops.md:181).                                        *)
LoserYields == Passes!NewHolderKeepsLease /\ Passes!LoserStopsHarness

(* An order whose run can write its row gets one terminal row              *)
(* (stalls.rs finish_claim, work_order.rs finalize_exited_implementer).    *)
OrderEndedOnce == moving = "written" => Written!EndedOnce
================================================================================
