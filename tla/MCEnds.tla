-------------------------------- MODULE MCEnds --------------------------------
(* What has to end, ends.  Five components in one exploration: each starts *)
(* in its initial state, and the one that moving names takes all the       *)
(* steps, so that the others' properties hold of it as it stands.          *)
EXTENDS LeaseFile

CONSTANTS
    Pass, Reaper, NoClaim, Gone,    \* the stall reaper
    Sink, Follower, NoState,        \* an event log
    Call, Id,                       \* a pass and its permission bridge
    Session,                        \* the ceilings on a run
    None

VARIABLES
    moving,
    wakes, passLease, trace, claim, passPc, owner, lost, armed, result, told, passAlive,
    harness, recorded, rpc, job, quiet, warned, kills,
    lines, torn, cache, sinkPc, draft, start, acked, view, status, retracted, faults,
    log, late, loopPc, todo, looking, pending, inputs, control, guarded, child, seen,
    channel, claims, requests, replies, receipts, at, id, age,
    clock, observed, open, turns, started, costs, tripped, events

reapVars == <<wakes, passLease, trace, claim, passPc, owner, lost, armed, result, told,
              passAlive, harness, recorded, rpc, job, quiet, warned, kills>>
logVars == <<lines, torn, cache, sinkPc, draft, start, acked, view, status, retracted, faults>>
runVars == <<log, late, loopPc, todo, looking, pending, inputs, control, guarded, child, seen,
             channel, claims, requests, replies, receipts, at, id, age>>
capVars == <<clock, observed, open, turns, started, costs, tripped, events>>
allVars == <<moving, vars, reapVars, logVars, runVars, capVars>>

Reap == INSTANCE PassReap WITH
    Mortal <- Pass, Identified <- TRUE, StartsApart <- TRUE, Derived <- FALSE,
    EmptyScope <- TRUE, WritesFail <- TRUE, EarlyEnds <- {"held"},
    HarnessEnds <- {"completed", "failed"}, WholeClaims <- TRUE, StopsFail <- FALSE,
    MaxKills <- 1,
    lease <- passLease, pc <- passPc, alive <- passAlive
Log == INSTANCE EventLog WITH
    Apart <- TRUE, Relays <- TRUE, MaxEvents <- 2, MaxFaults <- 1, pc <- sinkPc
Run == INSTANCE PassRun WITH
    Bridged <- TRUE, Pauses <- FALSE, WritesFail <- FALSE, MaxInputs <- 1,
    pc <- loopPc, guard <- guarded, harness <- child, status <- seen
Caps == INSTANCE Watchdog WITH
    Wall <- 3, Idle <- 1, Turns <- 2, Cost <- 3, MaxNow <- 3, MaxEvents <- 2,
    now <- clock, log <- events

OnlyLease == moving = "lease" /\ UNCHANGED <<moving, reapVars, logVars, runVars, capVars>>
OnlyReap == moving = "reaper" /\ UNCHANGED <<moving, vars, logVars, runVars, capVars>>
OnlyLog == moving = "log" /\ UNCHANGED <<moving, vars, reapVars, runVars, capVars>>
OnlyRun == moving = "run" /\ UNCHANGED <<moving, vars, reapVars, logVars, capVars>>
OnlyCaps == moving = "caps" /\ UNCHANGED <<moving, vars, reapVars, logVars, runVars>>

MCInit ==
    /\ moving \in {"lease", "reaper", "log", "run", "caps"}
    /\ Init /\ Reap!ReapInit /\ Log!Init /\ Run!Init /\ Caps!Init

MCNext ==
    \/ OnlyLease /\ Next
    \/ OnlyReap /\ Reap!ReapNext
    \/ OnlyLog /\ Log!Next
    \/ OnlyRun /\ Run!Next
    \/ OnlyCaps /\ Caps!Next

(* The fairness that LeaseFile, PassReap, EventLog, PassRun and Watchdog   *)
(* state, for one pass, reaper, follower, call and id.  As moving never    *)
(* changes, a condition on a choice between the components' steps is the   *)
(* same condition on each.                                                 *)
Acquires(p) == OnlyLease /\ (Acquire(p) \/ LeaveGuard(p))

Fairness ==
    /\ \A p \in Mortal : WF_allVars(Acquires(p))
    /\ \A p \in Proc \ Mortal :
          WF_allVars(\/ Acquires(p)
                     \/ OnlyReap /\ \E r \in Reaper : Reap!ReapStep(r)
                     \/ OnlyLog /\ \E f \in Follower : Log!Resume(f)
                     \/ OnlyRun /\ Run!Loop
                     \/ OnlyCaps /\ Caps!Tick)
    /\ WF_allVars(\/ OnlyReap /\ \E q \in Pass : Reap!GoQuiet(q)
                  \/ OnlyRun /\ \E c \in Call : Run!CallStep(c)
                  \/ OnlyCaps /\ Caps!Check)
    /\ SF_allVars(\/ OnlyReap /\ \E r \in Reaper, q \in Pass : Reap!Observe(r, q)
                  \/ OnlyLog /\ \E f \in Follower : Log!Poll(f)
                  \/ OnlyRun /\ Run!Leave)
    /\ SF_allVars(OnlyRun /\ \E i \in Id : Run!Tick(i))

MCSpec == MCInit /\ [][MCNext]_allVars /\ Fairness

(* What each component has to come to, in one formula: a killed holder's   *)
(* lease is cleared while somebody asks for it (DeadLeaseCleared), a pass  *)
(* that started is ended (EveryHoldCloses), a follower reaches the end of  *)
(* a run that has ended (EndIsDelivered), a call of the permission tool    *)
(* returns (CallReturns), and a wall ceiling ends its run (WallEnds).      *)
Begun ==
    \/ moving = "lease" /\ \E p \in Mortal, q \in Proc \ Mortal : DeadLease(p) /\ Asking(q)
    \/ moving = "reaper" /\ \E p \in Pass : Reap!Started(p)
    \/ moving = "log" /\ Log!EndAcked
    \/ moving = "run" /\ \E c \in Call : Run!InCall(c)
    \/ moving = "caps"

Over ==
    \/ moving = "lease" /\ \A p \in Mortal : ~DeadLease(p)
    \/ moving = "reaper" /\ \A p \in Pass : Reap!Ended(owner[p])
    \/ moving = "log" /\ \A f \in Follower : Log!EndSeen(f)
    \/ moving = "run" /\ \A c \in Call : Run!Returned(c)
    \/ moving = "caps" /\ Caps!Tripped

EverythingEnds == Begun ~> Over

(* A requested decision is answered, and a run whose harness is gone ends. *)
RunSettles == Run!RunSettles
================================================================================
