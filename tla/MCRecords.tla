------------------------------- MODULE MCRecords -------------------------------
(* The records several processes keep together: the journal of events and  *)
(* the trace, the event log of a run, the decisions of its bridge, the     *)
(* ceilings on it, and the sweep's queue and state.  They share no state;  *)
(* each starts in its initial state and the one that moving names takes    *)
(* all the steps, so that the others' properties hold of it as it stands.  *)
EXTENDS Journal, TLC

CONSTANTS
    Two, One,   \* whoever comes in twos, interchangeable, and whoever comes alone
    NoState,
    MaxEvents, MaxInputs   \* bounds: lines of a run's log, lines on its control descriptor

VARIABLES
    moving,
    lines, tail, cache, sinkPc, draft, start, acked, view, polled, retracted, logFaults,
    log, late, loopPc, todo, looking, pending, inputs, control, guard, harness, status,
    channel, claims, calls, replies, receipts, at, id, age,
    now, observed, open, turns, started, costs, tripped, events,
    clock, forge, sweepLease, queue, snapshot, state, requests, facts, merges, sweepPc,
    sweepJob, work, desk, decided, shade, invalidated, sweepFaults

logVars == <<lines, tail, cache, sinkPc, draft, start, acked, view, polled, retracted, logFaults>>
runVars == <<log, late, loopPc, todo, looking, pending, inputs, control, guard, harness,
             status, channel, claims, calls, replies, receipts, at, id, age>>
capVars == <<now, observed, open, turns, started, costs, tripped, events>>
sweepVars == <<clock, forge, sweepLease, queue, snapshot, state, requests, facts, merges, sweepPc,
               sweepJob, work, desk, decided, shade, invalidated, sweepFaults>>

(* The appends of the extended module may overlap; here one ends before    *)
(* another begins.                                                         *)
Serial == INSTANCE Journal WITH Apart <- TRUE, MaxRecords <- 7
Log == INSTANCE EventLog WITH
    Sink <- Two, Follower <- One, Apart <- TRUE, Relays <- TRUE,
    torn <- tail, pc <- sinkPc, status <- polled, faults <- logFaults
Bridge == INSTANCE PassRun WITH
    Call <- Two, Id <- One, Bridged <- TRUE, Pauses <- FALSE, WritesFail <- TRUE,
    pc <- loopPc, requests <- calls
Caps == INSTANCE Watchdog WITH
    Call <- One, Session <- One, Wall <- 3, Idle <- 1, Turns <- 2, Cost <- 3, MaxNow <- 3, MaxEvents <- 3,
    log <- events

(* Two sweepers contend for the lease; one sweeper carries repositories    *)
(* along; one sweeps while the desk decides and pull requests come that    *)
(* are to close an item.                                                   *)
AllKinds == {"full", "selected", "pass", "gatekeeper", "repair"}
Contend == INSTANCE Sweep WITH
    Sweeper <- Two, Repo <- One, Kinds <- AllKinds, Desk <- FALSE, Crosses <- FALSE,
    Closers <- FALSE, Window <- FALSE, MaxAge <- 1, MaxClock <- 1, MaxRev <- 2, MaxFaults <- 1,
    lease <- sweepLease, job <- sweepJob, pc <- sweepPc, faults <- sweepFaults
Carry == INSTANCE Sweep WITH
    Sweeper <- One, Repo <- Two, Kinds <- AllKinds, Desk <- FALSE, Crosses <- FALSE,
    Closers <- FALSE, Window <- FALSE, MaxAge <- 1, MaxClock <- 1, MaxRev <- 2, MaxFaults <- 1,
    lease <- sweepLease, job <- sweepJob, pc <- sweepPc, faults <- sweepFaults
Decide == INSTANCE Sweep WITH
    Sweeper <- One, Repo <- One, Kinds <- {"full", "selected"}, Desk <- TRUE,
    Crosses <- FALSE, Closers <- TRUE, Window <- FALSE, MaxAge <- 1, MaxClock <- 0, MaxRev <- 2,
    MaxFaults <- 1,
    lease <- sweepLease, job <- sweepJob, pc <- sweepPc, faults <- sweepFaults

ASSUME RowConstants == Constants
ASSUME RunConstants == Bridge!Constants
ASSUME SweepConstants == Contend!Constants /\ Carry!Constants /\ Decide!Constants

Interchangeable == Permutations(Two)
--------------------------------------------------------------------------------
Contending == moving = "contend"
Carrying == moving \notin {"contend", "decide"}
Deciding == moving = "decide"

MCInit ==
    /\ moving \in {"rows", "serial", "log", "run", "caps", "contend", "carry", "decide"}
    /\ Init /\ Log!Init /\ Bridge!Init /\ Caps!Init
    /\ \/ Contending /\ Contend!Init
       \/ Carrying /\ Carry!Init
       \/ Deciding /\ Decide!Init

MCNext ==
    /\ UNCHANGED moving
    /\ \/ /\ \/ moving = "rows" /\ Next
             \/ moving = "serial" /\ Serial!Next
          /\ UNCHANGED <<logVars, runVars, capVars, sweepVars>>
       \/ moving = "log" /\ Log!Next /\ UNCHANGED <<vars, runVars, capVars, sweepVars>>
       \/ moving = "run" /\ Bridge!Next /\ UNCHANGED <<vars, logVars, capVars, sweepVars>>
       \/ moving = "caps" /\ Caps!Next /\ UNCHANGED <<vars, logVars, runVars, sweepVars>>
       \/ /\ \/ Contending /\ Contend!Next
             \/ moving = "carry" /\ Carry!Next
             \/ Deciding /\ Decide!Next
          /\ UNCHANGED <<vars, logVars, runVars, capVars>>

MCSpec == MCInit /\ [][MCNext]_<<moving, vars, logVars, runVars, capVars, sweepVars>>
--------------------------------------------------------------------------------
(* Every variable has its type, in every component.                        *)
AllTyped ==
    CASE moving \in {"rows", "serial"} -> TypeOK
      [] moving = "log" -> Log!TypeOK
      [] moving = "run" -> Bridge!TypeOK
      [] moving = "caps" -> Caps!TypeOK
      [] moving = "contend" -> Contend!TypeOK
      [] moving = "carry" -> Carry!TypeOK
      [] moving = "decide" -> Decide!TypeOK

(* The lines of the log are numbered without a gap, nothing follows        *)
(* run.finished, and an event whose append returned Ok stays under its     *)
(* number, however appends fail or are killed (sink.rs); and what a        *)
(* follower has delivered is a prefix of the log, and all of it once it    *)
(* stopped at run.finished (follower.rs).                                  *)
LogIsFollowed == moving = "log" => Log!LogIntact /\ Log!FollowerHasPrefix

(* Of the interrupt, the cap trip, the end of the pass and the drop of its *)
(* guard, one writes run.finished, after the harness stopped (pass.rs).    *)
OneTerminalEvent == moving = "run" => Bridge!OneTerminalEvent

(* What the log says was decided is what the call of the permission tool   *)
(* was told: a call runs only on an answer that the log has as requested,  *)
(* one answer allows one call, and a decision is answered once, after it   *)
(* was requested, as an answer forwarded for it is applied once, after it  *)
(* was (permission_bridge.rs).                                             *)
AnsweredAsRecorded ==
    moving = "run" => Bridge!AllowedByAnswer /\ Bridge!RecordAgrees /\ Bridge!AnsweredOnce

(* A run is ended by the first ceiling that its events and the clock have  *)
(* reached, and by none that they have not (watchdog.rs).                  *)
TripIsDue == moving = "caps" => Caps!TripIsDue

(* However often a generation is retried, a decision is requested once,    *)
(* before its row is shown, and a merge is recorded once (sweep.rs); and   *)
(* when no appends overlap, every event of a run has a number of its own   *)
(* and every row of the trace its event, whatever is cut short             *)
(* (event_store.rs append_event_at).                                       *)
RecordedOnce ==
    /\ moving = "serial" => Serial!EventsNumbered /\ Serial!RowHasEvent
    /\ Contending => Contend!RecordedOnce
    /\ moving = "carry" => Carry!RecordedOnce
    /\ Deciding => Decide!RecordedOnce

(* An item the state knows has its row until the desk rejects it, or it is *)
(* closed, or a pull request shadows it or shadowed what is known of it;   *)
(* and while no answer crosses a sweep, an approval stays on it until it   *)
(* is closed, a deferral until it is closed or shadowed (sweep.rs          *)
(* reconcile_queue, queue.rs).                                             *)
AttentionKept ==
    /\ Contending => Contend!AttentionKept
    /\ moving = "carry" => Carry!AttentionKept
    /\ Deciding => Decide!AttentionKept /\ Decide!AnswerStays

(* A gatekeeper that reuses a generation works on repositories that were   *)
(* acquired recently enough and after every repair (pass.rs prepare_sweep).*)
ReusedIsRecent ==
    [][/\ Contending => Contend!FreshReuse
       /\ moving = "carry" => Carry!FreshReuse]_<<moving, sweepVars>>
================================================================================
