------------------------------- MODULE MCLanding -------------------------------
(* The runs of items and what they leave behind: dispatches of two items,  *)
(* one after the other, by the process backend under a ceiling of one run, *)
(* whose kills spare what would leave a run nobody knows of; an item's     *)
(* worktree and branches; the merges forward into its pull requests; the   *)
(* gate on them, with the answers to what it asks; and the published       *)
(* snapshots.  They share no state; the one that moving names takes all    *)
(* the steps, and the others stay in their initial states.                 *)
EXTENDS Dispatch, TLC

CONSTANTS
    Two,    \* whoever comes in twos, interchangeable: pull requests, hosts, commands
    One,    \* whoever comes alone
    None

VARIABLES
    moving,
    tree, local, origin, objects, made, main, remote, pulls, issue, itemOrder, itemLease, run,
    preexisting, dispatch, reap, sweep,
    branch, open, checks, tip, tipChecks, clash, scanPc, seen, todo, candidates, attempted,
    fetched, repaired,
    today, records, published, head, files, pc, derived, start, edits, faults,
    gateHead, truth, merge, gatelog, torn, exceptions, asked, gates, judging, delivered, audit,
    lock, answering, rows, archive, ledger, effects

itemVars == <<tree, local, origin, objects, made, main, remote, pulls, issue, itemOrder,
              itemLease, run, preexisting, dispatch, reap, sweep>>
scanVars == <<branch, open, checks, tip, tipChecks, clash, scanPc, seen, todo, candidates,
              attempted, fetched, repaired>>
hostVars == <<today, records, published, head, files, pc, derived, start, edits, faults>>
gateVars == <<gateHead, truth, merge, gatelog, torn, exceptions, asked, gates, judging,
              delivered, audit, lock, answering, rows, archive, ledger, effects>>

Trees == INSTANCE Worktrees WITH
    Apart <- TRUE, Quick <- TRUE, LatePush <- FALSE, Switches <- TRUE,
    MaxWork <- 2, MaxPulls <- 2, order <- itemOrder, lease <- itemLease
Scan == INSTANCE Repair WITH
    Pull <- Two, Cap <- 1, BaseStays <- TRUE, BranchStays <- TRUE, MaxBase <- 2, MaxOwn <- 2,
    base <- tip, baseChecks <- tipChecks, pc <- scanPc
Hosts == INSTANCE Publish WITH
    Host <- Two, FirstLands <- TRUE, Keep <- 1, MaxDay <- 2, MaxEdits <- 2, MaxFaults <- 1,
    MaxCommits <- 3, remote <- published, tree <- derived, base <- start

(* The gate by itself, with commits pushed and merges by hand; the answers *)
(* to what it asks; and two commands that answer for an item.              *)
Gates == INSTANCE DecisionAnswers WITH
    Judge <- One, Loose <- {"required_checks"}, Diff <- {"bounce_selectors"}, PushesMidRead <- FALSE,
    WritesFail <- TRUE, ByHand <- {"merge"}, MaxHead <- 2, MaxRuns <- 2,
    Answerer <- {}, Item <- {}, MaxAnswers <- 0,
    queue <- rows, requests <- asked, head <- gateHead, runs <- gates
Excuses == INSTANCE DecisionAnswers WITH
    Judge <- One, Loose <- {"required_checks"}, Diff <- {}, PushesMidRead <- FALSE,
    WritesFail <- TRUE, ByHand <- {}, MaxHead <- 2, MaxRuns <- 2,
    Answerer <- One, Item <- {}, MaxAnswers <- 2,
    queue <- rows, requests <- asked, head <- gateHead, runs <- gates
Tripwires == INSTANCE DecisionAnswers WITH
    Judge <- {}, Loose <- {}, Diff <- {}, PushesMidRead <- FALSE,
    WritesFail <- TRUE, ByHand <- {}, MaxHead <- 1, MaxRuns <- 0,
    Answerer <- Two, Item <- One, MaxAnswers <- 4,
    queue <- rows, requests <- asked, head <- gateHead, runs <- gates

ASSUME LandingConstants ==
    /\ Constants /\ Trees!Constants /\ Scan!Constants /\ Hosts!Constants
    /\ Gates!AnswerConstants /\ Excuses!AnswerConstants /\ Tripwires!AnswerConstants

Interchangeable == Permutations(Two)
--------------------------------------------------------------------------------
Gating == moving \notin {"excuses", "tripwires"}
Excusing == moving = "excuses"
Answering == moving = "tripwires"

MCInit ==
    /\ moving \in {"runs", "trees", "scan", "hosts", "gates", "excuses", "tripwires"}
    /\ Init /\ Trees!Init /\ Hosts!Init
    /\ Scan!Init /\ (moving # "scan" => checks = [p \in Two |-> "absent"])
    /\ \/ Gating /\ Gates!AnswerInit /\ (moving # "gates" => truth = [h \in {1, 2} |-> "pass"])
       \/ Excusing /\ Excuses!AnswerInit
       \/ Answering /\ Tripwires!AnswerInit

MCNext ==
    /\ UNCHANGED moving
    /\ \/ moving = "runs" /\ Next /\ UNCHANGED <<itemVars, scanVars, hostVars, gateVars>>
       \/ moving = "trees" /\ Trees!Next /\ UNCHANGED <<vars, scanVars, hostVars, gateVars>>
       \/ moving = "scan" /\ Scan!Next /\ UNCHANGED <<vars, itemVars, hostVars, gateVars>>
       \/ moving = "hosts" /\ Hosts!Next /\ UNCHANGED <<vars, itemVars, scanVars, gateVars>>
       \/ /\ \/ moving = "gates" /\ Gates!AnswerNext
             \/ Excusing /\ Excuses!AnswerNext
             \/ Answering /\ Tripwires!AnswerNext
          /\ UNCHANGED <<vars, itemVars, scanVars, hostVars>>

MCSpec == MCInit /\ [][MCNext]_<<moving, vars, itemVars, scanVars, hostVars, gateVars>>
--------------------------------------------------------------------------------
(* Every variable has its type, in every component.                        *)
AllTyped ==
    CASE moving = "runs" -> TypeOK
      [] moving = "trees" -> Trees!TypeOK
      [] moving = "scan" -> Scan!TypeOK
      [] moving = "hosts" -> Hosts!TypeOK
      [] moving = "gates" -> Gates!AnswerTypeOK
      [] moving = "excuses" -> Excuses!AnswerTypeOK
      [] moving = "tripwires" -> Tripwires!AnswerTypeOK

(* However runs, dispatches and reapers interleave and are killed, a       *)
(* commit is still on a branch, in a pull request or on the default branch *)
(* (reap.rs branch_tip_is_published, dispatch.rs reclaim_merged_worktree). *)
WorkIsKept == moving = "trees" => Trees!WorkIsKept

(* The tree a run works in is not removed, nor uncommitted work before the *)
(* retention, while no run starts between a look at the tree and its       *)
(* removal (reap.rs reclaim_worktree, worktree.rs sweep_worktrees).        *)
TreeIsKept == Trees!TreeIsKept

(* A merge forward adds to the head whose checks were read, and a failed   *)
(* head gets the base that was found green (repair.rs repair_candidate).   *)
RepairStandsOnListing == Scan!RepairStandsOnListing

(* The count and the rollup of a published snapshot agree with its gate    *)
(* records, and a host without such records leaves them as published; and  *)
(* a publication that reports nothing changed finds its snapshot on the    *)
(* destination (publish.rs reconcile_preserved_gate,                       *)
(* reuse_previous_time_if_unchanged).                                      *)
PublishedWhole == [][Hosts!PublishedWhole' /\ Hosts!AsPublished]_hostVars

(* A pass of the gate names a commit that satisfies what was not excused   *)
(* for it, while nothing is pushed between its reads (gate.rs).            *)
PassStandsOnItsHead == moving = "gates" => Gates!PassStandsOnItsHead

(* A judgment is delivered again only after another of the same head       *)
(* (gate.rs already_judged, prompts/gatekeep.md).                          *)
DeliveredOnce ==
    /\ moving = "gates" => Gates!DeliveredOnce
    /\ Excusing => Excuses!DeliveredOnce

(* The sweep tells a merge of the judged commit from one of a commit       *)
(* pushed since (sweep.rs analyze_merge_gate).                             *)
AuditTells ==
    /\ moving = "gates" => Gates!AuditTells
    /\ Excusing => Excuses!AuditTells

(* Two answers recorded one after the other on a decision differ, whoever  *)
(* gave them; what is recorded as answered was delivered, and the queue    *)
(* shows the last answer recorded (decision_answers.rs, queue.rs).         *)
AnswersTookEffect ==
    /\ Excusing => Excuses!AnswersAlternate /\ Excuses!RecordedTookEffect
    /\ Answering => Tripwires!AnswersAlternate /\ Tripwires!RecordedTookEffect

(* A condition is excused only for the head whose judgment asked about it  *)
(* (decision_answers.rs recorded_gate_head, gate.rs apply_exceptions).     *)
ExcusedWasAsked == Excusing => Excuses!ExcusedWasAsked
================================================================================
