---------------------------- MODULE MCLandingProofs ----------------------------
(***************************************************************************)
(* What modules DispatchProofs and ForgeProofs show for every value of the *)
(* constants, of the instances that MCLanding composes: the properties of  *)
(* its runs.  An instance of a proof module has its own copy of the        *)
(* definitions of its components; the first lemmas show that they are      *)
(* those of MCLanding's instances.                                         *)
(***************************************************************************)
EXTENDS MCLanding, TLAPS

Works == INSTANCE DispatchProofs WITH
    Apart <- TRUE, Quick <- TRUE, LatePush <- FALSE, Switches <- TRUE, MaxWork <- 2, MaxPulls <- 2
OfGates == INSTANCE ForgeProofs WITH
    Judge <- One, Loose <- {"required_checks"}, Diff <- {"bounce_selectors"},
    PushesMidRead <- FALSE, WritesFail <- TRUE, ByHand <- {"merge"}, MaxHead <- 2, MaxRuns <- 2,
    Answerer <- {}, Item <- {}, MaxAnswers <- 0,
    queue <- rows, requests <- asked, head <- gateHead, runs <- gates,
    Pull <- Two, Cap <- 1, BaseStays <- TRUE, BranchStays <- TRUE, MaxBase <- 2, MaxOwn <- 2,
    Host <- Two, FirstLands <- TRUE, Keep <- 1, MaxDay <- 2, MaxEdits <- 2, MaxFaults <- 1,
    MaxCommits <- 3, remote <- published, tree <- derived, base <- start, chainOf <- head
OfExcuses == INSTANCE ForgeProofs WITH
    Judge <- One, Loose <- {"required_checks"}, Diff <- {},
    PushesMidRead <- FALSE, WritesFail <- TRUE, ByHand <- {}, MaxHead <- 2, MaxRuns <- 2,
    Answerer <- One, Item <- {}, MaxAnswers <- 2,
    queue <- rows, requests <- asked, head <- gateHead, runs <- gates,
    Pull <- Two, Cap <- 1, BaseStays <- TRUE, BranchStays <- TRUE, MaxBase <- 2, MaxOwn <- 2,
    Host <- Two, FirstLands <- TRUE, Keep <- 1, MaxDay <- 2, MaxEdits <- 2, MaxFaults <- 1,
    MaxCommits <- 3, remote <- published, tree <- derived, base <- start, chainOf <- head
OfTripwires == INSTANCE ForgeProofs WITH
    Judge <- {}, Loose <- {}, Diff <- {},
    PushesMidRead <- FALSE, WritesFail <- TRUE, ByHand <- {}, MaxHead <- 1, MaxRuns <- 0,
    Answerer <- Two, Item <- One, MaxAnswers <- 4,
    queue <- rows, requests <- asked, head <- gateHead, runs <- gates,
    Pull <- Two, Cap <- 1, BaseStays <- TRUE, BranchStays <- TRUE, MaxBase <- 2, MaxOwn <- 2,
    Host <- Two, FirstLands <- TRUE, Keep <- 1, MaxDay <- 2, MaxEdits <- 2, MaxFaults <- 1,
    MaxCommits <- 3, remote <- published, tree <- derived, base <- start, chainOf <- head
--------------------------------------------------------------------------------
(* The dispatches are those that were reasoned about,                      *)
LEMMA RunsSame ==
  /\ Works!Constants
  /\ Init => Works!Init
  /\ [Next]_vars => [Works!Next]_(Works!vars)
  /\ Works!TypeOK => TypeOK
  /\ Works!OneRunPerItem => OneRunPerItem
  /\ Works!RunsAreCounted => RunsAreCounted
  /\ Works!RunKeepsOnlyRow => RunKeepsOnlyRow
  /\ Works!LeaseStays => LeaseStays
BY LandingConstants, ZenonT(60)
   DEF LandingConstants, Constants, Works!Constants, vars, Works!vars, Actor,
       Works!Actor, Row, Works!Row, Rows, Works!Rows, Dispatched, Works!Dispatched, Terminal,
       Works!Terminal, InFlight, Works!InFlight, ItemOf, Works!ItemOf, DAt, Works!DAt, DGoto,
       Works!DGoto, WAlive, Works!WAlive, SAlive, Works!SAlive, UnitActive, Works!UnitActive,
       LeaseLive, Works!LeaseLive, NoJob, Works!NoJob, Dispatching, Works!Dispatching, Ending,
       Works!Ending, Busy, Works!Busy, Init, Works!Init, CreateOrder, Works!CreateOrder, Begin,
       Works!Begin, Verify, Works!Verify, Observed, Works!Observed, Reapable, Works!Reapable,
       Reaping, Works!Reaping, Observe, Works!Observe, JobAt, Works!JobAt, JobGoto, Works!JobGoto,
       CheckInFlight, Works!CheckInFlight, By, Works!By, WriteTerminal, Works!WriteTerminal,
       WriteTerminalFails, Works!WriteTerminalFails, Unlease, Works!Unlease, CloseStep,
       Works!CloseStep, ItemInFlight, Works!ItemInFlight, Reaped, Works!Reaped, LookAtLease,
       Works!LookAtLease, RemoveLease, Works!RemoveLease, CreateLease, Works!CreateLease,
       CeilingReached, Works!CeilingReached, Recheck, Works!Recheck, Launch, Works!Launch, Bind,
       Works!Bind, StartupGrace, Works!StartupGrace, Record, Works!Record, StopChild,
       Works!StopChild, LaunchFailed, Works!LaunchFailed, ReleaseDispatch, Works!ReleaseDispatch,
       Adopt, Works!Adopt, EndWork, Works!EndWork, CheckTerminal, Works!CheckTerminal,
       AppendTerminal, Works!AppendTerminal, ReleaseRun, Works!ReleaseRun, Finalize,
       Works!Finalize, RunStep, Works!RunStep, DispatchStep, Works!DispatchStep, Lapse,
       Works!Lapse, GrowOld, Works!GrowOld, KillDispatcher, Works!KillDispatcher, KillRun,
       Works!KillRun, Next, Works!Next, TypeOK, Works!TypeOK, Working, Works!Working,
       OneRunPerItem, Works!OneRunPerItem, RunsWithinCeiling, Works!RunsWithinCeiling,
       WorkingInFlight, Works!WorkingInFlight, RunsAreCounted, Works!RunsAreCounted,
       RunKeepsOnlyRow, Works!RunKeepsOnlyRow, LeaseStays, Works!LeaseStays, LeaseOutlivesOrder,
       Works!LeaseOutlivesOrder, Cardinality, Works!Cardinality

(* and so are an item's worktree and its branches.                         *)
LEMMA TreesSame ==
  /\ Works!Trees!Constants
  /\ Trees!Init => Works!Trees!Init
  /\ [Trees!Next]_(Trees!vars) => [Works!Trees!Next]_(Works!Trees!vars)
  /\ Works!Trees!TypeOK => Trees!TypeOK
  /\ Works!Trees!WorkIsKept => Trees!WorkIsKept
BY LandingConstants, ZenonT(60)
   DEF LandingConstants, Trees!vars, Works!Trees!vars, Trees!github,
       Works!Trees!github, Trees!source, Works!Trees!source, Trees!workers, Works!Trees!workers,
       Trees!cleaners, Works!Trees!cleaners, Trees!Commit, Works!Trees!Commit, Trees!Branch,
       Works!Trees!Branch, Trees!History, Works!Trees!History, Trees!Tree, Works!Trees!Tree,
       Trees!Pull, Works!Trees!Pull, Trees!Cleaner, Works!Trees!Cleaner, Trees!Idle,
       Works!Trees!Idle, Trees!Constants, Works!Trees!Constants, Trees!Init, Works!Trees!Init,
       Trees!Content, Works!Trees!Content, Trees!Ancestor, Works!Trees!Ancestor, Trees!Merged,
       Works!Trees!Merged, Trees!NewCommit, Works!Trees!NewCommit, Trees!Checked,
       Works!Trees!Checked, Trees!Clean, Works!Trees!Clean, Trees!HasUnpublishedTree,
       Works!Trees!HasUnpublishedTree, Trees!OpenPull, Works!Trees!OpenPull, Trees!Follow,
       Works!Trees!Follow, Trees!CreateOrder, Works!Trees!CreateOrder, Trees!Fetch,
       Works!Trees!Fetch, Trees!EndRun, Works!Trees!EndRun, Trees!FromDefault,
       Works!Trees!FromDefault, Trees!Prepare, Works!Trees!Prepare, Trees!Edit, Works!Trees!Edit,
       Trees!HarnessFails, Works!Trees!HarnessFails, Trees!CommitWork, Works!Trees!CommitWork,
       Trees!PushFails, Works!Trees!PushFails, Trees!HasBranch, Works!Trees!HasBranch,
       Trees!MergeForward, Works!Trees!MergeForward, Trees!PushBranch, Works!Trees!PushBranch,
       Trees!CreatePullRequest, Works!Trees!CreatePullRequest, Trees!RunIsKilled,
       Works!Trees!RunIsKilled, Trees!LeaseLapses, Works!Trees!LeaseLapses, Trees!Begin,
       Works!Trees!Begin, Trees!Refuse, Works!Trees!Refuse, Trees!ListBranches,
       Works!Trees!ListBranches, Trees!DeleteBranch, Works!Trees!DeleteBranch, Trees!NewestOf,
       Works!Trees!NewestOf, Trees!ReadReferences, Works!Trees!ReadReferences,
       Trees!LookForDispatch, Works!Trees!LookForDispatch, Trees!Look, Works!Trees!Look,
       Trees!ReadBranch, Works!Trees!ReadBranch, Trees!ReadResolution, Works!Trees!ReadResolution,
       Trees!Published, Works!Trees!Published, Trees!Verified, Works!Trees!Verified, Trees!Verify,
       Works!Trees!Verify, Trees!Removes, Works!Trees!Removes, Trees!Remove, Works!Trees!Remove,
       Trees!Dropped, Works!Trees!Dropped, Trees!DropBranches, Works!Trees!DropBranches,
       Trees!Launch, Works!Trees!Launch, Trees!CleanerIsKilled, Works!Trees!CleanerIsKilled,
       Trees!SweepReads, Works!Trees!SweepReads, Trees!SweepVisits, Works!Trees!SweepVisits,
       Trees!Expire, Works!Trees!Expire, Trees!GitHub, Works!Trees!GitHub, Trees!Switch,
       Works!Trees!Switch, Trees!Next, Works!Trees!Next, Trees!TypeOK, Works!Trees!TypeOK,
       Trees!WorkIsKept, Works!Trees!WorkIsKept

(* The gate by itself is the one that was reasoned about.                  *)
LEMMA GatesSame ==
  /\ OfGates!AnswerConstants
  /\ Gates!AnswerInit => OfGates!AnswerInit
  /\ Gates!AnswerNext => OfGates!AnswerNext
  /\ OfGates!PassStandsOnItsHead => Gates!PassStandsOnItsHead
  /\ OfGates!DeliveredOnce => Gates!DeliveredOnce
  /\ OfGates!AuditTells => Gates!AuditTells
  /\ OfGates!AnswersAlternate => Gates!AnswersAlternate
  /\ OfGates!RecordedTookEffect => Gates!RecordedTookEffect
  /\ OfGates!ExcusedWasAsked => Gates!ExcusedWasAsked
  /\ OfGates!AnswerTypeOK => Gates!AnswerTypeOK
BY LandingConstants, ZenonT(60)
   DEF LandingConstants, Gates!Condition, OfGates!Condition, Gates!Excusable,
       OfGates!Excusable, Gates!GateConstants, OfGates!GateConstants, Gates!NoHead,
       OfGates!NoHead, Gates!worldVars, OfGates!worldVars, Gates!gateVars, OfGates!gateVars,
       Gates!Idle, OfGates!Idle, Gates!Init, OfGates!Init, Gates!Now, OfGates!Now, Gates!Goto,
       OfGates!Goto, Gates!Push, OfGates!Push, Gates!MergeByHand, OfGates!MergeByHand,
       Gates!Except, OfGates!Except, Gates!ExcuseByHand, OfGates!ExcuseByHand, Gates!Results,
       OfGates!Results, Gates!ReadMetadata, OfGates!ReadMetadata, Gates!ReadChecks,
       OfGates!ReadChecks, Gates!ReadDiff, OfGates!ReadDiff, Gates!Excused, OfGates!Excused,
       Gates!Judged, OfGates!Judged, Gates!Aggregate, OfGates!Aggregate, Gates!Verdict,
       OfGates!Verdict, Gates!Identity, OfGates!Identity, Gates!Conclude, OfGates!Conclude,
       Gates!LastJudged, OfGates!LastJudged, Gates!AlreadyJudged, OfGates!AlreadyJudged,
       Gates!ReadHistory, OfGates!ReadHistory, Gates!AppendRecord, OfGates!AppendRecord,
       Gates!Return, OfGates!Return, Gates!Merge, OfGates!Merge, Gates!Deliver, OfGates!Deliver,
       Gates!Leave, OfGates!Leave, Gates!Evidence, OfGates!Evidence, Gates!Floor, OfGates!Floor,
       Gates!Unfounded, OfGates!Unfounded, Gates!TimelyPass, OfGates!TimelyPass, Gates!Audit,
       OfGates!Audit, Gates!GateStep, OfGates!GateStep, Gates!Next, OfGates!Next, Gates!Found,
       OfGates!Found, Gates!Judgment, OfGates!Judgment, Gates!TypeOK, OfGates!TypeOK,
       Gates!PassStandsOnItsHead, OfGates!PassStandsOnItsHead, Gates!DeliveredOnce,
       OfGates!DeliveredOnce, Gates!AuditTells, OfGates!AuditTells, Gates!AnswerConstants,
       OfGates!AnswerConstants, Gates!answerVars, OfGates!answerVars, Gates!vars, OfGates!vars,
       Gates!NoAnswer, OfGates!NoAnswer, Gates!AnswerInit, OfGates!AnswerInit, Gates!At,
       OfGates!At, Gates!Answer, OfGates!Answer, Gates!Proceed, OfGates!Proceed, Gates!On,
       OfGates!On, Gates!LastAnswer, OfGates!LastAnswer, Gates!End, OfGates!End, Gates!TakeLock,
       OfGates!TakeLock, Gates!Asked, OfGates!Asked, Gates!Offered, OfGates!Offered,
       Gates!Revocable, OfGates!Revocable, Gates!Repeats, OfGates!Repeats, Gates!HeadRecorded,
       OfGates!HeadRecorded, Gates!Accept, OfGates!Accept, Gates!Archive, OfGates!Archive,
       Gates!Row, OfGates!Row, Gates!Decidable, OfGates!Decidable, Gates!Effect, OfGates!Effect,
       Gates!Apply, OfGates!Apply, Gates!DeliverAnswer, OfGates!DeliverAnswer, Gates!Record,
       OfGates!Record, Gates!Stop, OfGates!Stop, Gates!Kill, OfGates!Kill, Gates!RemoveLock,
       OfGates!RemoveLock, Gates!AnswerNext, OfGates!AnswerNext, Gates!Verbs, OfGates!Verbs,
       Gates!AnswerTypeOK, OfGates!AnswerTypeOK, Gates!AnswersAlternate, OfGates!AnswersAlternate,
       Gates!RecordedTookEffect, OfGates!RecordedTookEffect, Gates!ExcusedWasAsked,
       OfGates!ExcusedWasAsked, Gates!ToSet, OfGates!ToSet

(* So is the gate with the answers to what it asks.                        *)
LEMMA ExcusesSame ==
  /\ OfExcuses!AnswerConstants
  /\ Excuses!AnswerInit => OfExcuses!AnswerInit
  /\ Excuses!AnswerNext => OfExcuses!AnswerNext
  /\ OfExcuses!PassStandsOnItsHead => Excuses!PassStandsOnItsHead
  /\ OfExcuses!DeliveredOnce => Excuses!DeliveredOnce
  /\ OfExcuses!AuditTells => Excuses!AuditTells
  /\ OfExcuses!AnswersAlternate => Excuses!AnswersAlternate
  /\ OfExcuses!RecordedTookEffect => Excuses!RecordedTookEffect
  /\ OfExcuses!ExcusedWasAsked => Excuses!ExcusedWasAsked
  /\ OfExcuses!AnswerTypeOK => Excuses!AnswerTypeOK
BY LandingConstants, ZenonT(60)
   DEF LandingConstants, Excuses!Condition, OfExcuses!Condition,
       Excuses!Excusable, OfExcuses!Excusable, Excuses!GateConstants, OfExcuses!GateConstants,
       Excuses!NoHead, OfExcuses!NoHead, Excuses!worldVars, OfExcuses!worldVars, Excuses!gateVars,
       OfExcuses!gateVars, Excuses!Idle, OfExcuses!Idle, Excuses!Init, OfExcuses!Init,
       Excuses!Now, OfExcuses!Now, Excuses!Goto, OfExcuses!Goto, Excuses!Push, OfExcuses!Push,
       Excuses!MergeByHand, OfExcuses!MergeByHand, Excuses!Except, OfExcuses!Except,
       Excuses!ExcuseByHand, OfExcuses!ExcuseByHand, Excuses!Results, OfExcuses!Results,
       Excuses!ReadMetadata, OfExcuses!ReadMetadata, Excuses!ReadChecks, OfExcuses!ReadChecks,
       Excuses!ReadDiff, OfExcuses!ReadDiff, Excuses!Excused, OfExcuses!Excused, Excuses!Judged,
       OfExcuses!Judged, Excuses!Aggregate, OfExcuses!Aggregate, Excuses!Verdict,
       OfExcuses!Verdict, Excuses!Identity, OfExcuses!Identity, Excuses!Conclude,
       OfExcuses!Conclude, Excuses!LastJudged, OfExcuses!LastJudged, Excuses!AlreadyJudged,
       OfExcuses!AlreadyJudged, Excuses!ReadHistory, OfExcuses!ReadHistory, Excuses!AppendRecord,
       OfExcuses!AppendRecord, Excuses!Return, OfExcuses!Return, Excuses!Merge, OfExcuses!Merge,
       Excuses!Deliver, OfExcuses!Deliver, Excuses!Leave, OfExcuses!Leave, Excuses!Evidence,
       OfExcuses!Evidence, Excuses!Floor, OfExcuses!Floor, Excuses!Unfounded, OfExcuses!Unfounded,
       Excuses!TimelyPass, OfExcuses!TimelyPass, Excuses!Audit, OfExcuses!Audit, Excuses!GateStep,
       OfExcuses!GateStep, Excuses!Next, OfExcuses!Next, Excuses!Found, OfExcuses!Found,
       Excuses!Judgment, OfExcuses!Judgment, Excuses!TypeOK, OfExcuses!TypeOK,
       Excuses!PassStandsOnItsHead, OfExcuses!PassStandsOnItsHead, Excuses!DeliveredOnce,
       OfExcuses!DeliveredOnce, Excuses!AuditTells, OfExcuses!AuditTells, Excuses!AnswerConstants,
       OfExcuses!AnswerConstants, Excuses!answerVars, OfExcuses!answerVars, Excuses!vars,
       OfExcuses!vars, Excuses!NoAnswer, OfExcuses!NoAnswer, Excuses!AnswerInit,
       OfExcuses!AnswerInit, Excuses!At, OfExcuses!At, Excuses!Answer, OfExcuses!Answer,
       Excuses!Proceed, OfExcuses!Proceed, Excuses!On, OfExcuses!On, Excuses!LastAnswer,
       OfExcuses!LastAnswer, Excuses!End, OfExcuses!End, Excuses!TakeLock, OfExcuses!TakeLock,
       Excuses!Asked, OfExcuses!Asked, Excuses!Offered, OfExcuses!Offered, Excuses!Revocable,
       OfExcuses!Revocable, Excuses!Repeats, OfExcuses!Repeats, Excuses!HeadRecorded,
       OfExcuses!HeadRecorded, Excuses!Accept, OfExcuses!Accept, Excuses!Archive,
       OfExcuses!Archive, Excuses!Row, OfExcuses!Row, Excuses!Decidable, OfExcuses!Decidable,
       Excuses!Effect, OfExcuses!Effect, Excuses!Apply, OfExcuses!Apply, Excuses!DeliverAnswer,
       OfExcuses!DeliverAnswer, Excuses!Record, OfExcuses!Record, Excuses!Stop, OfExcuses!Stop,
       Excuses!Kill, OfExcuses!Kill, Excuses!RemoveLock, OfExcuses!RemoveLock, Excuses!AnswerNext,
       OfExcuses!AnswerNext, Excuses!Verbs, OfExcuses!Verbs, Excuses!AnswerTypeOK,
       OfExcuses!AnswerTypeOK, Excuses!AnswersAlternate, OfExcuses!AnswersAlternate,
       Excuses!RecordedTookEffect, OfExcuses!RecordedTookEffect, Excuses!ExcusedWasAsked,
       OfExcuses!ExcusedWasAsked, Excuses!ToSet, OfExcuses!ToSet

(* And so are the commands that answer for an item.                        *)
LEMMA TripwiresSame ==
  /\ OfTripwires!AnswerConstants
  /\ Tripwires!AnswerInit => OfTripwires!AnswerInit
  /\ Tripwires!AnswerNext => OfTripwires!AnswerNext
  /\ OfTripwires!PassStandsOnItsHead => Tripwires!PassStandsOnItsHead
  /\ OfTripwires!DeliveredOnce => Tripwires!DeliveredOnce
  /\ OfTripwires!AuditTells => Tripwires!AuditTells
  /\ OfTripwires!AnswersAlternate => Tripwires!AnswersAlternate
  /\ OfTripwires!RecordedTookEffect => Tripwires!RecordedTookEffect
  /\ OfTripwires!ExcusedWasAsked => Tripwires!ExcusedWasAsked
  /\ OfTripwires!AnswerTypeOK => Tripwires!AnswerTypeOK
BY LandingConstants, ZenonT(60)
   DEF LandingConstants, Tripwires!Condition, OfTripwires!Condition,
       Tripwires!Excusable, OfTripwires!Excusable, Tripwires!GateConstants,
       OfTripwires!GateConstants, Tripwires!NoHead, OfTripwires!NoHead, Tripwires!worldVars,
       OfTripwires!worldVars, Tripwires!gateVars, OfTripwires!gateVars, Tripwires!Idle,
       OfTripwires!Idle, Tripwires!Init, OfTripwires!Init, Tripwires!Now, OfTripwires!Now,
       Tripwires!Goto, OfTripwires!Goto, Tripwires!Push, OfTripwires!Push, Tripwires!MergeByHand,
       OfTripwires!MergeByHand, Tripwires!Except, OfTripwires!Except, Tripwires!ExcuseByHand,
       OfTripwires!ExcuseByHand, Tripwires!Results, OfTripwires!Results, Tripwires!ReadMetadata,
       OfTripwires!ReadMetadata, Tripwires!ReadChecks, OfTripwires!ReadChecks, Tripwires!ReadDiff,
       OfTripwires!ReadDiff, Tripwires!Excused, OfTripwires!Excused, Tripwires!Judged,
       OfTripwires!Judged, Tripwires!Aggregate, OfTripwires!Aggregate, Tripwires!Verdict,
       OfTripwires!Verdict, Tripwires!Identity, OfTripwires!Identity, Tripwires!Conclude,
       OfTripwires!Conclude, Tripwires!LastJudged, OfTripwires!LastJudged,
       Tripwires!AlreadyJudged, OfTripwires!AlreadyJudged, Tripwires!ReadHistory,
       OfTripwires!ReadHistory, Tripwires!AppendRecord, OfTripwires!AppendRecord,
       Tripwires!Return, OfTripwires!Return, Tripwires!Merge, OfTripwires!Merge,
       Tripwires!Deliver, OfTripwires!Deliver, Tripwires!Leave, OfTripwires!Leave,
       Tripwires!Evidence, OfTripwires!Evidence, Tripwires!Floor, OfTripwires!Floor,
       Tripwires!Unfounded, OfTripwires!Unfounded, Tripwires!TimelyPass, OfTripwires!TimelyPass,
       Tripwires!Audit, OfTripwires!Audit, Tripwires!GateStep, OfTripwires!GateStep,
       Tripwires!Next, OfTripwires!Next, Tripwires!Found, OfTripwires!Found, Tripwires!Judgment,
       OfTripwires!Judgment, Tripwires!TypeOK, OfTripwires!TypeOK, Tripwires!PassStandsOnItsHead,
       OfTripwires!PassStandsOnItsHead, Tripwires!DeliveredOnce, OfTripwires!DeliveredOnce,
       Tripwires!AuditTells, OfTripwires!AuditTells, Tripwires!AnswerConstants,
       OfTripwires!AnswerConstants, Tripwires!answerVars, OfTripwires!answerVars, Tripwires!vars,
       OfTripwires!vars, Tripwires!NoAnswer, OfTripwires!NoAnswer, Tripwires!AnswerInit,
       OfTripwires!AnswerInit, Tripwires!At, OfTripwires!At, Tripwires!Answer, OfTripwires!Answer,
       Tripwires!Proceed, OfTripwires!Proceed, Tripwires!On, OfTripwires!On, Tripwires!LastAnswer,
       OfTripwires!LastAnswer, Tripwires!End, OfTripwires!End, Tripwires!TakeLock,
       OfTripwires!TakeLock, Tripwires!Asked, OfTripwires!Asked, Tripwires!Offered,
       OfTripwires!Offered, Tripwires!Revocable, OfTripwires!Revocable, Tripwires!Repeats,
       OfTripwires!Repeats, Tripwires!HeadRecorded, OfTripwires!HeadRecorded, Tripwires!Accept,
       OfTripwires!Accept, Tripwires!Archive, OfTripwires!Archive, Tripwires!Row, OfTripwires!Row,
       Tripwires!Decidable, OfTripwires!Decidable, Tripwires!Effect, OfTripwires!Effect,
       Tripwires!Apply, OfTripwires!Apply, Tripwires!DeliverAnswer, OfTripwires!DeliverAnswer,
       Tripwires!Record, OfTripwires!Record, Tripwires!Stop, OfTripwires!Stop, Tripwires!Kill,
       OfTripwires!Kill, Tripwires!RemoveLock, OfTripwires!RemoveLock, Tripwires!AnswerNext,
       OfTripwires!AnswerNext, Tripwires!Verbs, OfTripwires!Verbs, Tripwires!AnswerTypeOK,
       OfTripwires!AnswerTypeOK, Tripwires!AnswersAlternate, OfTripwires!AnswersAlternate,
       Tripwires!RecordedTookEffect, OfTripwires!RecordedTookEffect, Tripwires!ExcusedWasAsked,
       OfTripwires!ExcusedWasAsked, Tripwires!ToSet, OfTripwires!ToSet

(* The same goes for the repair loop,                                      *)
LEMMA ScanSame ==
  /\ OfGates!Scan!Constants
  /\ Scan!Init => OfGates!Scan!Init
  /\ [Scan!Next]_(Scan!vars) => [OfGates!Scan!Next]_(OfGates!Scan!vars)
  /\ OfGates!Scan!TypeOK => Scan!TypeOK
BY LandingConstants, ZenonT(60)
   DEF LandingConstants, Scan!vars, OfGates!Scan!vars, Scan!github,
       OfGates!Scan!github, Scan!scan, OfGates!Scan!scan, Scan!CheckState,
       OfGates!Scan!CheckState, Scan!Head, OfGates!Scan!Head, Scan!Seen, OfGates!Scan!Seen,
       Scan!Fetched, OfGates!Scan!Fetched, Scan!Constants, OfGates!Scan!Constants, Scan!Init,
       OfGates!Scan!Init, Scan!List, OfGates!Scan!List, Scan!ChecksOf, OfGates!Scan!ChecksOf,
       Scan!BaseChecksOf, OfGates!Scan!BaseChecksOf, Scan!Admitted, OfGates!Scan!Admitted,
       Scan!Skipped, OfGates!Scan!Skipped, Scan!Classify, OfGates!Scan!Classify, Scan!ReadFails,
       OfGates!Scan!ReadFails, Scan!Fetch, OfGates!Scan!Fetch, Scan!Merged, OfGates!Scan!Merged,
       Scan!Pushes, OfGates!Scan!Pushes, Scan!MergeAndPush, OfGates!Scan!MergeAndPush,
       Scan!Finish, OfGates!Scan!Finish, Scan!PushOther, OfGates!Scan!PushOther, Scan!ChecksRun,
       OfGates!Scan!ChecksRun, Scan!BaseChecksRun, OfGates!Scan!BaseChecksRun, Scan!BaseMoves,
       OfGates!Scan!BaseMoves, Scan!Resolve, OfGates!Scan!Resolve, Scan!Next, OfGates!Scan!Next,
       Scan!TypeOK, OfGates!Scan!TypeOK

(* and for publication.                                                    *)
LEMMA HostsSame ==
  /\ OfGates!Hosts!Constants
  /\ Hosts!Init => OfGates!Hosts!Init
  /\ [Hosts!Next]_(Hosts!vars) => [OfGates!Hosts!Next]_(OfGates!Hosts!vars)
  /\ OfGates!Hosts!TypeOK => Hosts!TypeOK
  /\ OfGates!Hosts!PublishedWhole => Hosts!PublishedWhole
  /\ OfGates!Hosts!AsPublished => Hosts!AsPublished
BY LandingConstants, ZenonT(60)
   DEF LandingConstants, Hosts!vars, OfGates!Hosts!vars, Hosts!Day,
       OfGates!Hosts!Day, Hosts!Snapshot, OfGates!Hosts!Snapshot, Hosts!Commit,
       OfGates!Hosts!Commit, Hosts!Authoritative, OfGates!Hosts!Authoritative, Hosts!Constants,
       OfGates!Hosts!Constants, Hosts!Init, OfGates!Hosts!Init, Hosts!Goto, OfGates!Hosts!Goto,
       Hosts!Return, OfGates!Hosts!Return, Hosts!Derived, OfGates!Hosts!Derived, Hosts!Begin,
       OfGates!Hosts!Begin, Hosts!Restore, OfGates!Hosts!Restore, Hosts!Reconciled,
       OfGates!Hosts!Reconciled, Hosts!Staged, OfGates!Hosts!Staged, Hosts!Install,
       OfGates!Hosts!Install, Hosts!MakeCommit, OfGates!Hosts!MakeCommit, Hosts!Push,
       OfGates!Hosts!Push, Hosts!Fail, OfGates!Hosts!Fail, Hosts!Edit, OfGates!Hosts!Edit,
       Hosts!NextDay, OfGates!Hosts!NextDay, Hosts!Next, OfGates!Hosts!Next, Hosts!TypeOK,
       OfGates!Hosts!TypeOK, Hosts!PublishedWhole, OfGates!Hosts!PublishedWhole,
       Hosts!AsPublished, OfGates!Hosts!AsPublished, Hosts!Last, OfGates!Hosts!Last,
       Hosts!IsPrefix, OfGates!Hosts!IsPrefix, Hosts!Cardinality, OfGates!Hosts!Cardinality
--------------------------------------------------------------------------------
(* What MCSpec's steps change.                                             *)
mcVars == <<moving, vars, itemVars, scanVars, hostVars, gateVars>>

(* A component takes its steps alone, and stays as it is when it is not    *)
(* the one that moves: the dispatches,                                     *)
LEMMA RunsMove ==
  /\ MCInit => Works!Init
  /\ [MCNext]_mcVars => [Works!Next]_(Works!vars)
<1>1. [MCNext]_mcVars => [Next]_vars BY DEF MCNext, mcVars
<1>2. QED BY <1>1, RunsSame DEF MCInit

(* the worktree,                                                           *)
LEMMA TreesMove ==
  /\ MCInit => Works!Trees!Init
  /\ [MCNext]_mcVars => [Works!Trees!Next]_(Works!Trees!vars)
<1>1. [MCNext]_mcVars => [Trees!Next]_(Trees!vars)
  BY DEF MCNext, mcVars, itemVars, Trees!vars, Trees!github
<1>2. QED BY <1>1, TreesSame DEF MCInit

(* the repair loop,                                                        *)
LEMMA ScanMoves ==
  /\ MCInit => OfGates!Scan!Init
  /\ [MCNext]_mcVars => [OfGates!Scan!Next]_(OfGates!Scan!vars)
<1>1. [MCNext]_mcVars => [Scan!Next]_(Scan!vars)
  BY DEF MCNext, mcVars, scanVars, Scan!vars
<1>2. QED BY <1>1, ScanSame DEF MCInit

(* and publication.                                                        *)
LEMMA HostsMove ==
  /\ MCInit => OfGates!Hosts!Init
  /\ [MCNext]_mcVars => [OfGates!Hosts!Next]_(OfGates!Hosts!vars)
<1>1. [MCNext]_mcVars => [Hosts!Next]_(Hosts!vars)
  BY DEF MCNext, mcVars, hostVars, Hosts!vars
<1>2. QED BY <1>1, HostsSame DEF MCInit

(* One component moves.                                                    *)
Moves == moving \in {"runs", "trees", "scan", "hosts", "gates", "excuses", "tripwires"}

OnGates == moving = "gates"

(* The gate's variables are moved in one of three ways: by the gate alone, *)
LEMMA GatesMove ==
  /\ MCInit /\ OnGates => OfGates!AnswerInit
  /\ [MCNext]_mcVars /\ OnGates => OnGates' /\ [OfGates!AnswerNext]_(OfGates!vars)
  /\ [MCNext]_mcVars /\ ~OnGates => ~OnGates'
<1>1. MCInit /\ OnGates => OfGates!AnswerInit
  BY GatesSame DEF MCInit, OnGates, Gating, Excusing, Answering
<1>2. ASSUME MCNext, OnGates PROVE OfGates!AnswerNext
  BY <1>2, GatesSame DEF MCNext, OnGates, Excusing, Answering
<1>3. ASSUME UNCHANGED mcVars PROVE UNCHANGED OfGates!vars
  BY <1>3 DEF mcVars, gateVars, OfGates!vars, OfGates!gateVars, OfGates!worldVars,
     OfGates!answerVars
<1>4. [MCNext]_mcVars => UNCHANGED moving BY DEF MCNext, mcVars
<1>5. QED BY <1>1, <1>2, <1>3, <1>4 DEF OnGates

(* by the gate and the answers to what it asks,                            *)
LEMMA ExcusesMove ==
  /\ MCInit /\ Excusing => OfExcuses!AnswerInit
  /\ [MCNext]_mcVars /\ Excusing => Excusing' /\ [OfExcuses!AnswerNext]_(OfExcuses!vars)
  /\ [MCNext]_mcVars /\ ~Excusing => ~Excusing'
<1>1. MCInit /\ Excusing => OfExcuses!AnswerInit
  BY ExcusesSame DEF MCInit, Gating, Excusing, Answering
<1>2. ASSUME MCNext, Excusing PROVE OfExcuses!AnswerNext
  BY <1>2, ExcusesSame DEF MCNext, Excusing, Answering
<1>3. ASSUME UNCHANGED mcVars PROVE UNCHANGED OfExcuses!vars
  BY <1>3 DEF mcVars, gateVars, OfExcuses!vars, OfExcuses!gateVars, OfExcuses!worldVars,
     OfExcuses!answerVars
<1>4. [MCNext]_mcVars => UNCHANGED moving BY DEF MCNext, mcVars
<1>5. QED BY <1>1, <1>2, <1>3, <1>4 DEF Excusing

(* or by the commands that answer for an item.                             *)
LEMMA TripwiresMove ==
  /\ MCInit /\ Answering => OfTripwires!AnswerInit
  /\ [MCNext]_mcVars /\ Answering => Answering' /\ [OfTripwires!AnswerNext]_(OfTripwires!vars)
  /\ [MCNext]_mcVars /\ ~Answering => ~Answering'
<1>1. MCInit /\ Answering => OfTripwires!AnswerInit
  BY TripwiresSame DEF MCInit, Gating, Excusing, Answering
<1>2. ASSUME MCNext, Answering PROVE OfTripwires!AnswerNext
  BY <1>2, TripwiresSame DEF MCNext, Excusing, Answering
<1>3. ASSUME UNCHANGED mcVars PROVE UNCHANGED OfTripwires!vars
  BY <1>3 DEF mcVars, gateVars, OfTripwires!vars, OfTripwires!gateVars, OfTripwires!worldVars,
     OfTripwires!answerVars
<1>4. [MCNext]_mcVars => UNCHANGED moving BY DEF MCNext, mcVars
<1>5. QED BY <1>1, <1>2, <1>3, <1>4 DEF Answering
--------------------------------------------------------------------------------
(* Dispatches one after the other, by the process backend, give an item    *)
(* one run at a time, which is counted while it works, and whose row is    *)
(* the order's only one.                                                   *)
THEOREM LandingRuns ==
  ASSUME Works!Sequential
  PROVE  MCSpec => [](OneRunPerItem /\ RunsAreCounted /\ RunKeepsOnlyRow)
<1>1. Works!Spec => [](Works!OneRunPerItem /\ Works!RunsAreCounted /\ Works!RunKeepsOnlyRow)
  <2>1. Works!Spec => []Works!OneRunPerItem BY Works!OneRun, RunsSame
  <2>2. Works!Spec => []Works!RunsAreCounted BY Works!Counted, RunsSame
  <2>3. Works!Spec => []Works!RunKeepsOnlyRow BY Works!OnlyRow, RunsSame
  <2>4. QED BY <2>1, <2>2, <2>3, PTL
<1>2. Works!OneRunPerItem /\ Works!RunsAreCounted /\ Works!RunKeepsOnlyRow
      => OneRunPerItem /\ RunsAreCounted /\ RunKeepsOnlyRow
  BY RunsSame
<1>3. QED BY <1>1, <1>2, RunsMove, PTL DEF MCSpec, mcVars, Works!Spec

(* Every commit of the item is still somewhere.                            *)
THEOREM LandingWork == MCSpec => []WorkIsKept
<1>1. Works!Trees!Spec => []Works!Trees!WorkIsKept
  BY Works!WorkKept, TreesSame DEF Works!Undisturbed, Works!NoLatePush
<1>2. Works!Trees!WorkIsKept => WorkIsKept BY TreesSame DEF WorkIsKept
<1>3. QED BY <1>1, <1>2, TreesMove, PTL DEF MCSpec, mcVars, Works!Trees!Spec

(* The tree a run works in stays, and uncommitted work until the retention *)
(* is over.                                                                *)
THEOREM LandingTree == MCSpec => TreeIsKept
<1>1. Works!Trees!Spec => Works!Trees!TreeIsKept
  BY Works!TreeKept, TreesSame DEF Works!Undisturbed
<1>2. Works!Trees!TreeIsKept => Trees!TreeIsKept
  BY DEF Works!Trees!TreeIsKept, Trees!TreeIsKept, Works!Trees!vars, Trees!vars,
     Works!Trees!github, Trees!github
<1>3. QED BY <1>1, <1>2, TreesMove, PTL DEF MCSpec, mcVars, Works!Trees!Spec, TreeIsKept

(* Every pass names a commit that satisfies what was not excused for it.   *)
THEOREM LandingPassStands == MCSpec => []PassStandsOnItsHead
<1>1. OfGates!AnswerSpec => []OfGates!PassStandsOnItsHead
  BY OfGates!PassStands, GatesSame
<1>2. OfGates!PassStandsOnItsHead => Gates!PassStandsOnItsHead BY GatesSame
<1>3. MCSpec => [](OnGates => OfGates!PassStandsOnItsHead)
  BY <1>1, GatesMove, PTL DEF MCSpec, mcVars, OfGates!AnswerSpec
<1>4. QED BY <1>2, <1>3, PTL DEF PassStandsOnItsHead, OnGates

(* A scan repairs the very heads it has listed.                            *)
THEOREM LandingRepair == MCSpec => RepairStandsOnListing
<1>1. OfGates!Scan!Spec => OfGates!Scan!RepairStandsOnListing
  BY OfGates!StandsOnListing, ScanSame
<1>2. OfGates!Scan!RepairStandsOnListing => Scan!RepairStandsOnListing
  BY DEF OfGates!Scan!RepairStandsOnListing, Scan!RepairStandsOnListing, OfGates!Scan!vars,
     Scan!vars
<1>3. QED
  BY <1>1, <1>2, ScanMoves, PTL DEF MCSpec, mcVars, OfGates!Scan!Spec, RepairStandsOnListing

(* The gatekeeper, alone, delivers a judgment again only after another,    *)
(* and the sweep tells what was merged.                                    *)
THEOREM LandingOneJudge ==
  ASSUME \A j, k \in One : j = k
  PROVE  MCSpec => [](DeliveredOnce /\ AuditTells)
<1>1. OfGates!AnswerSpec => [](OfGates!DeliveredOnce /\ OfGates!AuditTells)
  BY OfGates!OneJudge, GatesSame DEF OfGates!Alone
<1>2. OfExcuses!AnswerSpec => [](OfExcuses!DeliveredOnce /\ OfExcuses!AuditTells)
  BY OfExcuses!OneJudge, ExcusesSame DEF OfExcuses!Alone
<1>3. MCSpec => [](OnGates => OfGates!DeliveredOnce /\ OfGates!AuditTells)
  BY <1>1, GatesMove, PTL DEF MCSpec, mcVars, OfGates!AnswerSpec
<1>4. MCSpec => [](Excusing => OfExcuses!DeliveredOnce /\ OfExcuses!AuditTells)
  BY <1>2, ExcusesMove, PTL DEF MCSpec, mcVars, OfExcuses!AnswerSpec
<1>5. /\ OnGates => OfGates!DeliveredOnce /\ OfGates!AuditTells
      /\ Excusing => OfExcuses!DeliveredOnce /\ OfExcuses!AuditTells
      => DeliveredOnce /\ AuditTells
  BY GatesSame, ExcusesSame DEF OnGates, DeliveredOnce, AuditTells
<1>6. QED BY <1>3, <1>4, <1>5, PTL

(* No answer is recorded twice in a row, and what is recorded took effect. *)
THEOREM LandingAnswers == MCSpec => []AnswersTookEffect
<1>1. OfExcuses!AnswerSpec => [](OfExcuses!AnswersAlternate /\ OfExcuses!RecordedTookEffect)
  BY OfExcuses!AnswersTold, ExcusesSame
<1>2. OfTripwires!AnswerSpec =>
        [](OfTripwires!AnswersAlternate /\ OfTripwires!RecordedTookEffect)
  BY OfTripwires!AnswersTold, TripwiresSame
<1>3. MCSpec => [](Excusing => OfExcuses!AnswersAlternate /\ OfExcuses!RecordedTookEffect)
  BY <1>1, ExcusesMove, PTL DEF MCSpec, mcVars, OfExcuses!AnswerSpec
<1>4. MCSpec => [](Answering => OfTripwires!AnswersAlternate /\ OfTripwires!RecordedTookEffect)
  BY <1>2, TripwiresMove, PTL DEF MCSpec, mcVars, OfTripwires!AnswerSpec
<1>5. /\ Excusing => OfExcuses!AnswersAlternate /\ OfExcuses!RecordedTookEffect
      /\ Answering => OfTripwires!AnswersAlternate /\ OfTripwires!RecordedTookEffect
      => AnswersTookEffect
  BY ExcusesSame, TripwiresSame DEF AnswersTookEffect
<1>6. QED BY <1>3, <1>4, <1>5, PTL

(* A condition is excused only for a head about which a decision was asked. *)
THEOREM LandingExcused == MCSpec => []ExcusedWasAsked
<1>1. OfExcuses!AnswerSpec => []OfExcuses!ExcusedWasAsked
  BY OfExcuses!ExcusedAsked, ExcusesSame
<1>2. MCSpec => [](Excusing => OfExcuses!ExcusedWasAsked)
  BY <1>1, ExcusesMove, PTL DEF MCSpec, mcVars, OfExcuses!AnswerSpec
<1>3. (Excusing => OfExcuses!ExcusedWasAsked) => ExcusedWasAsked
  BY ExcusesSame DEF ExcusedWasAsked
<1>4. QED BY <1>2, <1>3, PTL

(* What is published is whole, and what is left unpublished is published.  *)
THEOREM LandingPublished == MCSpec => PublishedWhole
<1>1. OfGates!Hosts!Spec => []OfGates!Hosts!PublishedWhole
  BY OfGates!PublishedIsWhole, HostsSame
<1>2. OfGates!Hosts!Spec => [][OfGates!Hosts!AsPublished]_(OfGates!Hosts!vars)
  BY OfGates!UnchangedStands, HostsSame DEF OfGates!Hosts!UnchangedIsPublished
<1>3. OfGates!Hosts!PublishedWhole => Hosts!PublishedWhole BY HostsSame
<1>4. /\ Hosts!PublishedWhole' /\ [OfGates!Hosts!AsPublished]_(OfGates!Hosts!vars)
      => [Hosts!PublishedWhole' /\ Hosts!AsPublished]_hostVars
  BY HostsSame DEF OfGates!Hosts!vars, hostVars
<1>5. QED
  BY <1>1, <1>2, <1>3, <1>4, HostsMove, PTL DEF MCSpec, mcVars, OfGates!Hosts!Spec, PublishedWhole

(* Every variable has its type, in every component.                        *)
THEOREM LandingTyped == MCSpec => []AllTyped
<1>1. Works!Spec => []Works!TypeOK BY Works!Typing, RunsSame
<1>2. Works!Trees!Spec => []Works!Trees!TypeOK BY Works!TreesTyping, TreesSame
<1>3. OfGates!Scan!Spec => []OfGates!Scan!TypeOK BY OfGates!RepairTyping, ScanSame
<1>4. OfGates!Hosts!Spec => []OfGates!Hosts!TypeOK BY OfGates!PublishTyping, HostsSame
<1>5. OfGates!AnswerSpec => []OfGates!AnswerTypeOK BY OfGates!AnswerTyping, GatesSame
<1>6. OfExcuses!AnswerSpec => []OfExcuses!AnswerTypeOK BY OfExcuses!AnswerTyping, ExcusesSame
<1>7. OfTripwires!AnswerSpec => []OfTripwires!AnswerTypeOK
  BY OfTripwires!AnswerTyping, TripwiresSame
<1>8. MCSpec => [](Works!TypeOK /\ Works!Trees!TypeOK)
  BY <1>1, <1>2, RunsMove, TreesMove, PTL DEF MCSpec, mcVars, Works!Spec, Works!Trees!Spec
<1>9. MCSpec => [](OfGates!Scan!TypeOK /\ OfGates!Hosts!TypeOK)
  BY <1>3, <1>4, ScanMoves, HostsMove, PTL
  DEF MCSpec, mcVars, OfGates!Scan!Spec, OfGates!Hosts!Spec
<1>10. MCSpec => [](OnGates => OfGates!AnswerTypeOK)
  BY <1>5, GatesMove, PTL DEF MCSpec, mcVars, OfGates!AnswerSpec
<1>11. MCSpec => [](Excusing => OfExcuses!AnswerTypeOK)
  BY <1>6, ExcusesMove, PTL DEF MCSpec, mcVars, OfExcuses!AnswerSpec
<1>12. MCSpec => [](Answering => OfTripwires!AnswerTypeOK)
  BY <1>7, TripwiresMove, PTL DEF MCSpec, mcVars, OfTripwires!AnswerSpec
<1>13. MCSpec => []Moves
  <2>1. MCInit => Moves BY DEF MCInit, Moves
  <2>2. [MCNext]_mcVars => UNCHANGED moving BY DEF MCNext, mcVars
  <2>3. Moves /\ UNCHANGED moving => Moves' BY DEF Moves
  <2>4. QED BY <2>1, <2>2, <2>3, PTL DEF MCSpec, mcVars
<1>14. /\ Moves /\ Works!TypeOK /\ Works!Trees!TypeOK
       /\ OfGates!Scan!TypeOK /\ OfGates!Hosts!TypeOK
       /\ OnGates => OfGates!AnswerTypeOK
       /\ Excusing => OfExcuses!AnswerTypeOK
       /\ Answering => OfTripwires!AnswerTypeOK
       => AllTyped
  <2> SUFFICES ASSUME Moves, Works!TypeOK, Works!Trees!TypeOK,
                      OfGates!Scan!TypeOK, OfGates!Hosts!TypeOK,
                      OnGates => OfGates!AnswerTypeOK, Excusing => OfExcuses!AnswerTypeOK,
                      Answering => OfTripwires!AnswerTypeOK
               PROVE  AllTyped
    OBVIOUS
  <2>1. TypeOK /\ Trees!TypeOK /\ Scan!TypeOK /\ Hosts!TypeOK
    BY RunsSame, TreesSame, ScanSame, HostsSame
  <2>2. moving = "gates" => Gates!AnswerTypeOK BY GatesSame DEF OnGates
  <2>3. moving = "excuses" => Excuses!AnswerTypeOK BY ExcusesSame DEF Excusing
  <2>4. moving = "tripwires" => Tripwires!AnswerTypeOK BY TripwiresSame DEF Answering
  <2>5. QED BY <2>1, <2>2, <2>3, <2>4 DEF Moves, AllTyped
<1>15. QED BY <1>8, <1>9, <1>10, <1>11, <1>12, <1>13, <1>14, PTL
================================================================================
