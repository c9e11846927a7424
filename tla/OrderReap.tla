------------------------------- MODULE OrderReap -------------------------------
(***************************************************************************)
(* The end of an implementer's run, by the process backend.  Its worker    *)
(* records the end of its order and releases the item's lease              *)
(* (crates/ostrom-store/src/implement.rs); when the worker is gone without *)
(* a row its supervisor does (work_order.rs finalize_exited_implementer);  *)
(* a stall reaper stops a run without progress and records it (stalls.rs); *)
(* and the stale-order reaper of every dispatch, or an operator's clear,   *)
(* records an order whose supervisor is gone (work_order.rs).  A harness   *)
(* leads a process group of its own, and nothing ends it with its run.     *)
(*                                                                         *)
(* One order, from its dispatch on.  Claims are whole: module ClaimFile    *)
(* has the steps within them.                                              *)
(***************************************************************************)
EXTENDS Naturals, Sequences

CONSTANTS
    Reaper,      \* the stall reapers; one that is killed is followed by another
    Cleaner,     \* dispatches and clears that reap stale orders
    None, Gone,  \* no claim; the holder of a dead reaper's claim
    Apart,       \* no order is reaped as stale while a claim names its run
    Outside,     \* what is killed from outside: "worker", "supervisor"
    WritesFail,  \* the run may fail to append its row
    MaxKills     \* bound on those kills and on those of reapers

VARIABLES
    rows,    \* the terminal rows of the order
    lease,   \* whether the item's lease names the order
    super,   \* the supervisor: "up", its steps, or "gone"
    worker,  \* the worker: "work", its steps, or "gone"
    end,     \* how the worker's run ended
    why,     \* the reason that the worker and the supervisor read from a claim
    harness, \* whether the run's harness is at work
    told,    \* whether the worker has the TERM flag
    quiet,   \* whether the run is past its stall threshold
    claim,   \* the claim on the run
    pc,      \* where reapers and cleaners are
    warned,  \* history: signalled under a claim before the end was looked into
    kills

vars == <<rows, lease, super, worker, end, why, harness, told, quiet, claim, pc, warned, kills>>
--------------------------------------------------------------------------------
By == {"worker", "supervisor"} \cup Reaper \cup Cleaner

(* What the constants are.                                                 *)
Constants ==
    /\ Reaper \cap Cleaner = {} /\ {"worker", "supervisor"} \cap (Reaper \cup Cleaner) = {}
    /\ Gone \notin Reaper /\ None \notin [holder : Reaper \cup {Gone}, signalled : BOOLEAN]
    /\ WritesFail \in BOOLEAN

(* A row, and whether it names the run besides the order.                  *)
Row == [by : By, reason : {"completed", "failed", "exited", "stalled", "stale"}, run : BOOLEAN]

Init ==
    /\ rows = <<>> /\ lease = TRUE
    /\ super = "up" /\ worker = "work" /\ end = "none" /\ why = [x \in {"worker", "supervisor"} |-> "own"]
    /\ harness = TRUE /\ told = FALSE /\ quiet = FALSE /\ claim = None
    /\ pc = [x \in Reaper \cup Cleaner |-> "idle"]
    /\ warned = FALSE /\ kills = 0

(* in_flight_orders                                                        *)
InFlight == rows = <<>>

Adds(by, reason, run) == rows' = Append(rows, [by |-> by, reason |-> reason, run |-> run])

(* reap_intent: what a claim says of a run, once it was signalled.         *)
Intent == IF claim # None /\ claim.signalled THEN "stalled" ELSE "own"

Goto(x, label) == pc' = [pc EXCEPT ![x] = label]

Reaping == <<claim, pc, warned, kills>>
--------------------------------------------------------------------------------
(* The worker.                                                             *)

(* The work ends, or the worker finds its TERM flag; the harness has been  *)
(* waited for, or stopped with its group.                                  *)
WorkEnds ==
    /\ worker = "work" /\ worker' = "ended"
    /\ end' \in {"completed", "failed"} /\ harness' = FALSE
    /\ UNCHANGED <<rows, lease, super, why, told, quiet, Reaping>>

(* append_terminal reads the reaper's intent for a failure.                *)
ReadIntent ==
    /\ worker = "ended" /\ worker' = "check"
    /\ why' = [why EXCEPT !["worker"] = IF end = "failed" THEN Intent ELSE "own"]
    /\ UNCHANGED <<rows, lease, super, end, harness, told, quiet, Reaping>>

(* run_already_terminal: a row that names the run.                         *)
AlreadyTerminal == \E i \in DOMAIN rows : rows[i].run

CheckTerminal ==
    /\ worker = "check" /\ worker' = IF AlreadyTerminal THEN "release" ELSE "append"
    /\ UNCHANGED <<rows, lease, super, end, why, harness, told, quiet, Reaping>>

AppendTerminal ==
    /\ worker = "append" /\ worker' = "release"
    /\ Adds("worker", IF why["worker"] = "own" THEN end ELSE why["worker"], TRUE)
    /\ UNCHANGED <<lease, super, end, why, harness, told, quiet, Reaping>>

(* A completion that cannot be recorded is tried again as a failure.       *)
AppendFails ==
    /\ WritesFail /\ worker = "append"
    /\ IF end = "completed" THEN worker' = "ended" /\ end' = "failed"
       ELSE worker' = "release" /\ UNCHANGED end
    /\ UNCHANGED <<rows, lease, super, why, harness, told, quiet, Reaping>>

Release ==
    /\ worker = "release" /\ worker' = "gone" /\ lease' = FALSE
    /\ UNCHANGED <<rows, super, end, why, harness, told, quiet, Reaping>>

Work == WorkEnds \/ ReadIntent \/ CheckTerminal \/ AppendTerminal \/ AppendFails \/ Release
--------------------------------------------------------------------------------
(* The supervisor.                                                         *)
Supervise(from, to) == super = from /\ super' = to

(* Its worker is gone: it stops the harness the worker recorded; and twice *)
(* the grace after a signal, also that of a worker that hangs.             *)
StopSupervised ==
    /\ \/ worker = "gone" /\ Supervise("up", "look")
       \/ told /\ worker = "work" /\ harness /\ Supervise("up", "up")
    /\ harness' = FALSE
    /\ UNCHANGED <<rows, lease, worker, end, why, told, quiet, Reaping>>

(* finalize_exited_implementer: nothing to do once the order is ended;     *)
(* otherwise the intent, if there is one, says why.                        *)
Look ==
    /\ IF InFlight THEN Supervise("look", "intent") ELSE Supervise("look", "gone")
    /\ UNCHANGED <<rows, lease, worker, end, why, harness, told, quiet, Reaping>>

FinalIntent ==
    /\ Supervise("intent", "check")
    /\ why' = [why EXCEPT !["supervisor"] = Intent]
    /\ UNCHANGED <<rows, lease, worker, end, harness, told, quiet, Reaping>>

(* append_terminal_row looks again before it appends.                      *)
FinalCheck ==
    /\ IF InFlight THEN Supervise("check", "append") ELSE Supervise("check", "release")
    /\ UNCHANGED <<rows, lease, worker, end, why, harness, told, quiet, Reaping>>

FinalAppend ==
    /\ Supervise("append", "release")
    /\ LET reaped == why["supervisor"] = "stalled"
       IN Adds("supervisor", IF reaped THEN "stalled" ELSE "exited", reaped)
    /\ UNCHANGED <<lease, worker, end, why, harness, told, quiet, Reaping>>

FinalRelease ==
    /\ Supervise("release", "gone") /\ lease' = FALSE
    /\ UNCHANGED <<rows, worker, end, why, harness, told, quiet, Reaping>>

Finalize == StopSupervised \/ Look \/ FinalIntent \/ FinalCheck \/ FinalAppend \/ FinalRelease
--------------------------------------------------------------------------------
(* A stall reaper r.  Of a run it has not claimed it looks at the lease,   *)
(* whose process is the supervisor, the leader of the worker's group.      *)
Run == <<rows, lease, super, worker, end, why, harness, told, quiet>>

Observe(r) ==
    /\ pc[r] = "idle" /\ InFlight /\ Goto(r, "judge")
    /\ UNCHANGED <<Run, claim, warned, kills>>

(* classify; or a claim that is there, left alone while its reaper lives.  *)
Judge(r) ==
    /\ pc[r] = "judge"
    /\ IF claim # None THEN Goto(r, IF claim.holder = Gone THEN "takeover" ELSE "idle")
       ELSE Goto(r, IF quiet /\ lease /\ super # "gone" THEN "claim" ELSE "idle")
    /\ UNCHANGED <<Run, claim, warned, kills>>

ClaimRun(r) ==
    /\ pc[r] = "claim" /\ (Apart => \A c \in Cleaner : pc[c] = "idle")
    /\ IF claim = None
       THEN claim' = [holder |-> r, signalled |-> FALSE] /\ Goto(r, "closed")
       ELSE UNCHANGED claim /\ Goto(r, "idle")
    /\ UNCHANGED <<Run, warned, kills>>

TakeOver(r) ==
    /\ pc[r] = "takeover"
    /\ IF claim # None /\ claim.holder = Gone
       THEN claim' = [claim EXCEPT !.holder = r] /\ Goto(r, "reclosed")
       ELSE UNCHANGED claim /\ Goto(r, "idle")
    /\ UNCHANGED <<Run, warned, kills>>

(* hold_closed: the run may have ended on its own.                         *)
HoldClosed(r) ==
    /\ \/ pc[r] = "closed" /\ Goto(r, IF InFlight THEN "settle" ELSE "remove")
       \/ pc[r] = "reclosed" /\ Goto(r, IF InFlight THEN "lease" ELSE "remove")
    /\ UNCHANGED <<Run, claim, warned, kills>>

(* resume_claim: the run releases its lease as it ends, so that without    *)
(* one it is gone.                                                         *)
ReadLease(r) ==
    /\ pc[r] = "lease" /\ Goto(r, IF lease THEN "settle" ELSE "harness")
    /\ UNCHANGED <<Run, claim, warned, kills>>

(* stop_process: what runs is signalled, after the claim says so.          *)
Settle(r) ==
    /\ pc[r] = "settle" /\ Goto(r, IF super = "gone" THEN "harness" ELSE "mark")
    /\ UNCHANGED <<Run, claim, warned, kills>>

MarkSignalled(r) ==
    /\ pc[r] = "mark" /\ Goto(r, "term")
    /\ claim' = [claim EXCEPT !.signalled = TRUE]
    /\ UNCHANGED <<Run, warned, kills>>

(* Whoever records the end, the worker or its supervisor, knows why.       *)
Decided ==
    \/ worker \in {"check", "append", "release"}
    \/ worker = "gone" /\ super \in {"check", "append", "release", "gone"}

Term(r) ==
    /\ pc[r] = "term" /\ Goto(r, "wait")
    /\ told' = (told \/ (super # "gone" /\ worker # "gone"))
    /\ warned' = (warned \/ (InFlight /\ super # "gone" /\ ~Decided))
    /\ UNCHANGED <<rows, lease, super, worker, end, why, harness, quiet, claim, kills>>

(* The grace is over: KILL reaches the supervisor and its worker, but not  *)
(* the harness.                                                            *)
Kill(r) ==
    /\ pc[r] = "wait" /\ super # "gone"
    /\ super' = "gone" /\ worker' = "gone"
    /\ UNCHANGED <<rows, lease, end, why, harness, told, quiet, Reaping>>

Confirm(r) ==
    /\ pc[r] = "wait" /\ super = "gone" /\ Goto(r, "harness")
    /\ UNCHANGED <<Run, claim, warned, kills>>

(* Mutant: the run's harness is left alone.                                *)
LeaveHarness(r) == pc[r] = "harness" /\ Goto(r, "finish") /\ UNCHANGED <<Run, claim, warned, kills>>

(* stop_harness, which notes its signal too; unconfirmed, nothing is       *)
(* recorded and the claim stays for another reaper.                        *)
StopHarness(r) ==
    /\ pc[r] = "harness"
    /\ claim' = [claim EXCEPT !.signalled = claim.signalled \/ harness]
    /\ \/ harness' = FALSE /\ Goto(r, "finish")
       \/ harness /\ Goto(r, "idle") /\ UNCHANGED harness
    /\ UNCHANGED <<rows, lease, super, worker, end, why, told, quiet, warned, kills>>

RemoveClaim(r) ==
    /\ pc[r] = "remove" /\ Goto(r, "idle") /\ claim' = None
    /\ UNCHANGED <<Run, warned, kills>>

(* A reaper that has not removed its claim exits, or is killed.            *)
Leave(r) ==
    /\ \/ pc[r] = "idle" /\ UNCHANGED <<pc, kills>>
       \/ kills < MaxKills /\ kills' = kills + 1 /\ Goto(r, "idle")
    /\ claim # None /\ claim.holder = r /\ claim' = [claim EXCEPT !.holder = Gone]
    /\ UNCHANGED <<Run, warned>>

Reap(r) ==
    \/ Observe(r) \/ Judge(r) \/ ClaimRun(r) \/ TakeOver(r) \/ HoldClosed(r) \/ ReadLease(r)
    \/ Settle(r) \/ MarkSignalled(r) \/ Term(r) \/ Kill(r) \/ Confirm(r) \/ StopHarness(r)
    \/ RemoveClaim(r) \/ Leave(r)
--------------------------------------------------------------------------------
(* A stale-order reaper c, which looks at no claim.                        *)
LookInFlight(c) ==
    /\ pc[c] = "idle" /\ InFlight /\ Goto(c, "observe")
    /\ Apart => claim = None
    /\ UNCHANGED <<Run, claim, warned, kills>>

(* observe_process: no lease, or that of a process that is gone.           *)
ObserveProcess(c) ==
    /\ pc[c] = "observe" /\ Goto(c, IF lease /\ super # "gone" THEN "idle" ELSE "finish")
    /\ UNCHANGED <<Run, claim, warned, kills>>

Clean(c) == LookInFlight(c) \/ ObserveProcess(c)

(* Mutant: append_terminal_row does not look again.                        *)
FinishUnread(x) == pc[x] = "finish" /\ Goto(x, "append") /\ UNCHANGED <<Run, claim, warned, kills>>

(* append_terminal_row looks again; a stall reaper's row says what its     *)
(* claim says, and names the run.                                          *)
FinishCheck(x) ==
    /\ pc[x] = "finish" /\ Goto(x, IF InFlight THEN "append" ELSE "release")
    /\ UNCHANGED <<Run, claim, warned, kills>>

AppendReaped(x) ==
    /\ pc[x] = "append" /\ Goto(x, "release")
    /\ Adds(x, IF x \in Reaper THEN "stalled" ELSE "stale", x \in Reaper)
    /\ UNCHANGED <<lease, super, worker, end, why, harness, told, quiet, claim, warned, kills>>

ReleaseOrder(x) ==
    /\ pc[x] = "release" /\ Goto(x, IF x \in Reaper THEN "remove" ELSE "idle") /\ lease' = FALSE
    /\ UNCHANGED <<rows, super, worker, end, why, harness, told, quiet, claim, warned, kills>>

Finish(x) == FinishCheck(x) \/ AppendReaped(x) \/ ReleaseOrder(x)
--------------------------------------------------------------------------------
GoQuiet ==
    /\ worker = "work" /\ ~quiet /\ quiet' = TRUE
    /\ UNCHANGED <<rows, lease, super, worker, end, why, harness, told, Reaping>>

KillOutside ==
    /\ kills < MaxKills /\ kills' = kills + 1
    /\ \/ "worker" \in Outside /\ worker # "gone" /\ worker' = "gone" /\ UNCHANGED super
       \/ "supervisor" \in Outside /\ super # "gone" /\ super' = "gone" /\ UNCHANGED worker
    /\ UNCHANGED <<rows, lease, end, why, harness, told, quiet, claim, pc, warned>>

Next ==
    \/ Work \/ Finalize \/ GoQuiet \/ KillOutside
    \/ \E r \in Reaper : Reap(r)
    \/ \E c \in Cleaner : Clean(c)
    \/ \E x \in Reaper \cup Cleaner : Finish(x)

Spec == Init /\ [][Next]_vars
--------------------------------------------------------------------------------
(* Every variable has its type.                                            *)
TypeOK ==
    /\ rows \in Seq(Row) /\ {lease, harness, told, quiet, warned} \subseteq BOOLEAN
    /\ super \in {"up", "look", "intent", "check", "append", "release", "gone"}
    /\ worker \in {"work", "ended", "check", "append", "release", "gone"}
    /\ end \in {"none", "completed", "failed"}
    /\ why \in [{"worker", "supervisor"} -> {"own", "stalled"}]
    /\ claim \in {None} \cup [holder : Reaper \cup {Gone}, signalled : BOOLEAN]
    /\ pc \in [Reaper \cup Cleaner -> {"idle", "judge", "claim", "takeover", "closed", "reclosed",
                  "lease", "settle", "mark", "term", "wait", "harness", "remove", "observe",
                  "finish", "append", "release"}]

(* An order gets one terminal row, whoever writes it (work_order.rs:676).  *)
EndedOnce == Len(rows) <= 1

(* Of a run that was signalled under a claim, before the worker or its     *)
(* supervisor looked into why it ended, the row says `stalled`, unless the *)
(* work was completed (#635, stalls.rs reap_intent).                       *)
StoppedSaysStalled ==
    warned => \A i \in DOMAIN rows : rows[i].reason \in {"completed", "stalled"}

(* An item whose lease was released has no harness at work (stalls.rs      *)
(* finish_claim, main.rs supervise).                                       *)
LeaseOutlivesHarness == harness => lease

(* What the end of an order promises, the first only where a run can       *)
(* write its row.                                                          *)
OrderEndRecorded == (~WritesFail => EndedOnce) /\ StoppedSaysStalled /\ LeaseOutlivesHarness
================================================================================
