------------------------------- MODULE PassLife --------------------------------
(***************************************************************************)
(* A pass of one role (crates/ostrom-store/src/pass.rs): it takes the      *)
(* role's pass lease under an owner name made from the wake count, sweeps, *)
(* starts a harness, waits for it, records its end and releases the lease. *)
(* A renewal thread renews the lease meanwhile.  Passes of the role may    *)
(* overlap: one paused past the TTL loses the lease to the next.           *)
(*                                                                         *)
(* A lease operation is one step here; module LeaseFile is its detail.     *)
(* The claims are the stall reaper's: module PassReap writes them.         *)
(***************************************************************************)
EXTENDS Naturals, Sequences, FiniteSets

CONSTANTS
    Pass,         \* the passes of one role; each is one run and one process
    Mortal,       \* those that may be killed
    NoLease,      \* there is no lease file
    NoClaim,      \* there is no claim on a run
    Identified,   \* /proc gives a process's identity (not on macOS or Windows)
    StartsApart,  \* no two passes are between reading and writing the wake count
    Derived,      \* the actor's settings are derived from its policy
    EmptyScope,   \* a pass may have no repository to act on
    WritesFail,   \* whether a write to the state directory may fail
    EarlyEnds,    \* the outcomes with which a pass may end before its harness
    HarnessEnds   \* the outcomes the transcript and the trace may give it

ASSUME PassAssumption ==
    /\ Mortal \subseteq Pass
    /\ NoLease \notin Pass /\ \A p \in Pass : p \notin Nat
    /\ {Identified, StartsApart, Derived, EmptyScope, WritesFail} \subseteq BOOLEAN
    /\ EarlyEnds \subseteq {"no-candidates", "no-op", "held", "unstarted", "completed", "failed"}
    /\ HarnessEnds \subseteq {"completed", "no-op", "failed", "permission-denied"}

VARIABLES
    wakes,     \* the wake count in the role's state file
    lease,     \* the role's pass lease
    trace,     \* the fact ledger's pass-started and pass-ended rows
    claim,     \* the stall reaper's claim on each run
    pc,        \* where each pass is in run_pass
    owner,     \* the owner name a pass takes: its wake count, or its run id
    lost,      \* passes whose renewal thread found the lease gone
    armed,     \* OwnedLease.armed
    result,    \* the outcome, reason and cost the pass will record
    told,      \* passes with a TERM pending
    alive,     \* pass processes that run
    harness,   \* passes whose harness process runs
    recorded   \* passes whose harness is recorded under <state>/harness

vars == <<wakes, lease, trace, claim, pc, owner, lost, armed, result, told, alive,
          harness, recorded>>
--------------------------------------------------------------------------------
Result(outcome, reason, cost) == [outcome |-> outcome, reason |-> reason, cost |-> cost]

(* What finish records when nothing was decided: terminal_outcome's        *)
(* default, or what deriving the settings set beforehand.                  *)
Unset == Result(IF Derived THEN "failed" ELSE "completed", "none", "null")

Succeeded(r) == r.outcome \in {"completed", "no-op", "no-candidates"}

Row(kind, name, p, by, r) ==
    [kind |-> kind, owner |-> name, run |-> p, by |-> by, result |-> r]

Append1(row) == trace' = Append(trace, row)

Rows == {trace[i] : i \in DOMAIN trace}

Started(p) == \E row \in Rows : row.kind = "pass-started" /\ row.run = p

(* pass_already_ended, and the reaper's hold_closed.                       *)
Ended(name) == \E row \in Rows : row.kind = "pass-ended" /\ row.owner = name

At(p, label) == p \in alive /\ pc[p] = label

Goto(p, label) == pc' = [pc EXCEPT ![p] = label]

Exit(p) == Goto(p, "gone") /\ alive' = alive \ {p}

LeaseLive == lease # NoLease /\ ~lease.lapsed /\ (Identified => lease.holder \in alive)

NamesOwner(p) == lease # NoLease /\ lease.owner = owner[p]

(* The lease names the pass's owner and its process.                       *)
Names(p) == NamesOwner(p) /\ (Identified => lease.holder = p)

Init ==
    /\ wakes = 0 /\ lease = NoLease /\ trace = <<>>
    /\ claim = [p \in Pass |-> NoClaim]
    /\ pc = [p \in Pass |-> "idle"]
    /\ owner = [p \in Pass |-> 0]
    /\ lost = {} /\ armed = {} /\ told = {} /\ harness = {} /\ recorded = {}
    /\ result = [p \in Pass |-> Unset]
    /\ alive = Pass
--------------------------------------------------------------------------------
(* The start of a pass.                                                    *)

(* refuse_empty_repository_scope: the run id stands for the owner, and no  *)
(* lease is taken.                                                         *)
RefuseScope(p) ==
    /\ EmptyScope
    /\ At(p, "idle")
    /\ owner' = [owner EXCEPT ![p] = p]
    /\ result' = [result EXCEPT ![p] = Result("failed", "no-effective-repositories", "zero")]
    /\ Append1(Row("pass-started", p, p, "pass", Unset))
    /\ Goto(p, "append")
    /\ UNCHANGED <<wakes, lease, claim, lost, armed, told, alive, harness, recorded>>

(* The state file is read before the lease is taken.                       *)
ReadState(p) ==
    /\ At(p, "idle")
    /\ StartsApart => \A q \in alive : pc[q] \notin {"acquire", "record"}
    /\ owner' = [owner EXCEPT ![p] = wakes + 1]
    /\ Goto(p, "acquire")
    /\ UNCHANGED <<wakes, lease, trace, claim, lost, armed, result, told, alive, harness, recorded>>

Acquire(p) ==
    /\ At(p, "acquire")
    /\ \/ /\ ~LeaseLive
          /\ lease' = [owner |-> owner[p], holder |-> p, lapsed |-> FALSE]
          /\ armed' = armed \cup {p}
          /\ Goto(p, "record") /\ UNCHANGED alive
       \/ LeaseLive /\ Exit(p) /\ UNCHANGED <<lease, armed>>
    /\ UNCHANGED <<wakes, trace, claim, owner, lost, result, told, harness, recorded>>

(* Mutant: the wake count is not written back.                             *)
WriteStateNot(p) ==
    /\ At(p, "record")
    /\ Goto(p, "prepare")
    /\ UNCHANGED <<wakes, lease, trace, claim, owner, lost, armed, result, told, alive, harness,
                   recorded>>

(* A failure drops the lease.                                              *)
WriteState(p) ==
    /\ At(p, "record")
    /\ \/ wakes' = owner[p] /\ Goto(p, "prepare")
       \/ WritesFail /\ Goto(p, "release") /\ UNCHANGED wakes
    /\ UNCHANGED <<lease, trace, claim, owner, lost, armed, result, told, alive, harness, recorded>>

(* The renewal thread runs until finish stops it.  A lease that no longer  *)
(* names the pass, or a write that fails, is a lost lease, and ends it.    *)
Renewing == {"prepare", "begun", "decide", "ready", "spawn", "note", "run", "stop"}

Renew(p) ==
    /\ p \in alive \ lost /\ pc[p] \in Renewing
    /\ \/ Names(p) /\ lease' = [lease EXCEPT !.lapsed = FALSE] /\ UNCHANGED lost
       \/ (~Names(p) \/ WritesFail) /\ lost' = lost \cup {p} /\ UNCHANGED lease
    /\ UNCHANGED <<wakes, trace, claim, pc, owner, armed, result, told, alive, harness, recorded>>

(* The sweep may wait minutes.  Whether it succeeds or not the pass is     *)
(* started: its row names its run and its process.                         *)
PrepareSweep(p) ==
    /\ At(p, "prepare")
    /\ \/ /\ Append1(Row("pass-started", owner[p], p, "pass", Unset))
          /\ \/ Goto(p, "begun") /\ UNCHANGED result
             \/ /\ Goto(p, "finish")
                /\ result' = [result EXCEPT ![p] = Result("failed", "sweep-failed", "zero")]
       \/ WritesFail /\ Goto(p, "release") /\ UNCHANGED <<trace, result>>
    /\ UNCHANGED <<wakes, lease, claim, owner, lost, armed, told, alive, harness, recorded>>

(* end_if_lease_lost: the lease file and the flag are read.  A lease that  *)
(* no longer names the owner is not the pass's to release.                 *)
Confirm(p, label) ==
    /\ IF Names(p) /\ p \notin lost
       THEN Goto(p, label) /\ UNCHANGED <<result, armed>>
       ELSE /\ Goto(p, "finish")
            /\ result' = [result EXCEPT ![p] = Result("failed", "pass-lease-lost", "zero")]
            /\ armed' = IF NamesOwner(p) THEN armed ELSE armed \ {p}
    /\ UNCHANGED <<wakes, lease, trace, claim, owner, lost, told, alive, harness, recorded>>

ConfirmAfterSweep(p) == At(p, "begun") /\ Confirm(p, "decide")

ConfirmBeforeSpawn(p) == At(p, "ready") /\ Confirm(p, "spawn")

(* check_signal.                                                           *)
TakeSignal(p, label) ==
    /\ p \in told
    /\ told' = told \ {p}
    /\ result' = [result EXCEPT ![p] = Result("timed-out", @.reason, @.cost)]
    /\ Goto(p, label)

(* Between the two confirmations: candidates, signals, settings, the       *)
(* harness's version, the daily cap and dispatchable work.                 *)
Decide(p) ==
    /\ At(p, "decide")
    /\ \/ Goto(p, "ready") /\ UNCHANGED <<result, told>>
       \/ TakeSignal(p, "finish")
       \/ \E outcome \in EarlyEnds :
             /\ result' = [result EXCEPT ![p] = Result(outcome, "none",
                    IF outcome \in {"no-candidates", "no-op", "unstarted"} THEN "zero" ELSE "null")]
             /\ Goto(p, "finish")
             /\ UNCHANGED told
    /\ UNCHANGED <<wakes, lease, trace, claim, owner, lost, armed, alive, harness, recorded>>
--------------------------------------------------------------------------------
(* The harness.                                                            *)

(* A harness that does not start leaves the outcome unset.                 *)
Spawn(p) ==
    /\ At(p, "spawn")
    /\ \/ harness' = harness \cup {p} /\ Goto(p, "note")
       \/ Goto(p, "finish") /\ UNCHANGED harness
    /\ UNCHANGED <<wakes, lease, trace, claim, owner, lost, armed, result, told, alive, recorded>>

(* harness_record::record_or_warn.                                         *)
NoteHarness(p) ==
    /\ At(p, "note")
    /\ \/ Identified /\ p \in harness /\ recorded' = recorded \cup {p}
       \/ (~Identified \/ p \notin harness \/ WritesFail) /\ UNCHANGED recorded
    /\ Goto(p, "run")
    /\ UNCHANGED <<wakes, lease, trace, claim, owner, lost, armed, result, told, alive, harness>>

HarnessExits(p) ==
    /\ p \in harness
    /\ harness' = harness \ {p}
    /\ UNCHANGED <<wakes, lease, trace, claim, pc, owner, lost, armed, result, told, alive, recorded>>

(* Mutant: the wait loop does not look at the renewal's flag.              *)
WaitDeaf(p) ==
    /\ At(p, "run")
    /\ \/ p \in harness /\ TakeSignal(p, "stop")
       \/ /\ p \notin harness
          /\ \E outcome \in HarnessEnds :
                result' = [result EXCEPT ![p] = Result(outcome, "none", "spent")]
          /\ Goto(p, "stop") /\ UNCHANGED told
    /\ UNCHANGED <<wakes, lease, trace, claim, owner, lost, armed, alive, harness, recorded>>

(* wait_for_child stops at a signal, at a lost lease, or when the harness  *)
(* has gone, and reconcile_outcome then says how it went.                  *)
WaitForChild(p) ==
    /\ At(p, "run")
    /\ \/ p \in harness /\ TakeSignal(p, "stop")
       \/ /\ p \in harness /\ p \in lost
          /\ result' = [result EXCEPT ![p] = Result("failed", "pass-lease-lost", @.cost)]
          /\ Goto(p, "stop") /\ UNCHANGED told
       \/ /\ p \notin harness
          /\ \E outcome \in HarnessEnds :
                result' = [result EXCEPT ![p] = Result(outcome, "none", "spent")]
          /\ Goto(p, "stop") /\ UNCHANGED told
    /\ UNCHANGED <<wakes, lease, trace, claim, owner, lost, armed, alive, harness, recorded>>

(* The group is terminated when the wait failed, and the record removed.   *)
StopHarness(p) ==
    /\ At(p, "stop")
    /\ harness' = harness \ {p}
    /\ recorded' = recorded \ {p}
    /\ Goto(p, "finish")
    /\ UNCHANGED <<wakes, lease, trace, claim, owner, lost, armed, result, told, alive>>

(* stop_supervised_harness: the supervisor of a worker that is gone stops  *)
(* what the worker recorded.                                               *)
SupervisorStops(p) ==
    /\ p \in recorded \ alive
    /\ harness' = harness \ {p}
    /\ recorded' = recorded \ {p}
    /\ UNCHANGED <<wakes, lease, trace, claim, pc, owner, lost, armed, result, told, alive>>
--------------------------------------------------------------------------------
(* PassGuard::finish.                                                      *)

(* The permission channel is closed and the trace read: a row that ends    *)
(* this owner's hold leaves nothing to write.                              *)
FinishCheck(p) ==
    /\ At(p, "finish")
    /\ \/ UNCHANGED result
       \/ /\ Derived
          /\ result' = [result EXCEPT ![p] =
                            Result("failed", "permission-channel-cleanup", @.cost)]
    /\ Goto(p, IF Ended(owner[p]) THEN "release" ELSE "intent")
    /\ UNCHANGED <<wakes, lease, trace, claim, owner, lost, armed, told, alive, harness, recorded>>

(* stalls::reap_intent: a claim with a reason, a charge and a signal.      *)
Intent(p) == claim[p] # NoClaim /\ claim[p].signalled /\ claim[p].reason # "none"

ReadIntent(p) ==
    /\ At(p, "intent")
    /\ result' = IF ~Succeeded(result[p]) /\ Intent(p)
                 THEN [result EXCEPT ![p] = Result("failed", claim[p].reason, "ceiling")]
                 ELSE result
    /\ Goto(p, "append")
    /\ UNCHANGED <<wakes, lease, trace, claim, owner, lost, armed, told, alive, harness, recorded>>

AppendEnded(p) ==
    /\ At(p, "append")
    /\ \/ Append1(Row("pass-ended", owner[p], p, "pass", result[p]))
       \/ WritesFail /\ UNCHANGED trace
    /\ Goto(p, "release")
    /\ UNCHANGED <<wakes, lease, claim, owner, lost, armed, result, told, alive, harness, recorded>>

(* release_lease goes by the owner's name.  A guard held by a live process *)
(* refuses it, and the lease stays.                                        *)
Release(p) ==
    /\ At(p, "release")
    /\ \/ lease' = IF p \in armed /\ NamesOwner(p) THEN NoLease ELSE lease
       \/ UNCHANGED lease
    /\ Exit(p)
    /\ UNCHANGED <<wakes, trace, claim, owner, lost, armed, result, told, harness, recorded>>
--------------------------------------------------------------------------------
(* The surroundings: a pause, a signal, a kill.                            *)

(* The TTL passes without a renewal.                                       *)
Lapse ==
    /\ lease # NoLease
    /\ ~lease.lapsed
    /\ lease' = [lease EXCEPT !.lapsed = TRUE]
    /\ UNCHANGED <<wakes, trace, claim, pc, owner, lost, armed, result, told, alive, harness,
                   recorded>>

(* A TERM from the scheduler, or a supervisor found gone.                  *)
Signal(p) ==
    /\ p \in (alive \cap Mortal) \ told
    /\ told' = told \cup {p}
    /\ UNCHANGED <<wakes, lease, trace, claim, pc, owner, lost, armed, result, alive, harness,
                   recorded>>

Kill(p) ==
    /\ p \in alive \cap Mortal
    /\ alive' = alive \ {p}
    /\ UNCHANGED <<wakes, lease, trace, claim, pc, owner, lost, armed, result, told, harness,
                   recorded>>

Step(p) ==
    \/ RefuseScope(p) \/ ReadState(p) \/ Acquire(p) \/ WriteState(p)
    \/ PrepareSweep(p) \/ ConfirmAfterSweep(p) \/ Decide(p) \/ ConfirmBeforeSpawn(p)
    \/ Spawn(p) \/ NoteHarness(p) \/ WaitForChild(p) \/ StopHarness(p)
    \/ FinishCheck(p) \/ ReadIntent(p) \/ AppendEnded(p) \/ Release(p)

Next ==
    \/ \E p \in Pass : \/ Step(p) \/ Renew(p) \/ HarnessExits(p) \/ SupervisorStops(p)
                       \/ Signal(p) \/ Kill(p)
    \/ Lapse

Spec == Init /\ [][Next]_vars

(* A pass's threads run until the process is killed.  A harness may run    *)
(* for ever.                                                               *)
FairSpec == Spec /\ \A p \in Pass : WF_vars(Step(p)) /\ WF_vars(Renew(p) /\ lost' # lost)
--------------------------------------------------------------------------------
Label == Renewing \cup {"idle", "acquire", "record", "finish", "intent", "append", "release", "gone"}

Results == [outcome : EarlyEnds \cup HarnessEnds \cup {"completed", "failed", "timed-out"},
            reason : {"none", "no-effective-repositories", "sweep-failed", "pass-lease-lost",
                      "permission-channel-cleanup", "stalled", "exited-without-terminal"},
            cost : {"null", "zero", "spent", "ceiling"}]

Owners == Nat \cup Pass

(* Every variable has its type.                                            *)
TypeOK ==
    /\ wakes \in Nat
    /\ lease \in [owner : Nat, holder : Pass, lapsed : BOOLEAN] \cup {NoLease}
    /\ trace \in Seq([kind : {"pass-started", "pass-ended"}, owner : Owners, run : Pass,
                      by : {"pass", "reaper"}, result : Results])
    /\ pc \in [Pass -> Label]
    /\ owner \in [Pass -> Owners]
    /\ result \in [Pass -> Results]
    /\ {lost, armed, told, alive, harness, recorded} \subseteq SUBSET Pass

(* "The new holder's lease is left in place" (docs/loops.md:181): a pass   *)
(* that ends never removes the lease another pass has taken.               *)
NewHolderKeepsLease ==
    [][\A p \in Pass : lease # NoLease /\ lease.holder # p /\ Release(p) => lease' = lease]_vars

(* "A pass that lost its lease never starts its harness alongside the pass *)
(* that now holds it" (docs/loops.md:181).                                 *)
LoserStartsNoHarness ==
    [][\A p \in Pass : p \in harness' \ harness => Names(p)]_vars

Killed(p) == p \notin alive /\ pc[p] # "gone"

(* A pass whose lease another pass took stops its harness by itself, even  *)
(* when the harness would run for ever: two harnesses of a role run        *)
(* together only until the next renewal.                                   *)
Displaced(p) == p \in alive /\ lease # NoLease /\ lease.holder # p /\ pc[p] \in Renewing

LoserStopsHarness ==
    \A p \in Pass : p \in harness /\ Displaced(p) ~> p \notin harness \/ Killed(p)

(* A pass that is not killed and whose harness ends records an end for its *)
(* hold: no outcome, early return or lost lease skips it.                  *)
StartedPassEnds ==
    \A p \in Pass : Started(p) ~> Ended(owner[p]) \/ Killed(p) \/ p \in harness
================================================================================
