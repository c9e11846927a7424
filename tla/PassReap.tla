------------------------------- MODULE PassReap --------------------------------
(***************************************************************************)
(* The stall reaper (crates/ostrom-store/src/stalls.rs) at work on the     *)
(* passes of module PassLife.  It claims a run, stops its process, stops   *)
(* the harness the run recorded, and records the end the pass never wrote. *)
(* Reapers run in several processes, exit, and may be killed anywhere; a   *)
(* claim left by one is taken over by the next.                            *)
(*                                                                         *)
(* Creating, taking over and removing a claim are the steps of module      *)
(* ClaimFile that other reapers, or the pass itself, can come between.     *)
(***************************************************************************)
EXTENDS PassLife

CONSTANTS
    Reaper,       \* reaper processes; one that exits is run again
    Gone,         \* the holder of a claim whose reaper is gone
    WholeClaims,  \* no reaper is killed between creating and writing a claim
    StopsFail,    \* a stop may stay unconfirmed
    MaxKills      \* bound: how often a reaper is killed

Claims == [holder : Reaper \cup {Gone}, reason : {"none", "stalled", "exited-without-terminal"},
           signalled : BOOLEAN]

ASSUME ReapAssumption ==
    /\ Gone \notin Reaper /\ NoClaim \notin Claims
    /\ WholeClaims \in BOOLEAN /\ StopsFail \in BOOLEAN
    /\ MaxKills \in Nat

VARIABLES
    rpc,      \* where each reaper is
    job,      \* the run it works on, what its claim says, and the process to stop
    quiet,    \* passes past their stall threshold
    warned,   \* history: passes signalled under a claim before they began to finish
    kills     \* how often a reaper has been killed

passVars == <<wakes, lease, trace, pc, owner, lost, armed, result, harness, recorded>>

reapVars == <<rpc, job, quiet, warned, kills>>

allVars == <<vars, reapVars>>
--------------------------------------------------------------------------------
(* A claim's holder and record.  Just created it records nothing.          *)
ClaimOf(r, j) == [holder |-> r, reason |-> j.reason, signalled |-> j.signalled]

(* Mutant: the claim does not name its holder.                             *)
EmptyClaimUnheld(r) == [holder |-> NoClaim, reason |-> "none", signalled |-> FALSE]

EmptyClaim(r) == [holder |-> r, reason |-> "none", signalled |-> FALSE]

Mine(r) == claim[job[r].run] # NoClaim /\ claim[job[r].run].holder = r

(* The openers of open holds: an owner's latest pass-started row.          *)
Opens(i) ==
    /\ i \in DOMAIN trace
    /\ trace[i].kind = "pass-started"
    /\ ~Ended(trace[i].owner)
    /\ \A k \in DOMAIN trace : k > i => trace[k].owner # trace[i].owner

(* pass_generation: the lease that names the hold's owner, else the        *)
(* process its pass-started row recorded.  A refused scope records none.   *)
Current(q) == lease # NoLease /\ lease.owner = owner[q]

HasProcess(q) == Identified /\ owner[q] # q

Process(q) == IF Current(q) THEN lease.holder ELSE q

RAt(r, label) == rpc[r] = label

RGoto(r, label) == rpc' = [rpc EXCEPT ![r] = label]

NoJob == [run |-> NoClaim, target |-> NoLease, reason |-> "none", signalled |-> FALSE,
          resumed |-> FALSE]

Idle(r) == RGoto(r, "idle") /\ job' = [job EXCEPT ![r] = NoJob]

ReapInit ==
    /\ Init
    /\ rpc = [r \in Reaper |-> "idle"]
    /\ job = [r \in Reaper |-> NoJob]
    /\ quiet = {} /\ warned = {} /\ kills = 0
--------------------------------------------------------------------------------
(* reap_all.                                                               *)

(* open_holdings: the snapshot a reap works from.                          *)
Observe(r, q) ==
    /\ RAt(r, "idle")
    /\ \E i \in DOMAIN trace : Opens(i) /\ trace[i].run = q
    /\ job' = [job EXCEPT ![r].run = q]
    /\ RGoto(r, "judge")
    /\ UNCHANGED <<passVars, claim, told, alive, quiet, warned, kills>>

(* remove_settled_claims: a dead reaper's claim whose hold has its row.    *)
Settle(r, q) ==
    /\ RAt(r, "idle")
    /\ claim[q] # NoClaim
    /\ claim[q].holder = Gone /\ claim[q].reason # "none"
    /\ Ended(owner[q])
    /\ job' = [job EXCEPT ![r].run = q]
    /\ RGoto(r, "settle")
    /\ UNCHANGED <<passVars, claim, told, alive, quiet, warned, kills>>

SettleRemove(r) ==
    /\ RAt(r, "settle")
    /\ claim' = [claim EXCEPT ![job[r].run] = NoClaim]
    /\ Idle(r)
    /\ UNCHANGED <<passVars, told, alive, quiet, warned, kills>>

(* remove_settled_harness_records.                                         *)
ForgetHarness ==
    /\ recorded' = recorded \cap harness
    /\ recorded' # recorded
    /\ UNCHANGED <<wakes, lease, trace, claim, pc, owner, lost, armed, result, told, alive,
                   harness, reapVars>>

Stalled(q) == HasProcess(q) /\ Process(q) \in alive /\ q \in quiet

(* Mutant: a pass that no lease names has exited.                          *)
ExitedByLease(q) ==
    IF HasProcess(q) /\ Current(q) THEN Process(q) \notin alive ELSE Current(q) => lease.lapsed

Exited(q) ==
    IF HasProcess(q) THEN Process(q) \notin alive ELSE Current(q) => lease.lapsed

(* classify, when the run has no claim; otherwise the claim is examined,   *)
(* and left alone while its reaper lives.                                  *)
Judge(r) ==
    /\ RAt(r, "judge")
    /\ LET q == job[r].run IN
       \/ /\ claim[q] = NoClaim /\ Stalled(q)
          /\ job' = [job EXCEPT ![r].target = Process(q), ![r].reason = "stalled"]
          /\ RGoto(r, "create")
       \/ /\ claim[q] = NoClaim /\ Exited(q)
          /\ job' = [job EXCEPT ![r].reason = "exited-without-terminal"]
          /\ RGoto(r, "create")
       \/ /\ claim[q] # NoClaim /\ claim[q].holder = Gone
          /\ job' = [job EXCEPT ![r].reason = claim[q].reason,
                                ![r].signalled = claim[q].signalled, ![r].resumed = TRUE]
          /\ RGoto(r, "takeover")
       \/ /\ IF claim[q] = NoClaim THEN ~Stalled(q) /\ ~Exited(q) ELSE claim[q].holder # Gone
          /\ Idle(r)
    /\ UNCHANGED <<passVars, claim, told, alive, quiet, warned, kills>>

(* Mutant: a claim somebody left is not taken over.                        *)
TakeOverNot(r) ==
    /\ RAt(r, "takeover")
    /\ Idle(r)
    /\ UNCHANGED <<passVars, claim, told, alive, quiet, warned, kills>>

(* claim::take_over moves the stale claim aside, and creates it anew.      *)
TakeOver(r) ==
    /\ RAt(r, "takeover")
    /\ LET q == job[r].run IN
       IF claim[q] = ClaimOf(Gone, job[r])
       THEN claim' = [claim EXCEPT ![q] = NoClaim] /\ RGoto(r, "create") /\ UNCHANGED job
       ELSE Idle(r) /\ UNCHANGED claim
    /\ UNCHANGED <<passVars, told, alive, quiet, warned, kills>>

CreateClaim(r) ==
    /\ RAt(r, "create")
    /\ LET q == job[r].run IN
       IF claim[q] = NoClaim
       THEN claim' = [claim EXCEPT ![q] = EmptyClaim(r)] /\ RGoto(r, "write") /\ UNCHANGED job
       ELSE Idle(r) /\ UNCHANGED claim
    /\ UNCHANGED <<passVars, told, alive, quiet, warned, kills>>

(* A pass found exited is closed at once; a stalled one, or one whose      *)
(* claim was left behind, is looked at again.                              *)
WriteClaim(r) ==
    /\ RAt(r, "write")
    /\ claim' = IF Mine(r) THEN [claim EXCEPT ![job[r].run] = ClaimOf(r, job[r])] ELSE claim
    /\ RGoto(r, IF job[r].target # NoLease \/ job[r].resumed THEN "recheck" ELSE "harness")
    /\ UNCHANGED <<passVars, told, alive, job, quiet, warned, kills>>

DropClaim(r) ==
    claim' = IF Mine(r) THEN [claim EXCEPT ![job[r].run] = NoClaim] ELSE claim

(* hold_closed.  A resumed claim's process is worked out from the lease.   *)
Recheck(r) ==
    /\ RAt(r, "recheck")
    /\ LET q == job[r].run IN
       \/ /\ Ended(owner[q])
          /\ DropClaim(r) /\ Idle(r)
       \/ /\ ~Ended(owner[q])
          /\ UNCHANGED claim
          /\ IF HasProcess(q) \/ ~Current(q) \/ lease.lapsed
             THEN /\ RGoto(r, "stop")
                  /\ job' = IF job[r].resumed /\ HasProcess(q)
                            THEN [job EXCEPT ![r].target = Process(q)] ELSE job
             ELSE RGoto(r, "exit") /\ UNCHANGED job
    /\ UNCHANGED <<passVars, told, alive, quiet, warned, kills>>
--------------------------------------------------------------------------------
(* stop_process: what the claim records comes before the signal.           *)

(* Mutant: the signal is not recorded first.                               *)
MarkSignalledNot(r) ==
    /\ RAt(r, "stop")
    /\ RGoto(r, IF job[r].target \in alive THEN "signal" ELSE "harness")
    /\ UNCHANGED <<passVars, claim, told, alive, job, quiet, warned, kills>>

(* mark_signalled, refused when the claim is no longer this reaper's.      *)
MarkSignalled(r) ==
    /\ RAt(r, "stop")
    /\ IF job[r].target \notin alive
       THEN RGoto(r, "harness") /\ UNCHANGED <<claim, job>>
       ELSE IF Mine(r)
       THEN /\ job' = [job EXCEPT ![r].signalled = TRUE]
            /\ claim' = [claim EXCEPT ![job[r].run].signalled = TRUE]
            /\ RGoto(r, "signal")
       ELSE RGoto(r, "exit") /\ UNCHANGED <<claim, job>>
    /\ UNCHANGED <<passVars, told, alive, quiet, warned, kills>>

SendTerm(r) ==
    /\ RAt(r, "signal")
    /\ told' = told \cup {job[r].target}
    /\ warned' = IF job[r].target \in alive /\ pc[job[r].target] \in Renewing
                 THEN warned \cup {job[r].target} ELSE warned
    /\ RGoto(r, "wait")
    /\ UNCHANGED <<passVars, claim, alive, job, quiet, kills>>

(* A process that outlives the grace is sent KILL.                         *)
Wait(r) ==
    /\ RAt(r, "wait")
    /\ \/ alive' = alive \ {job[r].target} /\ RGoto(r, "harness")
       \/ StopsFail /\ RGoto(r, "exit") /\ UNCHANGED alive
    /\ UNCHANGED <<passVars, claim, told, job, quiet, warned, kills>>

(* stop_harness: a recorded harness that runs is signalled under the same  *)
(* mark.                                                                   *)
StopRunHarness(r) ==
    /\ RAt(r, "harness")
    /\ LET q == job[r].run IN
       \/ /\ q \in recorded \cap harness => Mine(r)
          /\ harness' = IF q \in recorded THEN harness \ {q} ELSE harness
          /\ recorded' = recorded \ {q}
          /\ IF q \in recorded \cap harness
             THEN /\ claim' = [claim EXCEPT ![q].signalled = TRUE]
                  /\ job' = [job EXCEPT ![r].signalled = TRUE]
             ELSE UNCHANGED <<claim, job>>
          /\ RGoto(r, "finish")
       \/ /\ q \in recorded \cap harness /\ (StopsFail \/ ~Mine(r))
          /\ RGoto(r, "exit")
          /\ UNCHANGED <<harness, recorded, claim, job>>
    /\ UNCHANGED <<wakes, lease, trace, pc, owner, lost, armed, result, told, alive, quiet,
                   warned, kills>>

(* Mutant: the trace is not read again before the row is written.          *)
FinishClaimUnread(r) ==
    /\ RAt(r, "finish")
    /\ RGoto(r, IF job[r].reason = "none" THEN "exit" ELSE "append")
    /\ UNCHANGED <<passVars, claim, told, alive, job, quiet, warned, kills>>

(* finish_claim: a claim that records nothing is an error, and stays.      *)
FinishClaim(r) ==
    /\ RAt(r, "finish")
    /\ RGoto(r, IF job[r].reason = "none" THEN "exit"
                ELSE IF Ended(owner[job[r].run]) THEN "remove" ELSE "append")
    /\ UNCHANGED <<passVars, claim, told, alive, job, quiet, warned, kills>>

AppendReaped(r) ==
    /\ RAt(r, "append")
    /\ LET q == job[r].run IN
       Append1(Row("pass-ended", owner[q], q, "reaper", Result("failed", job[r].reason, "ceiling")))
    /\ RGoto(r, "remove")
    /\ UNCHANGED <<wakes, lease, pc, owner, lost, armed, result, harness, recorded, claim, told,
                   alive, job, quiet, warned, kills>>

RemoveClaim(r) ==
    /\ RAt(r, "remove")
    /\ DropClaim(r)
    /\ Idle(r)
    /\ UNCHANGED <<passVars, told, alive, quiet, warned, kills>>

(* The reaper's process ends; a claim it leaves has no living holder.      *)
Abandon(r) ==
    claim' = [q \in Pass |-> IF claim[q] # NoClaim /\ claim[q].holder = r
                             THEN [claim[q] EXCEPT !.holder = Gone] ELSE claim[q]]

ReaperExits(r) ==
    /\ RAt(r, "exit")
    /\ Abandon(r) /\ Idle(r)
    /\ UNCHANGED <<passVars, told, alive, quiet, warned, kills>>

KillReaper(r) ==
    /\ kills < MaxKills
    /\ rpc[r] # "idle"
    /\ WholeClaims => rpc[r] # "write"
    /\ kills' = kills + 1
    /\ Abandon(r) /\ Idle(r)
    /\ UNCHANGED <<passVars, told, alive, quiet, warned>>

(* A started pass makes no progress for its stall threshold.               *)
GoQuiet(q) ==
    /\ q \notin quiet /\ Started(q) /\ ~Ended(owner[q])
    /\ quiet' = quiet \cup {q}
    /\ UNCHANGED <<vars, rpc, job, warned, kills>>

ReapStep(r) ==
    \/ SettleRemove(r) \/ Judge(r) \/ TakeOver(r) \/ CreateClaim(r) \/ WriteClaim(r)
    \/ Recheck(r) \/ MarkSignalled(r) \/ SendTerm(r) \/ Wait(r) \/ StopRunHarness(r)
    \/ FinishClaim(r) \/ AppendReaped(r) \/ RemoveClaim(r) \/ ReaperExits(r)

ReapNext ==
    \/ Next /\ UNCHANGED reapVars
    \/ \E r \in Reaper : \/ ReapStep(r) \/ KillReaper(r)
                         \/ \E q \in Pass : Observe(r, q) \/ Settle(r, q)
    \/ ForgetHarness
    \/ \E q \in Pass : GoQuiet(q)

ReapSpec == ReapInit /\ [][ReapNext]_allVars

(* Reapers run again and again and go through every hold; a reaper that    *)
(* has begun goes on unless it is killed.  Nothing is fair to a pass: it   *)
(* may hang at any point, and is then quiet in time.                       *)
FairReapSpec ==
    /\ ReapSpec
    /\ \A r \in Reaper : WF_allVars(ReapStep(r))
    /\ \A r \in Reaper, q \in Pass : SF_allVars(Observe(r, q))
    /\ \A q \in Pass : WF_allVars(GoQuiet(q))
--------------------------------------------------------------------------------
ReapTypeOK ==
    /\ TypeOK
    /\ claim \in [Pass -> Claims \cup {NoClaim}]
    /\ {quiet, warned} \subseteq SUBSET Pass
    /\ kills \in 0 .. MaxKills

(* A hold ends once: "the pass must not then write a second terminal row   *)
(* for the same hold" (pass.rs:608-610), nor a second reaper, nor the same *)
(* one twice, whoever dies or pauses in between.                           *)
OneEndPerHold ==
    \A i, k \in DOMAIN trace :
        /\ trace[i].kind = "pass-ended" /\ trace[k].kind = "pass-ended"
        /\ trace[i].owner = trace[k].owner
        => i = k

(* The reaper records an end only for a run that is gone with its harness. *)
(* A worker killed between spawning and recording its harness leaves it    *)
(* (docs/loops.md:173).                                                    *)
RecordsGone ==
    \A r \in Reaper :
        AppendReaped(r) => /\ job[r].run \notin alive
                           /\ job[r].run \in harness => pc[job[r].run] = "note"
EndRecordedOnceGone == [][RecordsGone]_allVars

(* "The trace therefore says `stalled` whether the run, its supervisor or  *)
(* the reaper wrote the row" (docs/loops.md:175): a run a stall reaper     *)
(* signalled before it began to finish, and which did not succeed, is      *)
(* recorded as stalled at its ceiling.                                     *)
SignalledSaysStalled ==
    \A row \in Rows :
        row.kind = "pass-ended" /\ row.run \in warned /\ ~Succeeded(row.result)
        => row.result.reason = "stalled" /\ row.result.cost = "ceiling"

(* "Reap every stalled hold in scope, complete every claim a dead reaper   *)
(* left, and close every pass hold whose process is gone" (stalls.rs:227): *)
(* a pass that started is ended, whether it hangs, is killed or loses its  *)
(* lease, and whatever a dead reaper left.                                 *)
EveryHoldCloses == \A p \in Pass : Started(p) ~> Ended(owner[p])
================================================================================
