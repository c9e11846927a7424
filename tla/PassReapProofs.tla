---------------------------- MODULE PassReapProofs -----------------------------
(* Theorems about module PassReap, for any number of passes, of reapers    *)
(* and of kills of either, whatever stops are confirmed and whatever       *)
(* writes fail; and what they say of the run of module MCReaping.          *)
EXTENDS MCReaping, TLAPS

USE PassAssumption, ReapAssumption

(* Where /proc gives a process's identity, starts do not overlap and every *)
(* pass has a repository to act on.                                        *)
Watched == Identified = TRUE /\ StartsApart = TRUE /\ EmptyScope = FALSE

(* The passes that started, the names of those that ended, and the passes  *)
(* whose wake count is written.                                            *)
Begun == {p \in Pass : Started(p)}

Over == {row.owner : row \in {e \in Rows : e.kind = "pass-ended"}}

Middle == Renewing \cup {"finish", "intent", "append"}

Numbered == {p \in Pass : p \in Begun \/ pc[p] \in Middle}

(* A reaper's place and its job.                                           *)
RLabel == {"idle", "judge", "takeover", "create", "write", "recheck", "stop", "signal", "wait",
           "harness", "finish", "append", "remove", "settle", "exit"}

JobSet == [run : Pass \cup {NoClaim}, target : Pass \cup {NoLease},
           reason : {"none", "stalled", "exited-without-terminal"},
           signalled : BOOLEAN, resumed : BOOLEAN]

Typed ==
    /\ ReapTypeOK
    /\ rpc \in [Reaper -> RLabel] /\ job \in [Reaper -> JobSet]
    /\ \A p \in Pass : pc[p] \in {"acquire", "record"} => owner[p] \in Nat
    /\ \A r \in Reaper : /\ rpc[r] # "idle" => job[r].run \in Pass
                         /\ rpc[r] = "signal" => job[r].target \in Pass

(* Every pass that started has an owner name of its own, and one pass at a *)
(* time is about to get one.                                               *)
Named ==
    /\ \A p \in Begun : pc[p] \notin {"idle", "acquire", "record", "prepare"}
    /\ \A p \in Numbered : owner[p] \in Nat /\ owner[p] <= wakes
    /\ \A p, q \in Numbered : owner[p] = owner[q] => p = q
    /\ \A p \in alive : pc[p] \in {"acquire", "record"} => owner[p] = wakes + 1
    /\ \A p, q \in alive :
          pc[p] \in {"acquire", "record"} /\ pc[q] \in {"acquire", "record"} => p = q

(* A lease with the name of a pass that started is that pass's.            *)
Leased ==
    /\ \A p \in alive : pc[p] = "record" => lease = NoLease \/ lease.holder = p
    /\ \A p \in Numbered : Current(p) => lease.holder = p

(* A pass about to record its end has read that there is none.             *)
Closing ==
    /\ \A p \in alive : pc[p] \in {"intent", "append"} => owner[p] \notin Over
    /\ OneEndPerHold

(* What a reaper works on has started; the process it stops is the pass's, *)
(* and the pass is gone when its end is looked for.                        *)
JobOK(r) ==
    /\ rpc[r] # "idle" => job[r].run \in Begun
    /\ rpc[r] \in {"idle", "judge"} => job[r].target = NoLease /\ ~job[r].resumed
    /\ rpc[r] = "takeover" => job[r].resumed
    /\ rpc[r] \in {"create", "write"} =>
          job[r].resumed \/ job[r].target = job[r].run
          \/ (job[r].target = NoLease /\ job[r].run \notin alive)
    /\ rpc[r] = "recheck" => job[r].resumed \/ job[r].target = job[r].run
    /\ rpc[r] \in {"stop", "signal", "wait"} => job[r].target = job[r].run
    /\ rpc[r] \in {"harness", "finish", "append"} => job[r].run \notin alive
    /\ rpc[r] = "append" => owner[job[r].run] \notin Over
    /\ rpc[r] = "settle" => owner[job[r].run] \in Over

Jobs == \A r \in Reaper : JobOK(r)

(* A reaper past the creation of its claim has it, or the hold is closed.  *)
Holding == {"write", "recheck", "stop", "signal", "wait", "harness", "finish", "append"}

Held ==
    /\ \A p \in Pass : claim[p] # NoClaim => p \in Begun
    /\ \A r \in Reaper : rpc[r] \in Holding => Mine(r) \/ owner[job[r].run] \in Over

IInv == Typed /\ Named /\ Leased /\ Closing /\ Jobs /\ Held
--------------------------------------------------------------------------------
(* Rows.                                                                   *)

RowSet == [kind : {"pass-started", "pass-ended"}, owner : Owners, run : Pass,
           by : {"pass", "reaper"}, result : Results]

(* What a row appended to the trace adds.                                  *)
LEMMA Appended ==
  ASSUME trace \in Seq(RowSet), NEW row \in RowSet, Append1(row)
  PROVE  /\ trace' \in Seq(RowSet) /\ Rows' = Rows \cup {row}
         /\ OneEndPerHold /\ (row.kind = "pass-ended" => row.owner \notin Over)
            => OneEndPerHold'
<1>1. /\ trace' \in Seq(RowSet) /\ Len(trace') = Len(trace) + 1 /\ trace'[Len(trace) + 1] = row
      /\ \A k \in 1 .. Len(trace) : trace'[k] = trace[k]
      /\ DOMAIN trace = 1 .. Len(trace) /\ DOMAIN trace' = 1 .. Len(trace')
      /\ Len(trace) \in Nat
  BY DEF Append1
<1>2. Rows' = Rows \cup {row} BY <1>1 DEF Rows
<1>3. ASSUME OneEndPerHold, row.kind = "pass-ended" => row.owner \notin Over
      PROVE  OneEndPerHold'
  <2>1. SUFFICES ASSUME NEW i \in DOMAIN trace', NEW k \in DOMAIN trace',
                        trace'[i].kind = "pass-ended", trace'[k].kind = "pass-ended",
                        trace'[i].owner = trace'[k].owner
                 PROVE  i = k
    BY DEF OneEndPerHold
  <2>2. \A j \in 1 .. Len(trace) : trace[j].kind = "pass-ended" => trace[j].owner \in Over
    BY <1>1 DEF Over, Rows
  <2>3. QED BY <1>1, <1>3, <2>1, <2>2 DEF OneEndPerHold
<1>4. QED BY <1>1, <1>2, <1>3

(* A trace that stays.                                                     *)
LEMMA SameRows ==
  ASSUME trace' = trace
  PROVE  Begun' = Begun /\ Over' = Over /\ (OneEndPerHold => OneEndPerHold')
BY DEF Begun, Over, Started, Rows, OneEndPerHold

(* What is asked of the trace.                                             *)
LEMMA OverIs == \A n : Ended(n) <=> n \in Over
BY DEF Ended, Over

(* The passes whose start the trace has.                                   *)
LEMMA BegunIs == \A p \in Pass : Started(p) <=> p \in Begun
BY DEF Begun

(* A pass that starts (pass.rs record_started).                            *)
LEMMA Starts ==
  ASSUME trace \in Seq(RowSet), NEW p \in Pass, NEW n \in Owners,
         Append1(Row("pass-started", n, p, "pass", Unset))
  PROVE  /\ trace' \in Seq(RowSet) /\ Begun' = Begun \cup {p} /\ Over' = Over
         /\ OneEndPerHold => OneEndPerHold'
<1> DEFINE row == Row("pass-started", n, p, "pass", Unset)
<1>1. row \in RowSet /\ row.kind = "pass-started" /\ row.run = p
  BY DEF Row, RowSet, Unset, Result, Results
<1> HIDE DEF row
<1>2. trace' \in Seq(RowSet) /\ Rows' = Rows \cup {row} /\ (OneEndPerHold => OneEndPerHold')
  BY <1>1, Appended DEF row
<1>3. Begun' = Begun \cup {p} BY <1>1, <1>2 DEF Begun, Started
<1>4. Over' = Over BY <1>1, <1>2 DEF Over
<1>5. QED BY <1>2, <1>3, <1>4

(* A hold that ends, written by its pass or a reaper.                      *)
LEMMA Ends ==
  ASSUME trace \in Seq(RowSet), NEW p \in Pass, NEW n \in Owners, NEW by \in {"pass", "reaper"},
         NEW res \in Results, Append1(Row("pass-ended", n, p, by, res))
  PROVE  /\ trace' \in Seq(RowSet) /\ Begun' = Begun /\ Over' = Over \cup {n}
         /\ OneEndPerHold /\ n \notin Over => OneEndPerHold'
<1> DEFINE row == Row("pass-ended", n, p, by, res)
<1>1. row \in RowSet /\ row.kind = "pass-ended" /\ row.owner = n
  BY DEF Row, RowSet
<1> HIDE DEF row
<1>2. /\ trace' \in Seq(RowSet) /\ Rows' = Rows \cup {row}
      /\ OneEndPerHold /\ n \notin Over => OneEndPerHold'
  BY <1>1, Appended DEF row
<1>3. Begun' = Begun BY <1>1, <1>2 DEF Begun, Started
<1>4. Over' = Over \cup {n} BY <1>1, <1>2 DEF Over
<1>5. QED BY <1>2, <1>3, <1>4

--------------------------------------------------------------------------------
(* The steps of a pass, by what they do to names, lease and rows.          *)

(* The lease stays the same pass's, or goes.                               *)
SameLease == lease' = NoLease \/ (lease # NoLease /\ lease'.owner = lease.owner
                                                 /\ lease'.holder = lease.holder)

(* A pass goes on between the start of its sweep and its release.          *)
Moves(p) ==
    /\ p \in alive /\ pc[p] \in Middle \ {"prepare"}
    /\ UNCHANGED <<wakes, lease, trace, claim, owner, alive>>
    /\ \E label \in (Middle \ {"prepare"}) \cup {"release"} :
          /\ pc' = [pc EXCEPT ![p] = label]
          /\ label = "intent" => ~Ended(owner[p])
          /\ label = "append" => pc[p] = "intent"

(* Nothing moves; a process may be killed, a lease renewed or lapse.       *)
Stays ==
    /\ UNCHANGED <<wakes, trace, claim, owner, pc>>
    /\ alive' \subseteq alive /\ SameLease

(* A pass that goes from one place to another.                             *)
LEMMA GoesTo ==
  ASSUME NEW p \in Pass, NEW from \in Middle \ {"prepare"},
         NEW label \in (Middle \ {"prepare"}) \cup {"release"},
         At(p, from), Goto(p, label), UNCHANGED <<wakes, lease, trace, claim, owner, alive>>,
         label = "intent" => ~Ended(owner[p]), label = "append" => from = "intent"
  PROVE  Moves(p)
BY DEF Moves, At, Goto

(* A step of the passes is one of these.                                   *)
LEMMA Kinds ==
  ASSUME Typed, Watched, Next
  PROVE  \/ Stays
         \/ \E p \in Pass : \/ ReadState(p) \/ Acquire(p) \/ WriteState(p) \/ PrepareSweep(p)
                            \/ AppendEnded(p) \/ Release(p) \/ Moves(p)
<1> USE DEF Typed, ReapTypeOK, TypeOK
<1>1. ASSUME NEW p \in Pass, Renew(p) PROVE Stays
  BY <1>1 DEF Renew, Stays, SameLease, Names, NamesOwner
<1>2. ASSUME NEW p \in Pass, HarnessExits(p) \/ SupervisorStops(p) \/ Signal(p) \/ Kill(p)
      PROVE  Stays
  BY <1>2 DEF HarnessExits, SupervisorStops, Signal, Kill, Stays, SameLease
<1>3. ASSUME Lapse PROVE Stays BY <1>3 DEF Lapse, Stays, SameLease
<1>4. ASSUME NEW p \in Pass, ConfirmAfterSweep(p) \/ ConfirmBeforeSpawn(p) PROVE Moves(p)
  <2>1. /\ p \in alive /\ pc[p] \in {"begun", "ready"}
        /\ Confirm(p, "decide") \/ Confirm(p, "spawn")
    BY <1>4 DEF ConfirmAfterSweep, ConfirmBeforeSpawn, At
  <2>2. /\ UNCHANGED <<wakes, lease, trace, claim, owner, alive>>
        /\ \E label \in {"decide", "spawn", "finish"} : pc' = [pc EXCEPT ![p] = label]
    BY <2>1 DEF Confirm, Goto
  <2>3. QED BY <2>1, <2>2 DEF Moves, Middle, Renewing
<1>5. ASSUME NEW p \in Pass, Decide(p) PROVE Moves(p)
  <2> USE DEF Middle, Renewing
  <2>1. UNCHANGED <<wakes, lease, trace, claim, owner, alive>> BY <1>5 DEF Decide
  <2>2. At(p, "decide") /\ (Goto(p, "ready") \/ Goto(p, "finish"))
    BY <1>5 DEF Decide, TakeSignal
  <2>3. QED BY <2>1, <2>2, GoesTo
<1>6. ASSUME NEW p \in Pass, Spawn(p) \/ NoteHarness(p) \/ StopHarness(p) PROVE Moves(p)
  <2> USE DEF Middle, Renewing
  <2>1. UNCHANGED <<wakes, lease, trace, claim, owner, alive>>
    BY <1>6 DEF Spawn, NoteHarness, StopHarness
  <2>2. CASE Spawn(p)
    <3>1. At(p, "spawn") /\ (Goto(p, "note") \/ Goto(p, "finish")) BY <2>2 DEF Spawn
    <3>2. QED BY <2>1, <3>1, GoesTo
  <2>3. CASE NoteHarness(p)
    <3>1. At(p, "note") /\ Goto(p, "run") BY <2>3 DEF NoteHarness
    <3>2. QED BY <2>1, <3>1, GoesTo
  <2>4. CASE StopHarness(p)
    <3>1. At(p, "stop") /\ Goto(p, "finish") BY <2>4 DEF StopHarness
    <3>2. QED BY <2>1, <3>1, GoesTo
  <2>5. QED BY <1>6, <2>2, <2>3, <2>4
<1>7. ASSUME NEW p \in Pass, WaitForChild(p) PROVE Moves(p)
  <2> USE DEF Middle, Renewing
  <2>1. UNCHANGED <<wakes, lease, trace, claim, owner, alive>> BY <1>7 DEF WaitForChild
  <2>2. At(p, "run") /\ Goto(p, "stop") BY <1>7 DEF WaitForChild, TakeSignal
  <2>3. QED BY <2>1, <2>2, GoesTo
<1>8. ASSUME NEW p \in Pass, FinishCheck(p) \/ ReadIntent(p) PROVE Moves(p)
  <2> USE DEF Middle, Renewing
  <2>1. UNCHANGED <<wakes, lease, trace, claim, owner, alive>>
    BY <1>8 DEF FinishCheck, ReadIntent
  <2>2. CASE FinishCheck(p)
    <3>1. At(p, "finish") BY <2>2 DEF FinishCheck
    <3>2. Goto(p, IF Ended(owner[p]) THEN "release" ELSE "intent") BY <2>2 DEF FinishCheck
    <3>3. CASE Ended(owner[p])
      <4>1. Goto(p, "release") BY <3>2, <3>3 DEF Goto
      <4>2. QED BY <2>1, <3>1, <4>1, GoesTo
    <3>4. CASE ~Ended(owner[p])
      <4>1. Goto(p, "intent") BY <3>2, <3>4 DEF Goto
      <4>2. QED BY <2>1, <3>1, <3>4, <4>1, GoesTo
    <3>5. QED BY <3>3, <3>4
  <2>3. CASE ReadIntent(p)
    <3>1. At(p, "intent") /\ Goto(p, "append") BY <2>3 DEF ReadIntent
    <3>2. QED BY <2>1, <3>1, GoesTo
  <2>4. QED BY <1>8, <2>2, <2>3
<1>9. ASSUME NEW p \in Pass PROVE ~RefuseScope(p) BY DEF RefuseScope, Watched
<1>10. QED
  BY <1>1, <1>2, <1>3, <1>4, <1>5, <1>6, <1>7, <1>8, <1>9 DEF Next, Step

--------------------------------------------------------------------------------
(* Types.                                                                  *)

(* What the tests of a pass write is a result.                             *)
LEMMA ResultTyped ==
  ASSUME NEW outcome \in EarlyEnds \cup HarnessEnds \cup {"completed", "failed", "timed-out"},
         NEW reason \in {"none", "no-effective-repositories", "sweep-failed", "pass-lease-lost",
                         "permission-channel-cleanup", "stalled", "exited-without-terminal"},
         NEW cost \in {"null", "zero", "spent", "ceiling"}
  PROVE  Result(outcome, reason, cost) \in Results
BY DEF Result, Results

(* What a result is made of.                                               *)
LEMMA ResultParts ==
  ASSUME NEW res \in Results
  PROVE  /\ res.outcome \in EarlyEnds \cup HarnessEnds \cup {"completed", "failed", "timed-out"}
         /\ res.reason \in {"none", "no-effective-repositories", "sweep-failed",
                            "pass-lease-lost", "permission-channel-cleanup", "stalled",
                            "exited-without-terminal"}
         /\ res.cost \in {"null", "zero", "spent", "ceiling"}
BY DEF Results

(* A result that a pass sets keeps the results typed.                      *)
LEMMA Sets ==
  ASSUME result \in [Pass -> Results], NEW p \in Pass, NEW res \in Results,
         result' = [result EXCEPT ![p] = res]
  PROVE  result' \in [Pass -> Results]
OBVIOUS

(* The types of what every step of a pass may change.                      *)
Plain ==
    /\ wakes \in Nat
    /\ lease \in [owner : Nat, holder : Pass, lapsed : BOOLEAN] \cup {NoLease}
    /\ pc \in [Pass -> Label] /\ owner \in [Pass -> Owners]
    /\ {lost, armed, told, alive, harness, recorded} \subseteq SUBSET Pass
    /\ \A p \in Pass : pc[p] \in {"acquire", "record"} => owner[p] \in Nat

(* The type invariant, in the parts that steps change.                     *)
LEMMA TypeParts ==
  Typed <=> /\ Plain /\ trace \in Seq(RowSet) /\ result \in [Pass -> Results]
            /\ claim \in [Pass -> Claims \cup {NoClaim}]
            /\ {quiet, warned} \subseteq SUBSET Pass /\ kills \in 0 .. MaxKills
            /\ rpc \in [Reaper -> RLabel] /\ job \in [Reaper -> JobSet]
            /\ \A r \in Reaper : /\ rpc[r] # "idle" => job[r].run \in Pass
                                 /\ rpc[r] = "signal" => job[r].target \in Pass
BY DEF Typed, ReapTypeOK, TypeOK, Plain, RowSet

(* A step of a pass keeps places, names, lease and processes typed.        *)
LEMMA PlainStep ==
  ASSUME Plain, Next
  PROVE  Plain'
<1> USE DEF Plain, Label, Renewing, Owners, At, Goto, Exit
<1>1. ASSUME NEW p \in Pass, ReadState(p) PROVE Plain'
  BY <1>1 DEF ReadState
<1>2. ASSUME NEW p \in Pass, Acquire(p) PROVE Plain'
  <2>1. owner[p] \in Nat BY <1>2 DEF Acquire
  <2> DEFINE new == [owner |-> owner[p], holder |-> p, lapsed |-> FALSE]
  <2>2. new \in [owner : Nat, holder : Pass, lapsed : BOOLEAN] BY <2>1
  <2>3. lease' \in {lease, new} BY <1>2 DEF Acquire
  <2> HIDE DEF new
  <2>4. lease' \in [owner : Nat, holder : Pass, lapsed : BOOLEAN] \cup {NoLease}
    BY <2>2, <2>3
  <2>5. UNCHANGED <<wakes, owner, lost, told, harness, recorded>> BY <1>2 DEF Acquire
  <2>6. /\ pc' \in {[pc EXCEPT ![p] = "record"], [pc EXCEPT ![p] = "gone"]}
        /\ armed' \subseteq Pass /\ alive' \subseteq Pass
    BY <1>2 DEF Acquire
  <2>7. QED BY <2>1, <2>4, <2>5, <2>6
<1>3. ASSUME NEW p \in Pass, WriteState(p) PROVE Plain'
  BY <1>3 DEF WriteState
<1>4. ASSUME NEW p \in Pass, PrepareSweep(p) PROVE Plain'
  BY <1>4 DEF PrepareSweep
<1>5. ASSUME NEW p \in Pass, Decide(p) PROVE Plain'
  BY <1>5 DEF Decide, TakeSignal
<1>6. ASSUME NEW p \in Pass, Spawn(p) PROVE Plain'
  BY <1>6 DEF Spawn
<1>7. ASSUME NEW p \in Pass, NoteHarness(p) PROVE Plain'
  BY <1>7 DEF NoteHarness
<1>8. ASSUME NEW p \in Pass, WaitForChild(p) PROVE Plain'
  BY <1>8 DEF WaitForChild, TakeSignal
<1>9. ASSUME NEW p \in Pass, StopHarness(p) PROVE Plain'
  BY <1>9 DEF StopHarness
<1>10. ASSUME NEW p \in Pass, FinishCheck(p) PROVE Plain'
  BY <1>10 DEF FinishCheck
<1>11. ASSUME NEW p \in Pass, ReadIntent(p) PROVE Plain'
  BY <1>11 DEF ReadIntent
<1>12. ASSUME NEW p \in Pass, AppendEnded(p) PROVE Plain'
  BY <1>12 DEF AppendEnded
<1>13. ASSUME NEW p \in Pass, Release(p) PROVE Plain'
  BY <1>13 DEF Release
<1>14. ASSUME NEW p \in Pass, RefuseScope(p) PROVE Plain'
  BY <1>14 DEF RefuseScope
<1>15. ASSUME NEW p \in Pass, ConfirmAfterSweep(p) \/ ConfirmBeforeSpawn(p) PROVE Plain'
  <2>1. Confirm(p, "decide") \/ Confirm(p, "spawn")
    BY <1>15 DEF ConfirmAfterSweep, ConfirmBeforeSpawn
  <2>2. /\ UNCHANGED <<wakes, lease, owner, lost, told, alive, harness, recorded>>
        /\ \E label \in {"decide", "spawn", "finish"} : pc' = [pc EXCEPT ![p] = label]
        /\ armed' \in {armed, armed \ {p}}
    BY <2>1 DEF Confirm
  <2>3. QED BY <2>2
<1>16. ASSUME NEW p \in Pass, Renew(p) PROVE Plain'
  <2>1. /\ UNCHANGED <<wakes, pc, owner, armed, told, alive, harness, recorded>>
        /\ lost' \subseteq Pass
    BY <1>16 DEF Renew
  <2>2. lease' \in [owner : Nat, holder : Pass, lapsed : BOOLEAN] \cup {NoLease}
    BY <1>16 DEF Renew, Names, NamesOwner
  <2>3. QED BY <2>1, <2>2
<1>17. ASSUME NEW p \in Pass, HarnessExits(p) \/ SupervisorStops(p) \/ Signal(p) \/ Kill(p)
      PROVE  Plain'
  BY <1>17 DEF HarnessExits, SupervisorStops, Signal, Kill
<1>18. ASSUME Lapse PROVE Plain' BY <1>18 DEF Lapse
<1>19. QED
  BY <1>1, <1>2, <1>3, <1>4, <1>5, <1>6, <1>7, <1>8, <1>9, <1>10,
     <1>11, <1>12, <1>13, <1>14, <1>15, <1>16, <1>17, <1>18
  DEF Next, Step

(* A step of a pass keeps its results typed.                               *)
LEMMA ResultStep ==
  ASSUME Typed, Next
  PROVE  result' \in [Pass -> Results]
<1> result \in [Pass -> Results] /\ claim \in [Pass -> Claims \cup {NoClaim}] BY TypeParts
<1> \A p \in Pass : result[p] \in Results OBVIOUS
<1> USE PassAssumption
<1>1. ASSUME NEW p \in Pass, NEW res \in Results,
             result' \in {result, [result EXCEPT ![p] = res]}
      PROVE  result' \in [Pass -> Results]
  BY <1>1
<1>2. ASSUME NEW p \in Pass, RefuseScope(p) \/ PrepareSweep(p) PROVE result' \in [Pass -> Results]
  BY <1>1, <1>2, ResultTyped DEF RefuseScope, PrepareSweep
<1>3. ASSUME NEW p \in Pass, ConfirmAfterSweep(p) \/ ConfirmBeforeSpawn(p)
      PROVE  result' \in [Pass -> Results]
  <2>1. Confirm(p, "decide") \/ Confirm(p, "spawn")
    BY <1>3 DEF ConfirmAfterSweep, ConfirmBeforeSpawn
  <2>2. result' \in {result, [result EXCEPT ![p] = Result("failed", "pass-lease-lost", "zero")]}
    BY <2>1 DEF Confirm
  <2>3. QED BY <1>1, <2>2, ResultTyped
<1>4. ASSUME NEW p \in Pass, result' = [result EXCEPT ![p] = Result("timed-out", @.reason, @.cost)]
      PROVE  result' \in [Pass -> Results]
  <2>1. Result("timed-out", result[p].reason, result[p].cost) \in Results
    BY ResultParts, ResultTyped
  <2>2. QED BY <1>1, <1>4, <2>1
<1>5. ASSUME NEW p \in Pass, Decide(p) PROVE result' \in [Pass -> Results]
  <2>1. CASE \E outcome \in EarlyEnds : result' = [result EXCEPT ![p] = Result(outcome, "none",
                    IF outcome \in {"no-candidates", "no-op", "unstarted"} THEN "zero" ELSE "null")]
    <3>1. PICK outcome \in EarlyEnds : result' = [result EXCEPT ![p] = Result(outcome, "none",
                    IF outcome \in {"no-candidates", "no-op", "unstarted"} THEN "zero" ELSE "null")]
      BY <2>1
    <3>2. Result(outcome, "none",
                 IF outcome \in {"no-candidates", "no-op", "unstarted"} THEN "zero" ELSE "null")
             \in Results
      BY ResultTyped
    <3>3. QED BY <1>1, <3>1, <3>2
  <2>2. CASE UNCHANGED result BY <2>2
  <2>3. QED BY <1>4, <1>5, <2>1, <2>2 DEF Decide, TakeSignal
<1>6. ASSUME NEW p \in Pass, WaitForChild(p) PROVE result' \in [Pass -> Results]
  <2>1. CASE \E outcome \in HarnessEnds :
                result' = [result EXCEPT ![p] = Result(outcome, "none", "spent")]
    <3>1. PICK outcome \in HarnessEnds :
                result' = [result EXCEPT ![p] = Result(outcome, "none", "spent")]
      BY <2>1
    <3>2. Result(outcome, "none", "spent") \in Results BY ResultTyped
    <3>3. QED BY <1>1, <3>1, <3>2
  <2>2. CASE result' = [result EXCEPT ![p] = Result("failed", "pass-lease-lost", @.cost)]
    <3>1. Result("failed", "pass-lease-lost", result[p].cost) \in Results
      BY ResultParts, ResultTyped
    <3>2. QED BY <1>1, <2>2, <3>1
  <2>3. QED BY <1>4, <1>6, <2>1, <2>2 DEF WaitForChild, TakeSignal
<1>7. ASSUME NEW p \in Pass, FinishCheck(p) PROVE result' \in [Pass -> Results]
  <2>1. Result("failed", "permission-channel-cleanup", result[p].cost) \in Results
    BY ResultParts, ResultTyped
  <2>2. QED BY <1>1, <1>7, <2>1 DEF FinishCheck
<1>8. ASSUME NEW p \in Pass, ReadIntent(p) PROVE result' \in [Pass -> Results]
  <2>1. CASE Intent(p)
    <3>1. claim[p].reason \in {"none", "stalled", "exited-without-terminal"}
      BY <2>1 DEF Intent, Claims
    <3>2. Result("failed", claim[p].reason, "ceiling") \in Results BY <3>1, ResultTyped
    <3>3. QED BY <1>1, <1>8, <3>2 DEF ReadIntent
  <2>2. CASE ~Intent(p) BY <1>8, <2>2 DEF ReadIntent
  <2>3. QED BY <2>1, <2>2
<1>9. ASSUME NEW p \in Pass,
             \/ ReadState(p) \/ Acquire(p) \/ WriteState(p) \/ Spawn(p) \/ NoteHarness(p)
             \/ StopHarness(p) \/ AppendEnded(p) \/ Release(p) \/ Renew(p) \/ HarnessExits(p)
             \/ SupervisorStops(p) \/ Signal(p) \/ Kill(p) \/ Lapse
      PROVE  result' = result
  BY <1>9 DEF ReadState, Acquire, WriteState, Spawn, NoteHarness, StopHarness, AppendEnded,
              Release, Renew, HarnessExits, SupervisorStops, Signal, Kill, Lapse
<1>10. ASSUME Lapse PROVE result' = result BY <1>10 DEF Lapse
<1>11. QED
  BY <1>2, <1>3, <1>5, <1>6, <1>7, <1>8, <1>9, <1>10 DEF Next, Step

(* A step of a pass appends rows.                                          *)
LEMMA TraceStep ==
  ASSUME Typed, Next
  PROVE  trace' \in Seq(RowSet)
<1> /\ trace \in Seq(RowSet) /\ result \in [Pass -> Results] /\ Plain
    /\ \A p \in Pass : owner[p] \in Owners
  BY TypeParts DEF Plain
<1>1. ASSUME NEW p \in Pass, RefuseScope(p) PROVE trace' \in Seq(RowSet)
  <2>1. p \in Owners BY DEF Owners
  <2>2. QED BY <1>1, <2>1, Starts DEF RefuseScope
<1>2. ASSUME NEW p \in Pass, PrepareSweep(p) PROVE trace' \in Seq(RowSet)
  BY <1>2, Starts DEF PrepareSweep
<1>3. ASSUME NEW p \in Pass, AppendEnded(p) PROVE trace' \in Seq(RowSet)
  BY <1>3, Ends DEF AppendEnded
<1>4. ASSUME NEW p \in Pass,
             \/ ReadState(p) \/ Acquire(p) \/ WriteState(p) \/ Spawn(p) \/ NoteHarness(p)
             \/ StopHarness(p) \/ Release(p) \/ Renew(p) \/ HarnessExits(p) \/ Decide(p)
             \/ SupervisorStops(p) \/ Signal(p) \/ Kill(p) \/ WaitForChild(p) \/ FinishCheck(p)
             \/ ReadIntent(p)
      PROVE  trace' = trace
  BY <1>4 DEF ReadState, Acquire, WriteState, Spawn, NoteHarness, StopHarness, Release, Renew,
              HarnessExits, Decide, SupervisorStops, Signal, Kill, WaitForChild, FinishCheck,
              ReadIntent
<1>5. ASSUME NEW p \in Pass, ConfirmAfterSweep(p) \/ ConfirmBeforeSpawn(p) PROVE trace' = trace
  BY <1>5 DEF ConfirmAfterSweep, ConfirmBeforeSpawn, Confirm
<1>6. ASSUME Lapse PROVE trace' = trace BY <1>6 DEF Lapse
<1>7. QED BY <1>1, <1>2, <1>3, <1>4, <1>5, <1>6 DEF Next, Step

(* A step of a pass leaves the claims alone.                               *)
LEMMA ClaimStays ==
  ASSUME Next
  PROVE  claim' = claim
BY DEF Next, Step, RefuseScope, ReadState, Acquire, WriteState, PrepareSweep, ConfirmAfterSweep,
       ConfirmBeforeSpawn, Confirm, Decide, Spawn, NoteHarness, WaitForChild, StopHarness,
       FinishCheck, ReadIntent, AppendEnded, Release, Renew, HarnessExits, SupervisorStops,
       Signal, Kill, Lapse

(* A step of a pass keeps every type.                                      *)
LEMMA PassTyped ==
  ASSUME Typed, Next, UNCHANGED reapVars
  PROVE  Typed'
<1>1. Plain /\ Plain' BY TypeParts, PlainStep
<1>2. UNCHANGED <<rpc, job, quiet, warned, kills>> BY DEF reapVars
<1>3. /\ result' \in [Pass -> Results] /\ trace' \in Seq(RowSet) /\ claim' = claim
  BY ResultStep, TraceStep, ClaimStays
<1> HIDE DEF Plain
<1>4. ReapTypeOK' BY <1>1, <1>2, <1>3, TypeParts DEF ReapTypeOK, TypeOK, RowSet, Plain
<1>5. QED BY <1>1, <1>2, <1>4 DEF Typed, Plain

--------------------------------------------------------------------------------
(* Steps of the passes.                                                    *)

(* What a pass that started, or a wake count that was written, is.         *)
LEMMA SameNumbered ==
  ASSUME Begun' = Begun, UNCHANGED <<pc, owner>>
  PROVE  Numbered' = Numbered
BY DEF Numbered

(* A pass that moves keeps its name or, with nothing written, drops it.    *)
LEMMA FewerNumbered ==
  ASSUME Typed, NEW p \in Pass, Begun' = Begun \/ (Begun' = Begun \cup {p} /\ pc[p] \in Middle),
         NEW label, pc' = [pc EXCEPT ![p] = label], label \in Middle => p \in Numbered
  PROVE  Numbered' \subseteq Numbered
BY TypeParts DEF Plain, Numbered

(* Passes start apart, under a wake count of their own (pass.rs run_pass). *)
LEMMA NamedStep ==
  ASSUME Typed, Watched, Named, Next
  PROVE  Named'
<1> USE DEF At, Goto, Exit
<1> /\ trace \in Seq(RowSet) /\ result \in [Pass -> Results] /\ wakes \in Nat
    /\ pc \in [Pass -> Label] /\ owner \in [Pass -> Owners] /\ alive \subseteq Pass
    /\ Begun \subseteq Pass /\ Numbered \subseteq Pass
  BY TypeParts DEF Plain, Begun, Numbered
<1>1. CASE Stays
  BY <1>1, SameRows, SameNumbered DEF Stays, Named
<1>2. ASSUME NEW p \in Pass, ReadState(p) PROVE Named'
  <2>1. Begun' = Begun BY <1>2, SameRows DEF ReadState
  <2>2. /\ pc[p] = "idle" /\ p \notin Begun /\ pc' = [pc EXCEPT ![p] = "acquire"]
        /\ owner' = [owner EXCEPT ![p] = wakes + 1] /\ wakes' = wakes /\ alive' = alive
        /\ \A q \in alive : pc[q] \notin {"acquire", "record"}
    BY <1>2 DEF ReadState, Named, Watched
  <2>3. Numbered' = Numbered /\ p \notin Numbered
    BY <2>1, <2>2 DEF Numbered, Middle, Renewing
  <2>4. QED BY <2>1, <2>2, <2>3 DEF Named
<1>3. ASSUME NEW p \in Pass, Acquire(p) PROVE Named'
  <2>1. Begun' = Begun BY <1>3, SameRows DEF Acquire
  <2>2. PICK label \in {"record", "gone"} : pc' = [pc EXCEPT ![p] = label]
    BY <1>3 DEF Acquire
  <2>3. Numbered' \subseteq Numbered BY <2>1, <2>2, FewerNumbered DEF Middle, Renewing
  <2>4. pc[p] = "acquire" /\ UNCHANGED <<wakes, owner>> /\ alive' \subseteq alive /\ p \in alive
    BY <1>3 DEF Acquire
  <2>5. QED BY <2>1, <2>2, <2>3, <2>4 DEF Named
<1>4. ASSUME NEW p \in Pass, WriteState(p) PROVE Named'
  <2>1. Begun' = Begun BY <1>4, SameRows DEF WriteState
  <2>2. /\ pc[p] = "record" /\ p \in alive /\ owner[p] = wakes + 1 /\ UNCHANGED <<owner, alive>>
    BY <1>4 DEF WriteState, Named
  <2>3. CASE wakes' = owner[p] /\ pc' = [pc EXCEPT ![p] = "prepare"]
    <3>1. Numbered' = Numbered \cup {p}
      BY <2>1, <2>3 DEF Numbered, Middle, Renewing
    <3>2. \A q \in alive : pc'[q] \notin {"acquire", "record"}
      BY <2>2, <2>3 DEF Named
    <3>3. \A q \in Numbered : owner[q] \in Nat /\ owner[q] <= wakes BY DEF Named
    <3>4. QED BY <2>1, <2>2, <2>3, <3>1, <3>2, <3>3 DEF Named
  <2>4. CASE pc' = [pc EXCEPT ![p] = "release"] /\ wakes' = wakes
    <3>1. Numbered' \subseteq Numbered BY <2>1, <2>4, FewerNumbered DEF Middle, Renewing
    <3>2. QED BY <2>1, <2>2, <2>4, <3>1 DEF Named
  <2>5. QED BY <1>4, <2>3, <2>4 DEF WriteState
<1>5. ASSUME NEW p \in Pass, PrepareSweep(p) PROVE Named'
  <2>1. /\ pc[p] = "prepare" /\ p \in Numbered /\ p \in alive
        /\ UNCHANGED <<wakes, owner, alive>>
    BY <1>5 DEF PrepareSweep, Numbered, Middle, Renewing
  <2>2. CASE Append1(Row("pass-started", owner[p], p, "pass", Unset))
    <3>1. Begun' = Begun \cup {p} BY <2>2, Starts
    <3>2. PICK label \in {"begun", "finish"} : pc' = [pc EXCEPT ![p] = label]
      BY <1>5, <2>2 DEF PrepareSweep
    <3>3. Numbered' \subseteq Numbered
      BY <2>1, <3>1, <3>2, FewerNumbered DEF Middle, Renewing
    <3>4. QED BY <2>1, <3>1, <3>2, <3>3 DEF Named
  <2>3. CASE trace' = trace /\ pc' = [pc EXCEPT ![p] = "release"]
    <3>1. Begun' = Begun BY <2>3, SameRows
    <3>2. Numbered' \subseteq Numbered BY <2>3, <3>1, FewerNumbered DEF Middle, Renewing
    <3>3. QED BY <2>1, <2>3, <3>1, <3>2 DEF Named
  <2>4. QED BY <1>5, <2>2, <2>3 DEF PrepareSweep
<1>6. ASSUME NEW p \in Pass, AppendEnded(p) PROVE Named'
  <2>1. Begun' = Begun
    BY <1>6, SameRows, Ends DEF AppendEnded
  <2>2. pc[p] = "append" /\ pc' = [pc EXCEPT ![p] = "release"] /\ UNCHANGED <<wakes, owner, alive>>
    BY <1>6 DEF AppendEnded
  <2>3. Numbered' \subseteq Numbered BY <2>1, <2>2, FewerNumbered DEF Middle, Renewing
  <2>4. QED BY <2>1, <2>2, <2>3 DEF Named
<1>7. ASSUME NEW p \in Pass, Release(p) PROVE Named'
  <2>1. Begun' = Begun BY <1>7, SameRows DEF Release
  <2>2. /\ pc[p] = "release" /\ pc' = [pc EXCEPT ![p] = "gone"] /\ UNCHANGED <<wakes, owner>>
        /\ alive' \subseteq alive
    BY <1>7 DEF Release
  <2>3. Numbered' \subseteq Numbered BY <2>1, <2>2, FewerNumbered DEF Middle, Renewing
  <2>4. QED BY <2>1, <2>2, <2>3 DEF Named
<1>8. ASSUME NEW p \in Pass, Moves(p) PROVE Named'
  <2>1. Begun' = Begun BY <1>8, SameRows DEF Moves
  <2>2. PICK label \in (Middle \ {"prepare"}) \cup {"release"} : pc' = [pc EXCEPT ![p] = label]
    BY <1>8 DEF Moves
  <2>3. pc[p] \in Middle /\ p \in Numbered /\ UNCHANGED <<wakes, owner, alive>>
    BY <1>8 DEF Moves, Numbered
  <2>4. Numbered' \subseteq Numbered BY <2>1, <2>2, <2>3, FewerNumbered
  <2>5. QED BY <2>1, <2>2, <2>3, <2>4 DEF Named, Middle, Renewing
<1>9. QED BY <1>1, <1>2, <1>3, <1>4, <1>5, <1>6, <1>7, <1>8, Kinds

(* What a step of a pass does to the processes, names and rows that a      *)
(* reaper goes by: a row is of a pass at its append, and a name that is    *)
(* written stays.                                                          *)
LEMMA PassFrame ==
  ASSUME Typed, Watched, Named, Next
  PROVE  /\ alive' \subseteq alive /\ Begun \subseteq Begun' /\ Over \subseteq Over'
         /\ \A p \in Begun : owner'[p] = owner[p]
         /\ \A n \in Over' \ Over : \E p \in alive : pc[p] = "append" /\ owner[p] = n
         /\ \A p \in Begun' : p \in Begun \/ pc[p] = "prepare"
<1> USE DEF At, Goto, Exit
<1> /\ trace \in Seq(RowSet) /\ result \in [Pass -> Results]
    /\ owner \in [Pass -> Owners] /\ alive \subseteq Pass /\ Begun \subseteq Pass
  BY TypeParts DEF Plain, Begun
<1>1. CASE Stays BY <1>1, SameRows DEF Stays
<1>2. ASSUME NEW p \in Pass, ReadState(p) PROVE p \notin Begun /\ alive' = alive /\ trace' = trace
                                             /\ owner' = [owner EXCEPT ![p] = wakes + 1]
  BY <1>2 DEF ReadState, Named
<1>3. ASSUME NEW p \in Pass, Acquire(p) \/ WriteState(p) \/ Release(p)
      PROVE  alive' \subseteq alive /\ UNCHANGED <<trace, owner>>
  BY <1>3 DEF Acquire, WriteState, Release
<1>4. ASSUME NEW p \in Pass, PrepareSweep(p)
      PROVE  /\ pc[p] = "prepare" /\ UNCHANGED <<alive, owner>> /\ Over' = Over
             /\ Begun' = Begun \/ Begun' = Begun \cup {p}
  BY <1>4, SameRows, Starts DEF PrepareSweep
<1>5. ASSUME NEW p \in Pass, AppendEnded(p)
      PROVE  /\ p \in alive /\ pc[p] = "append" /\ UNCHANGED <<alive, owner>> /\ Begun' = Begun
             /\ Over' = Over \/ Over' = Over \cup {owner[p]}
  BY <1>5, SameRows, Ends DEF AppendEnded
<1>6. ASSUME NEW p \in Pass, Moves(p) PROVE UNCHANGED <<alive, owner, trace>>
  BY <1>6 DEF Moves
<1>7. CASE \E p \in Pass : ReadState(p) BY <1>2, <1>7, SameRows
<1>8. CASE \E p \in Pass : Acquire(p) \/ WriteState(p) \/ Release(p) BY <1>3, <1>8, SameRows
<1>9. CASE \E p \in Pass : PrepareSweep(p) BY <1>4, <1>9
<1>10. CASE \E p \in Pass : AppendEnded(p) BY <1>5, <1>10
<1>11. CASE \E p \in Pass : Moves(p) BY <1>6, <1>11, SameRows
<1>12. QED BY <1>1, <1>7, <1>8, <1>9, <1>10, <1>11, Kinds

(* The lease of a pass that started stays its own, or goes: whoever takes  *)
(* it takes it under a wake count of its own.                              *)
LEMMA LeasedStep ==
  ASSUME Typed, Watched, Named, Leased, Next
  PROVE  Leased'
<1> USE DEF At, Goto, Exit, Current
<1> /\ trace \in Seq(RowSet) /\ result \in [Pass -> Results] /\ wakes \in Nat
    /\ pc \in [Pass -> Label] /\ owner \in [Pass -> Owners] /\ alive \subseteq Pass
    /\ Begun \subseteq Pass /\ Numbered \subseteq Pass
  BY TypeParts DEF Plain, Begun, Numbered
<1>1. CASE Stays
  BY <1>1, SameRows, SameNumbered DEF Stays, SameLease, Leased
<1>2. ASSUME NEW p \in Pass, ReadState(p) PROVE Leased'
  <2>1. Begun' = Begun BY <1>2, SameRows DEF ReadState
  <2>2. /\ pc[p] = "idle" /\ p \notin Begun /\ pc' = [pc EXCEPT ![p] = "acquire"]
        /\ owner' = [owner EXCEPT ![p] = wakes + 1] /\ UNCHANGED <<lease, alive>>
    BY <1>2 DEF ReadState, Named
  <2>3. Numbered' = Numbered /\ p \notin Numbered
    BY <2>1, <2>2 DEF Numbered, Middle, Renewing
  <2>4. QED BY <2>2, <2>3 DEF Leased
<1>3. ASSUME NEW p \in Pass, Acquire(p) PROVE Leased'
  <2>1. Begun' = Begun BY <1>3, SameRows DEF Acquire
  <2>2. PICK label \in {"record", "gone"} : pc' = [pc EXCEPT ![p] = label]
    BY <1>3 DEF Acquire
  <2>3. Numbered' \subseteq Numbered BY <2>1, <2>2, FewerNumbered DEF Middle, Renewing
  <2>4. /\ pc[p] = "acquire" /\ UNCHANGED owner /\ alive' \subseteq alive /\ p \in alive
        /\ owner[p] = wakes + 1
    BY <1>3 DEF Acquire, Named
  <2>5. CASE lease' = lease /\ label = "gone" BY <2>2, <2>3, <2>4, <2>5 DEF Leased
  <2>6. CASE lease'.owner = owner[p] /\ lease'.holder = p
    <3>1. \A q \in Numbered : owner[q] # owner[p] BY <2>4 DEF Named
    <3>2. \A q \in alive : pc[q] # "record" BY <2>4 DEF Named
    <3>3. QED BY <2>2, <2>3, <2>4, <2>6, <3>1, <3>2 DEF Leased
  <2>7. QED BY <1>3, <2>2, <2>5, <2>6 DEF Acquire
<1>4. ASSUME NEW p \in Pass, WriteState(p) PROVE Leased'
  <2>1. Begun' = Begun BY <1>4, SameRows DEF WriteState
  <2>2. /\ pc[p] = "record" /\ p \in alive /\ UNCHANGED <<owner, alive, lease>>
        /\ lease = NoLease \/ lease.holder = p
    BY <1>4 DEF WriteState, Leased
  <2>3. PICK label \in {"prepare", "release"} : pc' = [pc EXCEPT ![p] = label]
    BY <1>4 DEF WriteState
  <2>4. Numbered' \subseteq Numbered \cup {p} BY <2>1, <2>3 DEF Numbered
  <2>5. QED BY <2>2, <2>3, <2>4 DEF Leased
<1>5. ASSUME NEW p \in Pass, PrepareSweep(p) PROVE Leased'
  <2>1. /\ pc[p] = "prepare" /\ p \in Numbered /\ UNCHANGED <<lease, owner, alive>>
    BY <1>5 DEF PrepareSweep, Numbered, Middle, Renewing
  <2>2. Begun' = Begun \/ Begun' = Begun \cup {p} BY <1>5, SameRows, Starts DEF PrepareSweep
  <2>3. PICK label \in {"begun", "finish", "release"} : pc' = [pc EXCEPT ![p] = label]
    BY <1>5 DEF PrepareSweep
  <2>4. Numbered' \subseteq Numbered
    BY <2>1, <2>2, <2>3, FewerNumbered DEF Middle, Renewing
  <2>5. QED BY <2>1, <2>3, <2>4 DEF Leased
<1>6. ASSUME NEW p \in Pass, AppendEnded(p) PROVE Leased'
  <2>1. Begun' = Begun BY <1>6, SameRows, Ends DEF AppendEnded
  <2>2. pc' = [pc EXCEPT ![p] = "release"] /\ UNCHANGED <<owner, alive, lease>>
    BY <1>6 DEF AppendEnded
  <2>3. Numbered' \subseteq Numbered BY <2>1, <2>2, FewerNumbered DEF Middle, Renewing
  <2>4. QED BY <2>2, <2>3 DEF Leased
<1>7. ASSUME NEW p \in Pass, Release(p) PROVE Leased'
  <2>1. Begun' = Begun BY <1>7, SameRows DEF Release
  <2>2. /\ pc' = [pc EXCEPT ![p] = "gone"] /\ UNCHANGED owner /\ alive' \subseteq alive
        /\ lease' \in {lease, NoLease}
    BY <1>7 DEF Release
  <2>3. Numbered' \subseteq Numbered BY <2>1, <2>2, FewerNumbered DEF Middle, Renewing
  <2>4. QED BY <2>2, <2>3 DEF Leased
<1>8. ASSUME NEW p \in Pass, Moves(p) PROVE Leased'
  <2>1. Begun' = Begun BY <1>8, SameRows DEF Moves
  <2>2. PICK label \in (Middle \ {"prepare"}) \cup {"release"} : pc' = [pc EXCEPT ![p] = label]
    BY <1>8 DEF Moves
  <2>3. pc[p] \in Middle /\ p \in Numbered /\ UNCHANGED <<lease, owner, alive>>
    BY <1>8 DEF Moves, Numbered
  <2>4. Numbered' \subseteq Numbered BY <2>1, <2>2, <2>3, FewerNumbered
  <2>5. QED BY <2>2, <2>3, <2>4 DEF Leased, Middle, Renewing
<1>9. QED BY <1>1, <1>2, <1>3, <1>4, <1>5, <1>6, <1>7, <1>8, Kinds

(* A pass writes its end once, and has read before that there is none      *)
(* (pass.rs:608-610).                                                      *)
LEMMA ClosingStep ==
  ASSUME Typed, Watched, Named, Closing, Next
  PROVE  Closing'
<1> USE DEF At, Goto, Exit
<1> /\ trace \in Seq(RowSet) /\ result \in [Pass -> Results]
    /\ pc \in [Pass -> Label] /\ owner \in [Pass -> Owners] /\ alive \subseteq Pass
  BY TypeParts DEF Plain
<1>1. CASE Stays
  BY <1>1, SameRows DEF Stays, Closing
<1>2. ASSUME NEW p \in Pass, \/ ReadState(p) \/ Acquire(p) \/ WriteState(p) \/ Release(p)
      PROVE  Closing'
  <2>1. Over' = Over /\ OneEndPerHold'
    BY <1>2, SameRows DEF ReadState, Acquire, WriteState, Release, Closing
  <2>2. PICK label \in {"acquire", "record", "gone", "prepare", "release"} :
           pc' = [pc EXCEPT ![p] = label]
    BY <1>2 DEF ReadState, Acquire, WriteState, Release
  <2>3. alive' \subseteq alive /\ \A q \in Pass \ {p} : owner'[q] = owner[q]
    BY <1>2 DEF ReadState, Acquire, WriteState, Release
  <2>4. QED BY <2>1, <2>2, <2>3 DEF Closing
<1>3. ASSUME NEW p \in Pass, PrepareSweep(p) PROVE Closing'
  <2>1. Over' = Over /\ OneEndPerHold' BY <1>3, SameRows, Starts DEF PrepareSweep, Closing
  <2>2. UNCHANGED <<owner, alive>> BY <1>3 DEF PrepareSweep
  <2>3. PICK label \in {"begun", "finish", "release"} : pc' = [pc EXCEPT ![p] = label]
    BY <1>3 DEF PrepareSweep
  <2>4. QED BY <2>1, <2>2, <2>3 DEF Closing
<1>4. ASSUME NEW p \in Pass, AppendEnded(p) PROVE Closing'
  <2>1. /\ pc[p] = "append" /\ p \in alive /\ pc' = [pc EXCEPT ![p] = "release"]
        /\ UNCHANGED <<owner, alive>> /\ owner[p] \notin Over
    BY <1>4 DEF AppendEnded, Closing
  <2>2. OneEndPerHold' /\ Over' \subseteq Over \cup {owner[p]}
    BY <1>4, <2>1, SameRows, Ends DEF AppendEnded, Closing
  <2>3. \A q \in alive : pc[q] \in {"intent", "append"} /\ q # p => owner[q] # owner[p]
    BY <2>1 DEF Named, Numbered, Middle
  <2>4. QED BY <2>1, <2>2, <2>3 DEF Closing
<1>5. ASSUME NEW p \in Pass, Moves(p) PROVE Closing'
  <2>1. Over' = Over /\ OneEndPerHold' BY <1>5, SameRows DEF Moves, Closing
  <2>2. UNCHANGED <<owner, alive>> /\ p \in alive BY <1>5 DEF Moves
  <2>3. PICK label \in (Middle \ {"prepare"}) \cup {"release"} :
           /\ pc' = [pc EXCEPT ![p] = label]
           /\ label = "intent" => owner[p] \notin Over
           /\ label = "append" => pc[p] = "intent"
    BY <1>5, OverIs DEF Moves
  <2>4. QED BY <2>1, <2>2, <2>3 DEF Closing
<1>6. QED BY <1>1, <1>2, <1>3, <1>4, <1>5, Kinds

(* Nothing a pass does disturbs what the reapers are at: the pass of a     *)
(* reaper about to write is gone, and no other pass has its name.          *)
LEMMA ReapersStay ==
  ASSUME Typed, Watched, Named, Jobs, Held, Next, UNCHANGED reapVars
  PROVE  Jobs' /\ Held'
<1> alive \subseteq Pass /\ Begun \subseteq Pass BY TypeParts DEF Plain, Begun
<1>1. UNCHANGED <<rpc, job, claim>> BY ClaimStays DEF reapVars
<1>2. /\ alive' \subseteq alive /\ Begun \subseteq Begun' /\ Over \subseteq Over'
      /\ \A p \in Begun : owner'[p] = owner[p]
      /\ \A n \in Over' \ Over : \E p \in alive : pc[p] = "append" /\ owner[p] = n
  BY PassFrame
<1>3. \A r \in Reaper :
         rpc[r] # "idle" => job[r].run \in Begun /\ owner'[job[r].run] = owner[job[r].run]
  BY <1>2 DEF Jobs, JobOK
<1>4. ASSUME NEW r \in Reaper, rpc[r] = "append" PROVE owner[job[r].run] \notin Over'
  <2>1. job[r].run \in Begun \ alive /\ owner[job[r].run] \notin Over BY <1>4 DEF Jobs, JobOK
  <2>2. \A p \in alive : pc[p] = "append" => owner[p] # owner[job[r].run]
    BY <2>1 DEF Named, Numbered, Middle
  <2>3. QED BY <1>2, <2>1, <2>2
<1>5. Jobs' BY <1>1, <1>2, <1>3, <1>4 DEF Jobs, JobOK
<1>6. Held' BY <1>1, <1>2, <1>3 DEF Held, Holding, Mine
<1>7. QED BY <1>5, <1>6

--------------------------------------------------------------------------------
(* Steps of the reapers.                                                   *)

(* What a reaper may find and leave of a run while it works on one.        *)
Working ==
    /\ claim \in [Pass -> Claims \cup {NoClaim}]
    /\ rpc \in [Reaper -> RLabel] /\ job \in [Reaper -> JobSet]
    /\ \A r \in Reaper : /\ rpc[r] # "idle" => job[r].run \in Pass
                         /\ rpc[r] = "signal" => job[r].target \in Pass

Reaps(r) == ReapStep(r) \/ KillReaper(r) \/ \E q \in Pass : Observe(r, q) \/ Settle(r, q)

(* A reaper at its place has a run; a claim that is its own is a claim.    *)
LEMMA JobTyped ==
  ASSUME Working, NEW r \in Reaper
  PROVE  /\ job[r] \in JobSet /\ rpc[r] \in RLabel
         /\ \A q \in Pass : claim[q] \in Claims \cup {NoClaim}
         /\ \A q \in Pass : claim[q] # NoClaim => claim[q] \in Claims
         /\ rpc[r] # "idle" => job[r].run \in Pass
         /\ job[r].reason \in {"none", "stalled", "exited-without-terminal"}
         /\ job[r].signalled \in BOOLEAN
         /\ rpc[r] = "signal" => job[r].target \in Pass
BY DEF Working, JobSet

(* A reaper that goes idle, and one that goes on, keep the types.          *)
LEMMA GoesIdle ==
  ASSUME Working, NEW r \in Reaper, Idle(r)
  PROVE  /\ rpc' = [rpc EXCEPT ![r] = "idle"] /\ job' = [job EXCEPT ![r] = NoJob]
         /\ claim' \in [Pass -> Claims \cup {NoClaim}] => Working'
<1>1. NoJob \in JobSet BY DEF NoJob, JobSet
<1>2. QED BY <1>1 DEF Idle, RGoto, Working, RLabel

(* A reaper that goes on with a job of its own keeps the types.            *)
LEMMA GoesOn ==
  ASSUME Working, NEW r \in Reaper, NEW label \in RLabel, NEW j \in JobSet, j.run \in Pass,
         label = "signal" => j.target \in Pass,
         rpc' = [rpc EXCEPT ![r] = label], job' = [job EXCEPT ![r] = j],
         claim' \in [Pass -> Claims \cup {NoClaim}]
  PROVE  Working'
BY DEF Working

(* So does one that goes on with the job it has.                           *)
LEMMA GoesOnWith ==
  ASSUME Working, NEW r \in Reaper, NEW label \in RLabel \ {"signal"}, rpc[r] # "idle",
         rpc' = [rpc EXCEPT ![r] = label], UNCHANGED job,
         claim' \in [Pass -> Claims \cup {NoClaim}]
  PROVE  Working'
BY DEF Working

(* Claims that are made, written, marked, dropped and left.                *)
LEMMA ClaimTyped ==
  ASSUME Working, NEW r \in Reaper
  PROVE  /\ EmptyClaim(r) \in Claims /\ ClaimOf(r, job[r]) \in Claims
         /\ \A q \in Pass : claim[q] # NoClaim =>
               /\ [claim[q] EXCEPT !.signalled = TRUE] \in Claims
               /\ [claim[q] EXCEPT !.signalled = TRUE].holder = claim[q].holder
               /\ [claim[q] EXCEPT !.holder = Gone] \in Claims
<1>1. EmptyClaim(r) \in Claims BY DEF EmptyClaim, Claims
<1>2. ClaimOf(r, job[r]) \in Claims BY JobTyped DEF ClaimOf, Claims
<1>3. ASSUME NEW q \in Pass, claim[q] # NoClaim
      PROVE  /\ [claim[q] EXCEPT !.signalled = TRUE] \in Claims
             /\ [claim[q] EXCEPT !.signalled = TRUE].holder = claim[q].holder
             /\ [claim[q] EXCEPT !.holder = Gone] \in Claims
  <2>1. claim[q] \in Claims BY <1>3, JobTyped
  <2>2. QED BY <2>1 DEF Claims
<1>4. QED BY <1>1, <1>2, <1>3

(* A claim that is dropped.                                                *)
LEMMA Drops ==
  ASSUME Working, NEW r \in Reaper, DropClaim(r)
  PROVE  claim' \in [Pass -> Claims \cup {NoClaim}]
BY DEF DropClaim, Working

(* A claim that is left by a reaper that dies or gives up.                 *)
LEMMA Abandons ==
  ASSUME Working, NEW r \in Reaper, Abandon(r)
  PROVE  claim' \in [Pass -> Claims \cup {NoClaim}]
BY ClaimTyped DEF Abandon, Working

(* A reaper works on a run with a claim.                                   *)
LEMMA WorkingStep ==
  ASSUME Typed, NEW r \in Reaper, Reaps(r)
  PROVE  Working'
<1> Working BY TypeParts DEF Working
<1> claim \in [Pass -> Claims \cup {NoClaim}] BY DEF Working
<1> job[r] \in JobSet /\ (rpc[r] # "idle" => job[r].run \in Pass) BY JobTyped
<1> USE DEF RAt, RGoto, RLabel
<1>1. ASSUME NEW q \in Pass, Observe(r, q) \/ Settle(r, q) PROVE Working'
  <2>1. [job[r] EXCEPT !.run = q] \in JobSet /\ [job[r] EXCEPT !.run = q].run = q BY DEF JobSet
  <2>2. /\ claim' = claim /\ job' = [job EXCEPT ![r] = [job[r] EXCEPT !.run = q]]
        /\ \E label \in {"judge", "settle"} : rpc' = [rpc EXCEPT ![r] = label]
    BY <1>1 DEF Observe, Settle, Working
  <2>3. PICK label \in {"judge", "settle"} : rpc' = [rpc EXCEPT ![r] = label] BY <2>2
  <2> DEFINE j == [job[r] EXCEPT !.run = q]
  <2>4. j \in JobSet /\ j.run \in Pass /\ job' = [job EXCEPT ![r] = j] BY <2>1, <2>2
  <2> HIDE DEF j
  <2>5. QED BY <2>2, <2>3, <2>4, GoesOn
<1>2. CASE SettleRemove(r)
  <2>1. claim' \in [Pass -> Claims \cup {NoClaim}] BY <1>2 DEF SettleRemove
  <2>2. QED BY <1>2, <2>1, GoesIdle DEF SettleRemove
<1>3. CASE Judge(r)
  <2> DEFINE q == job[r].run
  <2>1. rpc[r] = "judge" /\ q \in Pass /\ claim' = claim BY <1>3 DEF Judge
  <2>2. CASE Stalled(q) /\ RGoto(r, "create")
             /\ job' = [job EXCEPT ![r].target = Process(q), ![r].reason = "stalled"]
    <3>1. Process(q) \in Pass BY <2>1, <2>2, TypeParts DEF Stalled, Plain
    <3>2. [job[r] EXCEPT !.target = Process(q), !.reason = "stalled"] \in JobSet
      BY <3>1 DEF JobSet
    <3>3. [job[r] EXCEPT !.target = Process(q), !.reason = "stalled"].run = q BY DEF JobSet
    <3>4. job' = [job EXCEPT ![r] = [job[r] EXCEPT !.target = Process(q), !.reason = "stalled"]]
      BY <2>2 DEF Working
    <3>5. QED BY <2>1, <2>2, <3>2, <3>3, <3>4, GoesOn
  <2>3. CASE RGoto(r, "create") /\ job' = [job EXCEPT ![r].reason = "exited-without-terminal"]
    <3>1. /\ [job[r] EXCEPT !.reason = "exited-without-terminal"] \in JobSet
          /\ [job[r] EXCEPT !.reason = "exited-without-terminal"].run = q
      BY DEF JobSet
    <3>2. job' = [job EXCEPT ![r] = [job[r] EXCEPT !.reason = "exited-without-terminal"]]
      BY <2>3 DEF Working
    <3>3. QED BY <2>1, <2>3, <3>1, <3>2, GoesOn
  <2>4. CASE /\ claim[q] # NoClaim /\ RGoto(r, "takeover")
             /\ job' = [job EXCEPT ![r].reason = claim[q].reason,
                                   ![r].signalled = claim[q].signalled, ![r].resumed = TRUE]
    <3>1. claim[q] \in Claims BY <2>1, <2>4, JobTyped
    <3> DEFINE j == [job[r] EXCEPT !.reason = claim[q].reason,
                                   !.signalled = claim[q].signalled, !.resumed = TRUE]
    <3>2. j \in JobSet /\ j.run = q BY <3>1 DEF JobSet, Claims
    <3>3. job' = [job EXCEPT ![r] = j] BY <2>4 DEF Working
    <3>4. QED BY <2>1, <2>4, <3>2, <3>3, GoesOn
  <2>5. CASE Idle(r) BY <2>1, <2>5, GoesIdle
  <2>6. QED BY <1>3, <2>2, <2>3, <2>4, <2>5 DEF Judge
<1>4. CASE TakeOver(r)
  <2>1. claim' \in [Pass -> Claims \cup {NoClaim}] BY <1>4 DEF TakeOver
  <2>2. CASE Idle(r) BY <2>1, <2>2, GoesIdle
  <2>3. CASE rpc' = [rpc EXCEPT ![r] = "create"] /\ UNCHANGED job
    BY <1>4, <2>1, <2>3, GoesOnWith DEF TakeOver
  <2>4. QED BY <1>4, <2>2, <2>3 DEF TakeOver
<1>5. CASE CreateClaim(r)
  <2>1. claim' \in [Pass -> Claims \cup {NoClaim}] BY <1>5, ClaimTyped DEF CreateClaim
  <2>2. CASE Idle(r) BY <2>1, <2>2, GoesIdle
  <2>3. CASE rpc' = [rpc EXCEPT ![r] = "write"] /\ UNCHANGED job
    BY <1>5, <2>1, <2>3, GoesOnWith DEF CreateClaim
  <2>4. QED BY <1>5, <2>2, <2>3 DEF CreateClaim
<1>6. CASE WriteClaim(r)
  <2>1. claim' \in [Pass -> Claims \cup {NoClaim}] BY <1>6, ClaimTyped DEF WriteClaim
  <2>2. PICK label \in {"recheck", "harness"} : rpc' = [rpc EXCEPT ![r] = label]
    BY <1>6 DEF WriteClaim
  <2>3. QED BY <1>6, <2>1, <2>2, GoesOnWith DEF WriteClaim
<1>7. CASE Recheck(r)
  <2> DEFINE q == job[r].run
  <2>1. CASE DropClaim(r) /\ Idle(r) BY <2>1, Drops, GoesIdle
  <2>2. CASE UNCHANGED <<claim, job>> /\ \E label \in {"stop", "exit"} : RGoto(r, label)
    BY <1>7, <2>2, GoesOnWith DEF Recheck
  <2>3. CASE UNCHANGED claim /\ RGoto(r, "stop") /\ job' = [job EXCEPT ![r].target = Process(q)]
    <3>1. q \in Pass BY <1>7 DEF Recheck
    <3>2. Process(q) \in Pass BY <3>1, TypeParts DEF Process, Current, Plain
    <3>3. [job[r] EXCEPT !.target = Process(q)] \in JobSet
          /\ [job[r] EXCEPT !.target = Process(q)].run = q
      BY <3>2 DEF JobSet
    <3>4. job' = [job EXCEPT ![r] = [job[r] EXCEPT !.target = Process(q)]] BY <2>3 DEF Working
    <3>5. QED BY <2>3, <3>1, <3>3, <3>4, GoesOn
  <2>4. QED BY <1>7, <2>1, <2>2, <2>3 DEF Recheck
<1>8. CASE MarkSignalled(r)
  <2>1. CASE UNCHANGED <<claim, job>> /\ \E label \in {"harness", "exit"} : RGoto(r, label)
    BY <1>8, <2>1, GoesOnWith DEF MarkSignalled
  <2>2. CASE /\ Mine(r) /\ job' = [job EXCEPT ![r].signalled = TRUE]
             /\ claim' = [claim EXCEPT ![job[r].run].signalled = TRUE] /\ RGoto(r, "signal")
    <3>1. job[r].run \in Pass BY <1>8 DEF MarkSignalled
    <3>2. claim' \in [Pass -> Claims \cup {NoClaim}] BY <2>2, <3>1, ClaimTyped DEF Mine
    <3>3. [job[r] EXCEPT !.signalled = TRUE] \in JobSet
          /\ [job[r] EXCEPT !.signalled = TRUE].run = job[r].run
      BY DEF JobSet
    <3>4. job' = [job EXCEPT ![r] = [job[r] EXCEPT !.signalled = TRUE]] BY <2>2 DEF Working
    <3>5. [job[r] EXCEPT !.signalled = TRUE].target \in Pass
      BY <1>8, <2>2, TypeParts DEF MarkSignalled, Plain, JobSet
    <3>6. QED BY <2>2, <3>1, <3>2, <3>3, <3>4, <3>5, GoesOn
  <2>3. QED BY <1>8, <2>1, <2>2 DEF MarkSignalled
<1>9. CASE SendTerm(r) BY <1>9, GoesOnWith DEF SendTerm
<1>10. CASE Wait(r)
  <2>1. PICK label \in {"harness", "exit"} : rpc' = [rpc EXCEPT ![r] = label] BY <1>10 DEF Wait
  <2>2. QED BY <1>10, <2>1, GoesOnWith DEF Wait
<1>11. CASE StopRunHarness(r)
  <2> DEFINE q == job[r].run
  <2>1. q \in Pass /\ rpc[r] # "idle" BY <1>11 DEF StopRunHarness
  <2>2. CASE UNCHANGED <<claim, job>> /\ \E label \in {"finish", "exit"} : RGoto(r, label)
    BY <2>1, <2>2, GoesOnWith
  <2>3. CASE /\ Mine(r) /\ job' = [job EXCEPT ![r].signalled = TRUE]
             /\ claim' = [claim EXCEPT ![q].signalled = TRUE] /\ RGoto(r, "finish")
    <3>1. claim' \in [Pass -> Claims \cup {NoClaim}] BY <2>1, <2>3, ClaimTyped DEF Mine
    <3>2. [job[r] EXCEPT !.signalled = TRUE] \in JobSet
          /\ [job[r] EXCEPT !.signalled = TRUE].run = job[r].run
      BY DEF JobSet
    <3>3. job' = [job EXCEPT ![r] = [job[r] EXCEPT !.signalled = TRUE]] BY <2>3 DEF Working
    <3>4. QED BY <2>1, <2>3, <3>1, <3>2, <3>3, GoesOn
  <2>4. QED BY <1>11, <2>2, <2>3 DEF StopRunHarness
<1>12. CASE FinishClaim(r)
  <2>1. PICK label \in {"exit", "remove", "append"} : rpc' = [rpc EXCEPT ![r] = label]
    BY <1>12 DEF FinishClaim
  <2>2. QED BY <1>12, <2>1, GoesOnWith DEF FinishClaim
<1>13. CASE AppendReaped(r) BY <1>13, GoesOnWith DEF AppendReaped
<1>14. CASE RemoveClaim(r) BY <1>14, Drops, GoesIdle DEF RemoveClaim
<1>15. CASE ReaperExits(r) BY <1>15, Abandons, GoesIdle DEF ReaperExits
<1>16. CASE KillReaper(r) BY <1>16, Abandons, GoesIdle DEF KillReaper
<1>17. QED
  BY <1>1, <1>2, <1>3, <1>4, <1>5, <1>6, <1>7, <1>8, <1>9, <1>10, <1>11, <1>12, <1>13, <1>14,
     <1>15, <1>16 DEF Reaps, ReapStep

(* Of the passes a reaper changes their signals, their lives, their        *)
(* harnesses and, at its append, the trace.                                *)
LEMMA ReapFrame ==
  ASSUME Typed, NEW r \in Reaper, Reaps(r)
  PROVE  /\ UNCHANGED <<wakes, lease, pc, owner, lost, armed, result, quiet>>
         /\ alive' \subseteq alive /\ told' \subseteq Pass
         /\ harness' \subseteq harness /\ recorded' \subseteq recorded
         /\ ~AppendReaped(r) => UNCHANGED trace
         /\ warned' \subseteq Pass /\ kills' \in 0 .. MaxKills
<1> USE DEF passVars, RAt
<1> told \subseteq Pass /\ warned \subseteq Pass /\ kills \in 0 .. MaxKills /\ alive \subseteq Pass
  BY TypeParts DEF Plain
<1>1. ASSUME NEW q \in Pass, Observe(r, q) \/ Settle(r, q)
      PROVE  UNCHANGED <<passVars, told, alive, quiet, warned, kills>>
  BY <1>1 DEF Observe, Settle
<1>2. ASSUME SettleRemove(r) \/ Judge(r) \/ TakeOver(r) \/ CreateClaim(r) \/ WriteClaim(r)
             \/ Recheck(r) \/ MarkSignalled(r) \/ FinishClaim(r) \/ RemoveClaim(r)
             \/ ReaperExits(r)
      PROVE  UNCHANGED <<passVars, told, alive, quiet, warned, kills>>
  BY <1>2 DEF SettleRemove, Judge, TakeOver, CreateClaim, WriteClaim, Recheck, MarkSignalled,
              FinishClaim, RemoveClaim, ReaperExits
<1>3. ASSUME SendTerm(r)
      PROVE  /\ UNCHANGED <<passVars, alive, quiet, kills>>
             /\ told' \subseteq Pass /\ warned' \subseteq Pass
  <2>1. /\ told' = told \cup {job[r].target}
        /\ warned' \subseteq warned \cup ({job[r].target} \cap alive)
        /\ UNCHANGED <<passVars, alive, quiet, kills>>
    BY <1>3 DEF SendTerm
  <2>2. job[r].target \in Pass BY <1>3, JobTyped, TypeParts DEF SendTerm, Working
  <2>3. QED BY <2>1, <2>2
<1>4. ASSUME Wait(r)
      PROVE  UNCHANGED <<passVars, told, quiet, warned, kills>> /\ alive' \subseteq alive
  BY <1>4 DEF Wait
<1>5. ASSUME StopRunHarness(r)
      PROVE  /\ UNCHANGED <<wakes, lease, pc, owner, lost, armed, result, trace, told, alive, quiet,
                            warned, kills>>
             /\ harness' \subseteq harness /\ recorded' \subseteq recorded
  BY <1>5 DEF StopRunHarness
<1>6. ASSUME AppendReaped(r)
      PROVE  UNCHANGED <<wakes, lease, pc, owner, lost, armed, result, harness, recorded, told,
                         alive, quiet, warned, kills>>
  BY <1>6 DEF AppendReaped
<1>7. ASSUME KillReaper(r)
      PROVE  UNCHANGED <<passVars, told, alive, quiet, warned>> /\ kills' \in 0 .. MaxKills
  BY <1>7 DEF KillReaper
<1>8. QED BY <1>1, <1>2, <1>3, <1>4, <1>5, <1>6, <1>7 DEF Reaps, ReapStep

(* The row that a reaper appends (stalls.rs finish_claim).                 *)
LEMMA Reaped ==
  ASSUME Typed, NEW r \in Reaper, AppendReaped(r)
  PROVE  /\ trace' \in Seq(RowSet) /\ Begun' = Begun
         /\ Over' = Over \cup {owner[job[r].run]}
         /\ OneEndPerHold /\ owner[job[r].run] \notin Over => OneEndPerHold'
<1> DEFINE res == Result("failed", job[r].reason, "ceiling")
<1>1. trace \in Seq(RowSet) /\ owner \in [Pass -> Owners] BY TypeParts DEF Plain
<1>2. job[r].run \in Pass /\ job[r].reason \in {"none", "stalled", "exited-without-terminal"}
  BY TypeParts, JobTyped DEF Working, AppendReaped, RAt
<1>3. res \in Results BY <1>2, ResultTyped
<1>4. Append1(Row("pass-ended", owner[job[r].run], job[r].run, "reaper", res))
  BY DEF AppendReaped
<1> HIDE DEF res
<1>5. QED BY <1>1, <1>2, <1>3, <1>4, Ends

(* A reaper's step keeps every type.                                       *)
LEMMA ReapTyped ==
  ASSUME Typed, NEW r \in Reaper, Reaps(r)
  PROVE  Typed'
<1>1. Plain'
  BY ReapFrame, TypeParts DEF Plain
<1>2. trace' \in Seq(RowSet)
  BY ReapFrame, Reaped, TypeParts
<1>3. Working' BY WorkingStep
<1>4. result' \in [Pass -> Results] /\ quiet' \subseteq Pass /\ warned' \subseteq Pass
      /\ kills' \in 0 .. MaxKills
  BY ReapFrame, TypeParts
<1> HIDE DEF Plain
<1>5. ReapTypeOK' BY <1>1, <1>2, <1>3, <1>4 DEF ReapTypeOK, TypeOK, RowSet, Plain, Working
<1>6. QED BY <1>1, <1>3, <1>5 DEF Typed, Plain, Working

(* What a reaper does leaves every pass its name, its lease and its place, *)
(* but no harness and no life for those it stops.                          *)
LEMMA PassesStay ==
  ASSUME Typed, Named, Leased, NEW r \in Reaper, Reaps(r)
  PROVE  Begun' = Begun /\ Over \subseteq Over' /\ Named' /\ Leased'
<1> alive \subseteq Pass BY TypeParts DEF Plain
<1>1. /\ UNCHANGED <<wakes, lease, pc, owner>> /\ alive' \subseteq alive BY ReapFrame
<1>2. Begun' = Begun /\ Over \subseteq Over'
  BY ReapFrame, SameRows, Reaped
<1>3. Numbered' = Numbered BY <1>1, <1>2, SameNumbered
<1>4. Named' BY <1>1, <1>2, <1>3 DEF Named
<1>5. Leased' BY <1>1, <1>3 DEF Leased, Current
<1>6. QED BY <1>2, <1>4, <1>5

(* A pass whose end a reaper writes is gone, and another does not have its *)
(* name.                                                                   *)
LEMMA ReapedOnce ==
  ASSUME Typed, Named, Closing, Jobs, NEW r \in Reaper, Reaps(r)
  PROVE  Closing'
<1> alive \subseteq Pass BY TypeParts DEF Plain
<1>1. UNCHANGED <<pc, owner>> /\ alive' \subseteq alive BY ReapFrame
<1>2. CASE ~AppendReaped(r)
  <2>1. Over' = Over /\ OneEndPerHold' BY <1>2, ReapFrame, SameRows DEF Closing
  <2>2. QED BY <1>1, <2>1 DEF Closing
<1>3. CASE AppendReaped(r)
  <2>1. job[r].run \in Begun \ alive /\ owner[job[r].run] \notin Over
    BY <1>3 DEF AppendReaped, RAt, Jobs, JobOK
  <2>2. OneEndPerHold' /\ Over' = Over \cup {owner[job[r].run]}
    BY <1>3, <2>1, Reaped DEF Closing
  <2>3. \A p \in alive : pc[p] \in {"intent", "append"} => owner[p] # owner[job[r].run]
    BY <2>1 DEF Named, Numbered, Middle, Begun
  <2>4. QED BY <1>1, <2>2, <2>3 DEF Closing
<1>4. QED BY <1>2, <1>3

(* The process of a pass that started is its own (stalls.rs                *)
(* pass_generation).                                                       *)
LEMMA OwnProcess ==
  ASSUME Typed, Watched, Named, Leased, NEW p \in Begun
  PROVE  HasProcess(p) /\ Process(p) = p
<1>1. p \in Pass /\ p \in Numbered BY DEF Begun, Numbered
<1>2. owner[p] \in Nat BY <1>1 DEF Named
<1>3. HasProcess(p) BY <1>1, <1>2 DEF HasProcess, Watched
<1>4. Process(p) = p BY <1>1 DEF Process, Leased
<1>5. QED BY <1>3, <1>4

(* Another reaper's job is untouched.                                      *)
LEMMA OtherJobs ==
  ASSUME Typed, NEW r \in Reaper, Reaps(r), NEW s \in Reaper \ {r}
  PROVE  rpc'[s] = rpc[s] /\ job'[s] = job[s]
<1> rpc \in [Reaper -> RLabel] /\ job \in [Reaper -> JobSet] BY TypeParts
<1> USE DEF RGoto, Idle
<1>1. ASSUME NEW q \in Pass, Observe(r, q) \/ Settle(r, q)
      PROVE  rpc'[s] = rpc[s] /\ job'[s] = job[s]
  BY <1>1 DEF Observe, Settle
<1>2. CASE SettleRemove(r) \/ Judge(r) \/ TakeOver(r) \/ CreateClaim(r)
  BY <1>2 DEF SettleRemove, Judge, TakeOver, CreateClaim
<1>3. CASE WriteClaim(r) \/ Recheck(r) \/ MarkSignalled(r)
  BY <1>3 DEF WriteClaim, Recheck, MarkSignalled
<1>4. CASE SendTerm(r) \/ Wait(r) \/ StopRunHarness(r) \/ FinishClaim(r)
  BY <1>4 DEF SendTerm, Wait, StopRunHarness, FinishClaim
<1>5. CASE AppendReaped(r) \/ RemoveClaim(r) \/ ReaperExits(r) \/ KillReaper(r)
  BY <1>5 DEF AppendReaped, RemoveClaim, ReaperExits, KillReaper
<1>6. QED BY <1>1, <1>2, <1>3, <1>4, <1>5 DEF Reaps, ReapStep

(* A reaper stops the process of the run it works on, and looks for the    *)
(* end of a run that is gone.                                              *)
LEMMA OwnJob ==
  ASSUME Typed, Watched, Named, Leased, Jobs, Held, NEW r \in Reaper, Reaps(r)
  PROVE  JobOK(r)'
<1> /\ rpc \in [Reaper -> RLabel] /\ job \in [Reaper -> JobSet] /\ alive \subseteq Pass
    /\ Begun \subseteq Pass /\ NoJob.target = NoLease /\ NoJob.resumed = FALSE
  BY TypeParts DEF Plain, Begun, NoJob
<1> JobOK(r) /\ job[r] \in JobSet BY DEF Jobs
<1> USE DEF RAt, RGoto, Idle
<1>1. /\ Begun' = Begun /\ Over \subseteq Over' /\ alive' \subseteq alive /\ owner' = owner
  BY PassesStay, ReapFrame
<1>2. ASSUME NEW q \in Pass, Observe(r, q) \/ Settle(r, q) PROVE JobOK(r)'
  <2>1. CASE Observe(r, q)
    <3>1. q \in Begun
      BY <2>1 DEF Observe, Opens, Begun, Started, Rows
    <3>2. QED BY <1>1, <2>1, <3>1 DEF Observe, JobOK, JobSet
  <2>2. CASE Settle(r, q)
    <3>1. q \in Begun /\ owner[q] \in Over BY <2>2, OverIs DEF Settle, Held
    <3>2. QED BY <1>1, <2>2, <3>1 DEF Settle, JobOK, JobSet
  <2>3. QED BY <1>2, <2>1, <2>2
<1>3. CASE rpc' = [rpc EXCEPT ![r] = "idle"] /\ job' = [job EXCEPT ![r] = NoJob]
  BY <1>3 DEF JobOK
<1>4. CASE Judge(r)
  <2> DEFINE q == job[r].run
  <2>1. rpc[r] = "judge" /\ q \in Begun BY <1>4 DEF Judge, JobOK
  <2>2. HasProcess(q) /\ Process(q) = q BY <2>1, OwnProcess
  <2>3. CASE Stalled(q) /\ RGoto(r, "create")
             /\ job' = [job EXCEPT ![r].target = Process(q), ![r].reason = "stalled"]
    <3>1. rpc'[r] = "create" /\ job'[r].run = q /\ job'[r].target = q BY <2>2, <2>3 DEF JobSet
    <3>2. QED BY <1>1, <2>1, <3>1 DEF JobOK
  <2>4. CASE Exited(q) /\ RGoto(r, "create")
             /\ job' = [job EXCEPT ![r].reason = "exited-without-terminal"]
    <3>1. q \notin alive BY <2>2, <2>4 DEF Exited
    <3>2. rpc'[r] = "create" /\ job'[r].run = q /\ job'[r].target = NoLease
      BY <2>1, <2>4 DEF JobSet, JobOK
    <3>3. QED BY <1>1, <2>1, <3>1, <3>2 DEF JobOK
  <2>5. CASE /\ RGoto(r, "takeover")
             /\ job' = [job EXCEPT ![r].reason = claim[q].reason,
                                   ![r].signalled = claim[q].signalled, ![r].resumed = TRUE]
    <3>1. rpc'[r] = "takeover" /\ job'[r].run = q /\ job'[r].resumed = TRUE BY <2>5 DEF JobSet
    <3>2. QED BY <1>1, <2>1, <3>1 DEF JobOK
  <2>6. QED BY <1>3, <1>4, <2>3, <2>4, <2>5 DEF Judge
<1>5. CASE TakeOver(r)
  <2>1. CASE rpc' = [rpc EXCEPT ![r] = "create"] /\ UNCHANGED job
    BY <1>1, <1>5, <2>1 DEF TakeOver, JobOK
  <2>2. QED BY <1>3, <1>5, <2>1 DEF TakeOver
<1>6. CASE CreateClaim(r)
  <2>1. CASE rpc' = [rpc EXCEPT ![r] = "write"] /\ UNCHANGED job
    BY <1>1, <1>6, <2>1 DEF CreateClaim, JobOK
  <2>2. QED BY <1>3, <1>6, <2>1 DEF CreateClaim
<1>7. CASE WriteClaim(r)
  <2>1. NoLease \notin Pass OBVIOUS
  <2>2. QED BY <1>1, <1>7, <2>1 DEF WriteClaim, JobOK
<1>8. CASE Recheck(r)
  <2> DEFINE q == job[r].run
  <2>1. rpc[r] = "recheck" /\ q \in Begun /\ (job[r].resumed \/ job[r].target = q)
    BY <1>8 DEF Recheck, JobOK
  <2>2. HasProcess(q) /\ Process(q) = q BY <2>1, OwnProcess
  <2>3. CASE ~Ended(owner[q])
    <3>1. /\ rpc' = [rpc EXCEPT ![r] = "stop"]
          /\ job' = IF job[r].resumed THEN [job EXCEPT ![r].target = q] ELSE job
      BY <1>8, <2>2, <2>3 DEF Recheck
    <3>2. rpc'[r] = "stop" /\ job'[r].run = q /\ job'[r].target = q BY <2>1, <3>1 DEF JobSet
    <3>3. QED BY <1>1, <2>1, <3>2 DEF JobOK
  <2>4. QED BY <1>3, <1>8, <2>3 DEF Recheck
<1>9. CASE MarkSignalled(r)
  <2>1. rpc[r] = "stop" /\ job[r].target = job[r].run /\ job[r].run \in Begun
    BY <1>9 DEF MarkSignalled, JobOK
  <2>2. CASE job[r].target \notin alive BY <1>1, <1>9, <2>1, <2>2 DEF MarkSignalled, JobOK
  <2>3. CASE job[r].target \in alive
    <3>1. /\ job'[r].run = job[r].run /\ job'[r].target = job[r].target
          /\ rpc'[r] \in {"signal", "exit"}
      BY <1>9, <2>3 DEF MarkSignalled, JobSet
    <3>2. QED BY <1>1, <2>1, <3>1 DEF JobOK
  <2>4. QED BY <2>2, <2>3
<1>10. CASE SendTerm(r) BY <1>1, <1>10 DEF SendTerm, JobOK
<1>11. CASE Wait(r)
  <2>1. rpc[r] = "wait" /\ job[r].target = job[r].run /\ job[r].run \in Begun /\ job' = job
    BY <1>11 DEF Wait, JobOK
  <2>2. \/ alive' = alive \ {job[r].run} /\ rpc'[r] = "harness"
        \/ rpc'[r] = "exit"
    BY <1>11, <2>1 DEF Wait
  <2>3. QED BY <1>1, <2>1, <2>2 DEF JobOK
<1>12. CASE StopRunHarness(r)
  <2>1. rpc[r] = "harness" /\ job[r].run \in Begun \ alive BY <1>12 DEF StopRunHarness, JobOK
  <2>2. job'[r].run = job[r].run /\ rpc'[r] \in {"finish", "exit"}
    BY <1>12 DEF StopRunHarness, JobSet
  <2>3. QED BY <1>1, <2>1, <2>2 DEF JobOK
<1>13. CASE FinishClaim(r)
  <2>1. rpc[r] = "finish" /\ job[r].run \in Begun \ alive /\ job' = job /\ trace' = trace
    BY <1>13 DEF FinishClaim, JobOK, passVars
  <2>2. rpc'[r] \in {"exit", "remove"} \/ (rpc'[r] = "append" /\ owner[job[r].run] \notin Over)
    BY <1>13, OverIs DEF FinishClaim
  <2>3. Over' = Over BY <2>1, SameRows
  <2>4. QED BY <1>1, <2>1, <2>2, <2>3 DEF JobOK
<1>14. CASE AppendReaped(r) BY <1>1, <1>14 DEF AppendReaped, JobOK
<1>15. CASE SettleRemove(r) \/ RemoveClaim(r) \/ ReaperExits(r) \/ KillReaper(r)
  BY <1>3, <1>15 DEF SettleRemove, RemoveClaim, ReaperExits, KillReaper
<1>16. QED
  BY <1>2, <1>4, <1>5, <1>6, <1>7, <1>8, <1>9, <1>10, <1>11, <1>12, <1>13, <1>14, <1>15
  DEF Reaps, ReapStep

(* Two reapers do not write an end under one name: both would have the     *)
(* claim.                                                                  *)
LEMMA JobsStep ==
  ASSUME Typed, Watched, Named, Leased, Jobs, Held, NEW r \in Reaper, Reaps(r)
  PROVE  Jobs'
<1> alive \subseteq Pass /\ Begun \subseteq Pass BY TypeParts DEF Plain, Begun
<1>1. /\ Begun' = Begun /\ Over \subseteq Over' /\ alive' \subseteq alive /\ owner' = owner
  BY PassesStay, ReapFrame
<1>2. ASSUME NEW s \in Reaper \ {r} PROVE JobOK(s)'
  <2>1. rpc'[s] = rpc[s] /\ job'[s] = job[s] /\ JobOK(s) BY <1>2, OtherJobs DEF Jobs
  <2>2. ASSUME rpc[s] = "append" PROVE owner[job[s].run] \notin Over'
    <3>1. job[s].run \in Begun /\ owner[job[s].run] \notin Over BY <2>1, <2>2 DEF JobOK
    <3>2. Mine(s) BY <2>2, <3>1 DEF Held, Holding
    <3>3. CASE ~AppendReaped(r) BY <3>1, <3>3, ReapFrame, SameRows
    <3>4. CASE AppendReaped(r)
      <4>1. rpc[r] = "append" /\ JobOK(r) BY <3>4 DEF AppendReaped, RAt, Jobs
      <4>2. job[r].run \in Begun /\ owner[job[r].run] \notin Over BY <4>1 DEF JobOK
      <4>3. Mine(r) BY <4>1, <4>2 DEF Held, Holding
      <4>4. job[r].run # job[s].run BY <1>2, <3>2, <4>3 DEF Mine
      <4>5. owner[job[r].run] # owner[job[s].run] BY <3>1, <4>2, <4>4 DEF Named, Numbered
      <4>6. QED BY <3>1, <3>4, <4>5, Reaped
    <3>5. QED BY <3>3, <3>4
  <2>3. QED BY <1>1, <2>1, <2>2 DEF JobOK
<1>3. QED BY <1>2, OwnJob DEF Jobs

(* Whoever takes, marks or removes a claim has it, or finds its holder     *)
(* gone, or the hold closed.                                               *)
LEMMA HeldStep ==
  ASSUME Typed, Watched, Named, Leased, Jobs, Held, NEW r \in Reaper, Reaps(r)
  PROVE  Held'
<1> /\ rpc \in [Reaper -> RLabel] /\ job \in [Reaper -> JobSet] /\ Begun \subseteq Pass
    /\ claim \in [Pass -> Claims \cup {NoClaim}] /\ Working
  BY TypeParts DEF Begun, Working
<1>1. Begun' = Begun /\ Over \subseteq Over' /\ owner' = owner BY PassesStay, ReapFrame
<1>2. \A s \in Reaper \ {r} : rpc'[s] = rpc[s] /\ job'[s] = job[s] BY OtherJobs
<1> DEFINE Kept(s, q) == claim[q] # NoClaim /\ claim[q].holder = s
                         => claim'[q] # NoClaim /\ claim'[q].holder = s
<1>3. ASSUME \A q \in Pass : claim'[q] # NoClaim => q \in Begun,
             \A s \in Reaper \ {r}, q \in Pass : Kept(s, q) \/ owner[q] \in Over,
             rpc'[r] \in Holding => job'[r].run \in Pass /\
                 \/ claim'[job'[r].run] # NoClaim /\ claim'[job'[r].run].holder = r
                 \/ owner[job'[r].run] \in Over'
      PROVE  Held'
  <2>1. ASSUME NEW s \in Reaper \ {r}, rpc'[s] \in Holding
        PROVE  Mine(s)' \/ owner'[job'[s].run] \in Over'
    <3>1. rpc[s] \in Holding /\ job'[s] = job[s] /\ job[s].run \in Pass
      BY <1>2, <2>1, TypeParts DEF Holding
    <3>2. Mine(s) \/ owner[job[s].run] \in Over BY <3>1 DEF Held
    <3>3. QED BY <1>1, <1>3, <3>1, <3>2 DEF Mine
  <2>2. rpc'[r] \in Holding => Mine(r)' \/ owner'[job'[r].run] \in Over' BY <1>1, <1>3 DEF Mine
  <2>3. QED BY <1>1, <1>3, <2>1, <2>2 DEF Held
<1> HIDE DEF Kept
<1>4. \A q \in Pass : claim[q] # NoClaim => q \in Begun BY DEF Held
<1>5. rpc[r] \in Holding => Mine(r) \/ owner[job[r].run] \in Over BY DEF Held
<1>6. rpc[r] # "idle" => job[r].run \in Begun BY DEF Jobs, JobOK
<1> USE DEF RAt, RGoto, Idle
<1>7. CASE claim' = claim /\ (rpc'[r] \in Holding => rpc[r] \in Holding /\ job'[r].run = job[r].run)
  BY <1>1, <1>3, <1>4, <1>5, <1>6, <1>7 DEF Kept, Mine, Holding
<1>8. CASE (\E q \in Pass : Observe(r, q) \/ Settle(r, q)) \/ Judge(r) \/ SendTerm(r) \/ Wait(r)
           \/ FinishClaim(r) \/ AppendReaped(r)
  BY <1>7, <1>8 DEF Observe, Settle, Judge, SendTerm, Wait, FinishClaim, AppendReaped, Holding
<1>9. CASE SettleRemove(r)
  <2>1. owner[job[r].run] \in Over BY <1>9 DEF SettleRemove, Jobs, JobOK
  <2>2. QED BY <1>3, <1>4, <1>6, <1>9, <2>1 DEF SettleRemove, Kept, Holding
<1>10. CASE TakeOver(r)
  <2>1. CASE UNCHANGED claim /\ Idle(r) BY <1>7, <2>1 DEF Holding
  <2>2. CASE /\ claim[job[r].run] = ClaimOf(Gone, job[r]) /\ rpc' = [rpc EXCEPT ![r] = "create"]
             /\ claim' = [claim EXCEPT ![job[r].run] = NoClaim]
    <3>1. claim[job[r].run].holder = Gone BY <2>2 DEF ClaimOf
    <3>2. QED BY <1>3, <1>4, <2>2, <3>1 DEF Kept, Holding
  <2>3. QED BY <1>10, <2>1, <2>2 DEF TakeOver
<1>11. CASE CreateClaim(r)
  <2>1. CASE UNCHANGED claim /\ Idle(r) BY <1>7, <2>1 DEF Holding
  <2>2. CASE /\ claim[job[r].run] = NoClaim /\ UNCHANGED job
             /\ claim' = [claim EXCEPT ![job[r].run] = EmptyClaim(r)]
    <3>1. EmptyClaim(r) # NoClaim /\ EmptyClaim(r).holder = r
      BY ClaimTyped DEF EmptyClaim
    <3>2. job[r].run \in Begun BY <1>6, <1>11 DEF CreateClaim
    <3>3. QED BY <1>3, <1>4, <2>2, <3>1, <3>2 DEF Kept
  <2>3. QED BY <1>11, <2>1, <2>2 DEF CreateClaim
<1>12. CASE WriteClaim(r)
  <2>1. rpc[r] = "write" /\ job' = job BY <1>12 DEF WriteClaim
  <2>2. CASE Mine(r)
    <3>1. ClaimOf(r, job[r]) # NoClaim /\ ClaimOf(r, job[r]).holder = r
      BY ClaimTyped DEF ClaimOf
    <3>2. claim' = [claim EXCEPT ![job[r].run] = ClaimOf(r, job[r])] BY <1>12, <2>2 DEF WriteClaim
    <3>3. QED BY <1>3, <1>4, <1>6, <2>1, <2>2, <3>1, <3>2 DEF Kept, Mine
  <2>3. CASE ~Mine(r) BY <1>7, <1>12, <2>1, <2>3 DEF WriteClaim, Holding
  <2>4. QED BY <2>2, <2>3
<1>13. ASSUME DropClaim(r), rpc'[r] = "idle" PROVE Held'
  <2>1. CASE Mine(r)
    <3>1. claim' = [claim EXCEPT ![job[r].run] = NoClaim] BY <1>13, <2>1 DEF DropClaim
    <3>2. QED BY <1>3, <1>4, <1>13, <2>1, <3>1 DEF Kept, Mine, Holding
  <2>2. CASE ~Mine(r) BY <1>7, <1>13, <2>2 DEF DropClaim, Holding
  <2>3. QED BY <2>1, <2>2
<1>14. ASSUME Mine(r), rpc[r] \in Holding, job[r].run \in Pass, job'[r].run = job[r].run,
              claim' = [claim EXCEPT ![job[r].run].signalled = TRUE]
       PROVE  Held'
  <2> DEFINE q == job[r].run
             new == [claim[q] EXCEPT !.signalled = TRUE]
  <2>1. new # NoClaim /\ new.holder = r BY <1>14, ClaimTyped DEF Mine
  <2>2. claim' = [claim EXCEPT ![q] = new] BY <1>14
  <2> HIDE DEF new
  <2>3. QED BY <1>3, <1>4, <1>14, <2>1, <2>2 DEF Kept, Mine
<1>15. CASE Recheck(r)
  <2>1. CASE DropClaim(r) /\ Idle(r) BY <1>13, <2>1
  <2>2. CASE UNCHANGED claim /\ job'[r].run = job[r].run BY <1>7, <1>15, <2>2 DEF Recheck, Holding
  <2>3. QED BY <1>15, <2>1, <2>2 DEF Recheck, JobSet
<1>16. CASE MarkSignalled(r)
  <2>1. rpc[r] = "stop" /\ job[r].run \in Pass BY <1>6, <1>16 DEF MarkSignalled
  <2>2. CASE UNCHANGED <<claim, job>> BY <1>7, <2>1, <2>2 DEF Holding
  <2>3. CASE /\ Mine(r) /\ job' = [job EXCEPT ![r].signalled = TRUE]
             /\ claim' = [claim EXCEPT ![job[r].run].signalled = TRUE]
    <3>1. job'[r].run = job[r].run BY <2>3 DEF JobSet
    <3>2. QED BY <1>14, <2>1, <2>3, <3>1 DEF Holding
  <2>4. QED BY <1>16, <2>2, <2>3 DEF MarkSignalled
<1>17. CASE StopRunHarness(r)
  <2>1. rpc[r] = "harness" /\ job[r].run \in Pass BY <1>6, <1>17 DEF StopRunHarness
  <2>2. CASE UNCHANGED <<claim, job>> BY <1>7, <2>1, <2>2 DEF Holding
  <2>3. CASE /\ Mine(r) /\ job' = [job EXCEPT ![r].signalled = TRUE]
             /\ claim' = [claim EXCEPT ![job[r].run].signalled = TRUE]
    <3>1. job'[r].run = job[r].run BY <2>3 DEF JobSet
    <3>2. QED BY <1>14, <2>1, <2>3, <3>1 DEF Holding
  <2>4. QED BY <1>17, <2>2, <2>3 DEF StopRunHarness
<1>18. CASE RemoveClaim(r) BY <1>13, <1>18 DEF RemoveClaim
<1>19. ASSUME Abandon(r), rpc'[r] = "idle" PROVE Held'
  <2>1. \A q \in Pass : claim'[q] # NoClaim => claim[q] # NoClaim BY <1>19 DEF Abandon
  <2>2. \A s \in Reaper \ {r}, q \in Pass : Kept(s, q) BY <1>19 DEF Abandon, Kept
  <2>3. QED BY <1>3, <1>4, <1>19, <2>1, <2>2 DEF Holding
<1>20. CASE ReaperExits(r) \/ KillReaper(r) BY <1>19, <1>20 DEF ReaperExits, KillReaper
<1>21. QED
  BY <1>8, <1>9, <1>10, <1>11, <1>12, <1>15, <1>16, <1>17, <1>18, <1>20 DEF Reaps, ReapStep

--------------------------------------------------------------------------------
(* What is forgotten of a harness that is gone, and a pass falling quiet,  *)
(* change none of it.                                                      *)
LEMMA Aside ==
  ASSUME IInv, ForgetHarness \/ (\E q \in Pass : GoQuiet(q)) \/ UNCHANGED allVars
  PROVE  IInv'
<1>1. /\ UNCHANGED <<wakes, lease, trace, claim, pc, owner, lost, armed, result, told, alive,
                     harness, rpc, job, warned, kills>>
      /\ recorded' \subseteq recorded /\ quiet' \subseteq quiet \cup Pass
  BY DEF ForgetHarness, GoQuiet, allVars, vars, reapVars
<1>2. Begun' = Begun /\ Over' = Over /\ (OneEndPerHold => OneEndPerHold') BY <1>1, SameRows
<1>3. Numbered' = Numbered BY <1>1, <1>2, SameNumbered
<1>4. Plain' BY <1>1, TypeParts DEF IInv, Plain
<1>5. ReapTypeOK' BY <1>1, TypeParts DEF IInv, Plain, ReapTypeOK, TypeOK, RowSet
<1>6. Typed' BY <1>1, <1>5 DEF IInv, Typed
<1>7. Named' BY <1>1, <1>2, <1>3 DEF IInv, Named
<1>8. Leased' BY <1>1, <1>3 DEF IInv, Leased, Current
<1>9. Closing' BY <1>1, <1>2 DEF IInv, Closing
<1>10. Jobs' BY <1>1, <1>2 DEF IInv, Jobs, JobOK
<1>11. Held' BY <1>1, <1>2 DEF IInv, Held, Mine
<1>12. QED BY <1>6, <1>7, <1>8, <1>9, <1>10, <1>11 DEF IInv

(* Nothing has begun, so all of it holds at first.                         *)
LEMMA Initial == ReapInit => IInv
<1> SUFFICES ASSUME ReapInit PROVE IInv
  OBVIOUS
<1>1. trace = <<>> /\ trace \in Seq(RowSet) /\ DOMAIN trace = {} BY DEF ReapInit, Init
<1>2. Rows = {} /\ Begun = {} /\ Over = {} /\ OneEndPerHold
  BY <1>1 DEF Rows, Begun, Started, Over, OneEndPerHold
<1>3. pc = [p \in Pass |-> "idle"] /\ claim = [p \in Pass |-> NoClaim] /\ alive = Pass
      /\ rpc = [r \in Reaper |-> "idle"] /\ job = [r \in Reaper |-> NoJob]
  BY DEF ReapInit, Init
<1>4. Numbered = {} BY <1>2, <1>3 DEF Numbered, Middle, Renewing
<1>5. Unset \in Results BY DEF Unset, Result, Results
<1>6. NoJob \in JobSet /\ NoJob.target = NoLease /\ ~NoJob.resumed BY DEF NoJob, JobSet
<1>7. result \in [Pass -> Results] BY <1>5 DEF ReapInit, Init
<1>8. Plain BY <1>3 DEF ReapInit, Init, Plain, Label, Owners
<1>9. Typed BY <1>1, <1>3, <1>6, <1>7, <1>8, TypeParts DEF ReapInit, RLabel
<1>10. Named /\ Leased /\ Closing BY <1>2, <1>3, <1>4 DEF Named, Leased, Closing
<1>11. Jobs /\ Held BY <1>2, <1>3, <1>6 DEF Jobs, JobOK, Held, Holding
<1>12. QED BY <1>9, <1>10, <1>11 DEF IInv

(* However passes and reapers interleave, pause and are killed, and        *)
(* whatever stops stay unconfirmed and writes fail.                        *)
LEMMA InvariantStep ==
  ASSUME Watched, IInv, [ReapNext]_allVars
  PROVE  IInv'
<1>1. CASE Next /\ UNCHANGED reapVars
  BY <1>1, PassTyped, NamedStep, LeasedStep, ClosingStep, ReapersStay DEF IInv
<1>2. ASSUME NEW r \in Reaper, Reaps(r) PROVE IInv'
  BY <1>2, ReapTyped, PassesStay, ReapedOnce, JobsStep, HeldStep DEF IInv
<1>3. CASE ForgetHarness \/ (\E q \in Pass : GoQuiet(q)) \/ UNCHANGED allVars
  BY <1>3, Aside
<1>4. QED BY <1>1, <1>2, <1>3 DEF ReapNext, Reaps

(* What holds of names, leases, rows, jobs and claims holds always.        *)
THEOREM Invariance == ASSUME Watched PROVE ReapSpec => []IInv
<1>1. ReapInit => IInv BY Initial
<1>2. IInv /\ [ReapNext]_allVars => IInv' BY InvariantStep
<1>3. QED BY <1>1, <1>2, PTL DEF ReapSpec

(* Every variable has its type, on whatever system, however starts overlap *)
(* (pass.rs, stalls.rs).                                                   *)
THEOREM Typing == ReapSpec => []ReapTypeOK
<1>1. ReapInit => Typed BY Initial DEF IInv
<1>2. ASSUME Typed, [ReapNext]_allVars PROVE Typed'
  <2>1. CASE Next /\ UNCHANGED reapVars BY <1>2, <2>1, PassTyped
  <2>2. ASSUME NEW r \in Reaper, Reaps(r) PROVE Typed' BY <1>2, <2>2, ReapTyped
  <2>3. CASE ForgetHarness \/ (\E q \in Pass : GoQuiet(q)) \/ UNCHANGED allVars
    <3>1. /\ UNCHANGED <<wakes, lease, trace, claim, pc, owner, lost, armed, result, told, alive,
                         harness, rpc, job, warned, kills>>
          /\ recorded' \subseteq recorded /\ quiet' \subseteq quiet \cup Pass
      BY <2>3 DEF ForgetHarness, GoQuiet, allVars, vars, reapVars
    <3>2. ReapTypeOK' BY <1>2, <3>1, TypeParts DEF Plain, ReapTypeOK, TypeOK, RowSet
    <3>3. QED BY <1>2, <3>1, <3>2 DEF Typed
  <2>4. QED BY <1>2, <2>1, <2>2, <2>3 DEF ReapNext, Reaps
<1>3. Typed => ReapTypeOK BY DEF Typed
<1>4. QED BY <1>1, <1>2, <1>3, PTL DEF ReapSpec

(* OneEndPerHold: neither a pass nor a reaper writes a second end for a    *)
(* hold (pass.rs:608-610), whoever is killed at whatever point, and        *)
(* however many reapers take over what others left.                        *)
THEOREM EndedOnce == ASSUME Watched PROVE ReapSpec => []OneEndPerHold
<1>1. IInv => OneEndPerHold BY DEF IInv, Closing
<1>2. QED BY <1>1, Invariance, PTL

(* A harness that is not recorded is one whose pass was about to record    *)
(* it; what a reaper is about to end has none recorded.                    *)
Recorded ==
    /\ \A p \in harness \ recorded : pc[p] = "note"
    /\ \A r \in Reaper : rpc[r] \in {"finish", "append"} => job[r].run \notin recorded

(* A pass records its harness, and whoever stops it forgets it             *)
(* (harness_record.rs, stalls.rs stop_harness).                            *)
LEMMA RecordedStep ==
  ASSUME Watched, WritesFail = FALSE, IInv, Recorded, [ReapNext]_allVars
  PROVE  Recorded'
<1> /\ pc \in [Pass -> Label] /\ harness \subseteq Pass /\ alive \subseteq Pass
    /\ rpc \in [Reaper -> RLabel] /\ job \in [Reaper -> JobSet]
  BY TypeParts DEF IInv, Plain
<1> USE DEF At, Goto, Exit, Recorded
<1>1. ASSUME UNCHANGED <<rpc, job>>, recorded' \subseteq recorded,
             \A p \in harness' \ recorded' : p \in harness \ recorded,
             \A p \in harness' \ recorded' : pc'[p] = pc[p]
      PROVE  Recorded'
  BY <1>1
<1>2. CASE Next /\ UNCHANGED reapVars
  <2> UNCHANGED <<rpc, job>> BY <1>2 DEF reapVars
  <2>1. ASSUME NEW p \in Pass, \/ RefuseScope(p) \/ ReadState(p) \/ Acquire(p) \/ WriteState(p)
                               \/ PrepareSweep(p) \/ ConfirmAfterSweep(p)
                               \/ ConfirmBeforeSpawn(p) \/ Decide(p) \/ WaitForChild(p)
                               \/ FinishCheck(p) \/ ReadIntent(p) \/ AppendEnded(p) \/ Release(p)
        PROVE  Recorded'
    <3>1. UNCHANGED <<harness, recorded>> /\ pc[p] # "note" /\ \A q \in Pass \ {p} : pc'[q] = pc[q]
      BY <2>1 DEF RefuseScope, ReadState, Acquire, WriteState, PrepareSweep, ConfirmAfterSweep,
                  ConfirmBeforeSpawn, Confirm, Decide, TakeSignal, WaitForChild, FinishCheck,
                  ReadIntent, AppendEnded, Release
    <3>2. QED BY <1>1, <3>1
  <2>2. ASSUME NEW p \in Pass, Spawn(p) PROVE Recorded'
    BY <2>2 DEF Spawn
  <2>3. ASSUME NEW p \in Pass, NoteHarness(p) PROVE Recorded'
    <3>1. p \in alive /\ pc[p] = "note" /\ pc' = [pc EXCEPT ![p] = "run"] /\ harness' = harness
      BY <2>3 DEF NoteHarness
    <3>2. recorded' = recorded \cup {p} \/ (recorded' = recorded /\ p \notin harness)
      BY <2>3 DEF NoteHarness, Watched
    <3>3. \A r \in Reaper : rpc[r] \in {"finish", "append"} => job[r].run # p
      BY <3>1 DEF IInv, Jobs, JobOK
    <3>4. QED BY <3>1, <3>2, <3>3
  <2>4. ASSUME NEW p \in Pass, StopHarness(p) PROVE Recorded'
    BY <2>4 DEF StopHarness
  <2>5. ASSUME NEW p \in Pass, \/ Renew(p) \/ HarnessExits(p) \/ SupervisorStops(p) \/ Signal(p)
                               \/ Kill(p)
        PROVE  Recorded'
    BY <1>1, <2>5 DEF Renew, HarnessExits, SupervisorStops, Signal, Kill
  <2>6. CASE Lapse BY <1>1, <2>6 DEF Lapse
  <2>7. QED BY <1>2, <2>1, <2>2, <2>3, <2>4, <2>5, <2>6 DEF Next, Step
<1>3. ASSUME NEW r \in Reaper, Reaps(r) PROVE Recorded'
  <2>1. /\ \A s \in Reaper \ {r} : rpc'[s] = rpc[s] /\ job'[s] = job[s]
        /\ pc' = pc /\ recorded' \subseteq recorded /\ harness' \subseteq harness
    BY <1>3, OtherJobs, ReapFrame DEF IInv
  <2>2. CASE StopRunHarness(r)
    <3>1. job'[r].run = job[r].run BY <2>2 DEF StopRunHarness, JobSet
    <3>2. /\ rpc'[r] \in {"finish", "append"} => job[r].run \notin recorded'
          /\ \A p \in harness' \ recorded' : p \in harness \ recorded
      BY <2>2 DEF StopRunHarness, RGoto
    <3>3. QED BY <2>1, <3>1, <3>2
  <2>3. CASE ~StopRunHarness(r)
    <3>1. UNCHANGED <<harness, recorded>>
      BY <1>3, <2>3 DEF Reaps, ReapStep, passVars, Observe, Settle, SettleRemove, Judge, TakeOver,
                        CreateClaim, WriteClaim, Recheck, MarkSignalled, SendTerm, Wait,
                        FinishClaim, AppendReaped, RemoveClaim, ReaperExits, KillReaper
    <3>2. rpc'[r] \in {"finish", "append"} => rpc[r] = "finish" /\ job'[r] = job[r]
      BY <1>3, <2>3 DEF Reaps, ReapStep, RAt, RGoto, Idle, Observe, Settle, SettleRemove, Judge,
                        TakeOver, CreateClaim, WriteClaim, Recheck, MarkSignalled, SendTerm, Wait,
                        FinishClaim, AppendReaped, RemoveClaim, ReaperExits, KillReaper
    <3>3. QED BY <2>1, <3>1, <3>2
  <2>4. QED BY <2>2, <2>3
<1>4. CASE ForgetHarness BY <1>4 DEF ForgetHarness, reapVars
<1>5. CASE (\E q \in Pass : GoQuiet(q)) \/ UNCHANGED allVars
  BY <1>1, <1>5 DEF GoQuiet, allVars, vars, reapVars
<1>6. QED BY <1>2, <1>3, <1>4, <1>5 DEF ReapNext, Reaps

(* What a reaper is about to end is gone, and so is its harness.           *)
LEMMA RecordedGone == IInv /\ Recorded => RecordsGone
<1> SUFFICES ASSUME IInv, Recorded, NEW r \in Reaper, AppendReaped(r)
             PROVE  job[r].run \notin alive /\ (job[r].run \in harness => pc[job[r].run] = "note")
  BY DEF RecordsGone
<1>1. rpc[r] = "append" BY DEF AppendReaped, RAt
<1>2. QED BY <1>1 DEF IInv, Jobs, JobOK, Recorded

(* EndRecordedOnceGone: a reaper records an end only for a run that is     *)
(* gone with its harness, unless the pass was killed before it recorded    *)
(* that (docs/loops.md:173).                                               *)
THEOREM GoneBefore ==
  ASSUME Watched, WritesFail = FALSE
  PROVE  ReapSpec => EndRecordedOnceGone
<1>1. ReapInit => Recorded
  BY DEF ReapInit, Init, Recorded
<1>2. IInv /\ Recorded /\ [ReapNext]_allVars => Recorded' BY RecordedStep
<1>3. IInv /\ Recorded => RecordsGone BY RecordedGone
<1>4. QED BY <1>1, <1>2, <1>3, Invariance, PTL DEF ReapSpec, EndRecordedOnceGone

--------------------------------------------------------------------------------
(* What a stop leaves in the trace.                                        *)

(* Reapers that no one kills and whose stops are confirmed.                *)
Steady == Watched /\ MaxKills = 0 /\ StopsFail = FALSE

(* A claim is its reaper's, at work on the run it names, and records what  *)
(* the reaper found once it is written.                                    *)
ClaimTended(q) ==
    claim[q] # NoClaim =>
        LET h == claim[q].holder IN
        /\ h \in Reaper /\ rpc[h] \in Holding \cup {"remove"} /\ job[h].run = q
        /\ IF rpc[h] = "write" THEN claim[q] = EmptyClaim(h) ELSE claim[q].reason = job[h].reason

(* A reaper knows why it claimed a run, and signals under its mark.        *)
JobTended(r) ==
    /\ rpc[r] \notin {"takeover", "settle"} /\ ~job[r].resumed
    /\ rpc[r] \in Holding \cup {"create"} => job[r].reason # "none"
    /\ job[r].target # NoLease => job[r].reason = "stalled"
    /\ rpc[r] = "signal" => owner[job[r].run] \in Over \/ claim[job[r].run].signalled
    /\ rpc[r] = "remove" => owner[job[r].run] \in Over

Tended == (\A q \in Pass : ClaimTended(q)) /\ (\A r \in Reaper : JobTended(r))

(* The claim under which a run was signalled says so while the run has no  *)
(* end, and a run that is about to write one has read it.                  *)
Marked(p) == claim[p] # NoClaim /\ claim[p].signalled /\ claim[p].reason = "stalled"

Heard(p) ==
    p \in alive /\ pc[p] = "append" /\ ~Succeeded(result[p])
    => result[p].reason = "stalled" /\ result[p].cost = "ceiling"

Heeded ==
    /\ \A p \in warned : p \in Begun /\ (owner[p] \in Over \/ Marked(p)) /\ Heard(p)
    /\ \A row \in Rows :
          row.kind = "pass-ended" /\ row.run \in alive => pc[row.run] \in {"release", "gone"}
    /\ SignalledSaysStalled

(* A step of a reaper touches no claim but its own, on the run it works    *)
(* on.                                                                     *)
LEMMA TendedBy ==
  ASSUME IInv, Tended, NEW r \in Reaper, Reaps(r), NEW q, q = job[r].run,
         \A x \in Pass : x # q => claim'[x] = claim[x],
         q \in Pass =>
             /\ claim'[q] = claim[q] \/ claim[q] = NoClaim \/ claim[q].holder = r
             /\ claim'[q] # NoClaim => claim'[q] = claim[q] \/ claim'[q].holder = r
             /\ claim'[q] # NoClaim /\ claim'[q].holder = r => ClaimTended(q)',
         JobTended(r)'
  PROVE  Tended'
<1> /\ rpc \in [Reaper -> RLabel] /\ job \in [Reaper -> JobSet] /\ Begun \subseteq Pass
  BY TypeParts DEF IInv, Begun
<1>1. Over \subseteq Over' /\ owner' = owner BY PassesStay, ReapFrame DEF IInv
<1>2. \A s \in Reaper \ {r} : rpc'[s] = rpc[s] /\ job'[s] = job[s] BY OtherJobs DEF IInv
<1>3. ASSUME NEW x \in Pass PROVE ClaimTended(x)'
  <2>1. CASE claim'[x] # NoClaim /\ claim'[x].holder = r
    <3>1. CASE x = q BY <2>1, <3>1
    <3>2. CASE x # q
      <4>1. claim[x] # NoClaim /\ claim[x].holder = r BY <2>1, <3>2
      <4>2. QED BY <3>2, <4>1 DEF Tended, ClaimTended
    <3>3. QED BY <3>1, <3>2
  <2>2. CASE claim'[x] # NoClaim /\ claim'[x].holder # r
    <3>1. claim'[x] = claim[x] BY <2>2
    <3>2. ClaimTended(x) BY DEF Tended
    <3>3. claim[x].holder \in Reaper \ {r} BY <2>2, <3>1, <3>2 DEF ClaimTended
    <3>4. QED BY <1>2, <3>1, <3>2, <3>3 DEF ClaimTended, EmptyClaim
  <2>3. QED BY <2>1, <2>2 DEF ClaimTended
<1>4. ASSUME NEW s \in Reaper \ {r} PROVE JobTended(s)'
  <2>1. JobTended(s) /\ rpc'[s] = rpc[s] /\ job'[s] = job[s] BY <1>2 DEF Tended
  <2>2. CASE rpc[s] = "signal"
    <3>1. job[s].run \in Pass /\ (Mine(s) \/ owner[job[s].run] \in Over)
      BY <2>2, TypeParts DEF IInv, Held, Holding
    <3>2. CASE owner[job[s].run] \in Over BY <1>1, <2>1, <3>2 DEF JobTended
    <3>3. CASE Mine(s)
      <4>1. claim[job[s].run] # NoClaim /\ claim[job[s].run].holder # r BY <3>3 DEF Mine
      <4>2. claim'[job[s].run] = claim[job[s].run] BY <3>1, <4>1
      <4>3. QED BY <1>1, <2>1, <4>2 DEF JobTended
    <3>4. QED BY <3>1, <3>2, <3>3
  <2>3. CASE rpc[s] # "signal" BY <1>1, <2>1, <2>3 DEF JobTended
  <2>4. QED BY <2>2, <2>3
<1>5. QED BY <1>3, <1>4 DEF Tended

(* A reaper's step keeps claims and jobs together (stalls.rs).             *)
LEMMA TendedReap ==
  ASSUME IInv, Steady, Tended, NEW r \in Reaper, Reaps(r)
  PROVE  Tended'
<1> PICK q : q = job[r].run OBVIOUS
<1> /\ rpc \in [Reaper -> RLabel] /\ job \in [Reaper -> JobSet] /\ Begun \subseteq Pass
    /\ claim \in [Pass -> Claims \cup {NoClaim}] /\ Working /\ JobTended(r) /\ JobOK(r)
  BY TypeParts DEF IInv, Begun, Working, Tended, Jobs
<1>1. Over \subseteq Over' /\ owner' = owner BY PassesStay, ReapFrame DEF IInv
<1>2. \A x \in Pass : claim[x] # NoClaim /\ claim[x].holder = r =>
          /\ rpc[r] \in Holding \cup {"remove"} /\ x = q
          /\ IF rpc[r] = "write" THEN claim[x] = EmptyClaim(r) ELSE claim[x].reason = job[r].reason
  BY DEF Tended, ClaimTended
<1>3. rpc[r] # "idle" => q \in Pass BY JobTyped
<1>4. rpc[r] \notin {"takeover", "settle"} /\ ~job[r].resumed BY DEF JobTended
<1>5. rpc[r] \in Holding => Mine(r) \/ owner[q] \in Over BY DEF IInv, Held
<1>6. NoJob.target = NoLease /\ ~NoJob.resumed BY DEF NoJob
<1> USE DEF RAt, RGoto
<1>7. ASSUME claim' = claim, JobTended(r)',
             claim[q] # NoClaim /\ claim[q].holder = r /\ q \in Pass => ClaimTended(q)'
      PROVE  Tended'
  BY <1>7, TendedBy
<1>8. ASSUME claim' = claim, Idle(r), \A x \in Pass : claim[x] = NoClaim \/ claim[x].holder # r
      PROVE  Tended'
  <2>1. JobTended(r)' BY <1>6, <1>8 DEF Idle, JobTended, Holding
  <2>2. QED BY <1>7, <1>8, <2>1
<1>9. ASSUME NEW x \in Pass, Observe(r, x) PROVE Tended'
  <2>1. claim' = claim /\ rpc' = [rpc EXCEPT ![r] = "judge"] /\ rpc[r] = "idle"
        /\ job' = [job EXCEPT ![r].run = x]
    BY <1>9 DEF Observe
  <2>2. JobTended(r)' BY <2>1 DEF JobTended, Holding, JobSet
  <2>3. QED BY <1>2, <1>7, <2>1, <2>2 DEF Holding
<1>10. ASSUME NEW x \in Pass, Settle(r, x) PROVE FALSE
  <2>1. claim[x] # NoClaim /\ claim[x].holder = Gone BY <1>10 DEF Settle
  <2>2. ClaimTended(x) BY DEF Tended
  <2>3. QED BY <2>1, <2>2 DEF ClaimTended
<1>11. CASE Judge(r)
  <2>1. claim' = claim /\ rpc[r] = "judge" BY <1>11 DEF Judge
  <2>2. \A x \in Pass : claim[x] = NoClaim \/ claim[x].holder # r BY <1>2, <2>1 DEF Holding
  <2>3. q \in Pass BY <1>3, <2>1
  <2>4. CASE rpc' = [rpc EXCEPT ![r] = "create"]
             /\ job' = [job EXCEPT ![r].target = Process(q), ![r].reason = "stalled"]
    <3>1. JobTended(r)' BY <1>4, <2>4 DEF JobTended, JobSet, Holding
    <3>2. QED BY <1>7, <2>1, <2>2, <3>1
  <2>5. CASE rpc' = [rpc EXCEPT ![r] = "create"]
             /\ job' = [job EXCEPT ![r].reason = "exited-without-terminal"]
    <3>1. job[r].target = NoLease BY <2>1 DEF JobOK
    <3>2. JobTended(r)' BY <1>4, <2>5, <3>1 DEF JobTended, JobSet, Holding
    <3>3. QED BY <1>7, <2>1, <2>2, <3>2
  <2>6. CASE claim[q] # NoClaim /\ claim[q].holder = Gone
    <3>1. ClaimTended(q) BY <2>3 DEF Tended
    <3>2. QED BY <2>6, <3>1 DEF ClaimTended
  <2>7. CASE Idle(r) BY <1>8, <2>1, <2>2, <2>7
  <2>8. QED BY <1>11, <2>4, <2>5, <2>6, <2>7 DEF Judge
<1>12. CASE CreateClaim(r)
  <2>1. rpc[r] = "create" /\ q \in Pass BY <1>3, <1>12 DEF CreateClaim
  <2>2. CASE claim' = claim /\ Idle(r) BY <1>2, <1>8, <2>1, <2>2 DEF Holding
  <2>3. CASE /\ claim[q] = NoClaim /\ claim' = [claim EXCEPT ![q] = EmptyClaim(r)]
             /\ rpc' = [rpc EXCEPT ![r] = "write"] /\ job' = job
    <3>1. EmptyClaim(r) # NoClaim /\ EmptyClaim(r).holder = r BY ClaimTyped DEF EmptyClaim
    <3>2. JobTended(r)' BY <1>4, <2>1, <2>3 DEF JobTended, Holding
    <3>3. claim'[q] = EmptyClaim(r) /\ ClaimTended(q)'
      BY <2>1, <2>3, <3>1 DEF ClaimTended, Holding, EmptyClaim
    <3>4. \A x \in Pass : x # q => claim'[x] = claim[x] BY <2>3
    <3>5. QED BY <2>3, <3>1, <3>2, <3>3, <3>4, TendedBy
  <2>4. QED BY <1>12, <2>2, <2>3 DEF CreateClaim
<1>13. CASE WriteClaim(r)
  <2>1. rpc[r] = "write" /\ q \in Pass /\ job' = job BY <1>3, <1>13 DEF WriteClaim
  <2>2. rpc'[r] \in {"recheck", "harness"} /\ rpc' = [rpc EXCEPT ![r] = rpc'[r]]
    BY <1>13 DEF WriteClaim
  <2>3. JobTended(r)' BY <2>1, <2>2 DEF JobTended, Holding
  <2>4. CASE Mine(r)
    <3>1. ClaimOf(r, job[r]) # NoClaim /\ ClaimOf(r, job[r]).holder = r
          /\ ClaimOf(r, job[r]).reason = job[r].reason
      BY ClaimTyped DEF ClaimOf
    <3>2. claim' = [claim EXCEPT ![q] = ClaimOf(r, job[r])] BY <1>13, <2>4 DEF WriteClaim
    <3>3. claim'[q] = ClaimOf(r, job[r]) /\ ClaimTended(q)'
      BY <2>1, <2>2, <3>1, <3>2 DEF ClaimTended, Holding
    <3>4. \A x \in Pass : x # q => claim'[x] = claim[x] BY <3>2
    <3>5. QED BY <2>3, <2>4, <3>1, <3>3, <3>4, TendedBy DEF Mine
  <2>5. CASE ~Mine(r)
    <3>1. claim' = claim BY <1>13, <2>5 DEF WriteClaim
    <3>2. QED BY <1>7, <2>3, <2>5, <3>1 DEF Mine
  <2>6. QED BY <2>4, <2>5
<1>14. ASSUME DropClaim(r), Idle(r) PROVE Tended'
  <2>1. JobTended(r)' BY <1>6, <1>14 DEF Idle, JobTended, Holding
  <2>2. CASE Mine(r)
    <3>1. claim' = [claim EXCEPT ![q] = NoClaim] BY <1>14, <2>2 DEF DropClaim
    <3>2. q \in Pass => claim'[q] = NoClaim BY <3>1
    <3>3. \A x \in Pass : x # q => claim'[x] = claim[x] BY <3>1
    <3>4. QED BY <2>1, <2>2, <3>2, <3>3, TendedBy DEF Mine
  <2>3. CASE ~Mine(r)
    <3>1. claim' = claim BY <1>14, <2>3 DEF DropClaim
    <3>2. QED BY <1>7, <2>1, <2>3, <3>1 DEF Mine
  <2>4. QED BY <2>2, <2>3
<1>15. ASSUME Mine(r), q \in Pass, rpc[r] \in Holding \ {"write"}, rpc'[r] \in Holding \ {"write"},
              claim' = [claim EXCEPT ![q].signalled = TRUE],
              job' = [job EXCEPT ![r].signalled = TRUE]
       PROVE  Tended'
  <2> DEFINE new == [claim[q] EXCEPT !.signalled = TRUE]
  <2>1. claim[q] \in Claims BY <1>15, JobTyped DEF Mine
  <2>2. new # NoClaim /\ new.holder = r /\ new.reason = claim[q].reason /\ new.signalled
    BY <1>15, <2>1, ClaimTyped DEF Mine, Claims
  <2>3. claim' = [claim EXCEPT ![q] = new] BY <1>15
  <2>4. job'[r].run = q /\ job'[r].reason = job[r].reason /\ job'[r].resumed = job[r].resumed
        /\ job'[r].target = job[r].target
    BY <1>15 DEF JobSet
  <2> HIDE DEF new
  <2>5. claim'[q] = new /\ \A x \in Pass : x # q => claim'[x] = claim[x] BY <1>15, <2>3
  <2>6. JobTended(r)' BY <1>1, <1>15, <2>2, <2>4, <2>5 DEF JobTended, Holding
  <2>7. claim[q].reason = job[r].reason BY <1>2, <1>15 DEF Mine
  <2>8. ClaimTended(q)'
    <3>1. claim'[q].holder = r /\ claim'[q].reason = job'[r].reason /\ job'[r].run = q
      BY <2>2, <2>4, <2>5, <2>7
    <3>2. rpc'[r] \in Holding /\ rpc'[r] # "write" BY <1>15
    <3>3. QED BY <3>1, <3>2 DEF ClaimTended
  <2>9. QED BY <1>15, <2>2, <2>5, <2>6, <2>8, TendedBy DEF Mine
<1>16. ASSUME claim' = claim, job' = job, rpc[r] \in Holding \ {"write"},
              rpc'[r] \in (Holding \ {"write", "signal"}) \cup {"remove"},
              rpc'[r] = "remove" => owner[q] \in Over'
       PROVE  Tended'
  <2>1. JobTended(r)' BY <1>1, <1>16 DEF JobTended, Holding
  <2>2. claim[q] # NoClaim /\ claim[q].holder = r /\ q \in Pass => ClaimTended(q)'
    BY <1>2, <1>16 DEF ClaimTended, Holding
  <2>3. QED BY <1>7, <1>16, <2>1, <2>2
<1>17. CASE Recheck(r)
  <2>1. rpc[r] = "recheck" /\ q \in Pass BY <1>3, <1>17 DEF Recheck
  <2>2. CASE Ended(owner[q]) BY <1>14, <1>17, <2>2 DEF Recheck
  <2>3. CASE ~Ended(owner[q])
    <3>1. HasProcess(q) BY <2>1, OwnProcess DEF IInv, JobOK, Steady
    <3>2. claim' = claim /\ rpc' = [rpc EXCEPT ![r] = "stop"] /\ job' = job
      BY <1>4, <1>17, <2>3, <3>1 DEF Recheck
    <3>3. QED BY <1>16, <2>1, <3>2 DEF Holding
  <2>4. QED BY <2>2, <2>3
<1>18. CASE MarkSignalled(r)
  <2>1. rpc[r] = "stop" /\ q \in Pass BY <1>3, <1>18 DEF MarkSignalled
  <2>2. CASE UNCHANGED <<claim, job>> /\ rpc' = [rpc EXCEPT ![r] = "harness"]
    BY <1>16, <2>1, <2>2 DEF Holding
  <2>3. CASE /\ Mine(r) /\ job' = [job EXCEPT ![r].signalled = TRUE]
             /\ claim' = [claim EXCEPT ![job[r].run].signalled = TRUE]
             /\ rpc' = [rpc EXCEPT ![r] = "signal"]
    BY <1>15, <2>1, <2>3 DEF Holding
  <2>4. CASE ~Mine(r) /\ UNCHANGED <<claim, job>> /\ rpc' = [rpc EXCEPT ![r] = "exit"]
    <3>1. JobTended(r)' BY <2>1, <2>4 DEF JobTended, Holding
    <3>2. QED BY <1>7, <2>4, <3>1 DEF Mine
  <2>5. QED BY <1>18, <2>2, <2>3, <2>4 DEF MarkSignalled
<1>19. CASE SendTerm(r)
  <2>1. claim' = claim /\ job' = job /\ rpc[r] = "signal" /\ rpc' = [rpc EXCEPT ![r] = "wait"]
    BY <1>19 DEF SendTerm
  <2>2. QED BY <1>16, <2>1 DEF Holding
<1>20. CASE Wait(r)
  <2>1. claim' = claim /\ job' = job /\ rpc[r] = "wait" /\ rpc' = [rpc EXCEPT ![r] = "harness"]
    BY <1>20 DEF Wait, Steady
  <2>2. QED BY <1>16, <2>1 DEF Holding
<1>21. CASE StopRunHarness(r)
  <2>1. rpc[r] = "harness" /\ q \in Pass BY <1>3, <1>21 DEF StopRunHarness
  <2>2. CASE UNCHANGED <<claim, job>> /\ rpc' = [rpc EXCEPT ![r] = "finish"]
    BY <1>16, <2>1, <2>2 DEF Holding
  <2>3. CASE /\ Mine(r) /\ job' = [job EXCEPT ![r].signalled = TRUE]
             /\ claim' = [claim EXCEPT ![job[r].run].signalled = TRUE]
             /\ rpc' = [rpc EXCEPT ![r] = "finish"]
    BY <1>15, <2>1, <2>3 DEF Holding
  <2>4. CASE ~Mine(r) /\ UNCHANGED <<claim, job>> /\ rpc' = [rpc EXCEPT ![r] = "exit"]
    <3>1. JobTended(r)' BY <2>1, <2>4 DEF JobTended, Holding
    <3>2. QED BY <1>7, <2>4, <3>1 DEF Mine
  <2>5. QED BY <1>21, <2>2, <2>3, <2>4 DEF StopRunHarness, Steady
<1>22. CASE FinishClaim(r)
  <2>1. claim' = claim /\ job' = job /\ rpc[r] = "finish" BY <1>22 DEF FinishClaim
  <2>2. job[r].reason # "none" BY <2>1 DEF JobTended, Holding
  <2>3. rpc' = [rpc EXCEPT ![r] = IF Ended(owner[q]) THEN "remove" ELSE "append"]
    BY <1>22, <2>2 DEF FinishClaim
  <2>4. rpc'[r] = "remove" => owner[q] \in Over' BY <1>1, <2>3, OverIs
  <2>5. QED BY <1>16, <2>1, <2>3, <2>4 DEF Holding
<1>23. CASE AppendReaped(r)
  <2>1. claim' = claim /\ job' = job /\ rpc[r] = "append" /\ rpc' = [rpc EXCEPT ![r] = "remove"]
    BY <1>23 DEF AppendReaped
  <2>2. owner[q] \in Over' BY <1>23, Reaped DEF IInv
  <2>3. QED BY <1>16, <2>1, <2>2 DEF Holding
<1>24. CASE RemoveClaim(r) BY <1>14, <1>24 DEF RemoveClaim
<1>25. CASE ReaperExits(r)
  <2>1. rpc[r] = "exit" /\ Idle(r) /\ Abandon(r) BY <1>25 DEF ReaperExits
  <2>2. \A x \in Pass : claim[x] = NoClaim \/ claim[x].holder # r BY <1>2, <2>1 DEF Holding
  <2>3. claim' = claim BY <2>1, <2>2 DEF Abandon
  <2>4. QED BY <1>8, <2>1, <2>2, <2>3
<1>26. ~KillReaper(r)
  <2>1. kills \in 0 .. 0 BY TypeParts DEF IInv, Steady
  <2>2. QED BY <2>1 DEF KillReaper, Steady
<1>27. ~SettleRemove(r) /\ ~TakeOver(r) BY <1>4 DEF SettleRemove, TakeOver
<1>28. QED
  BY <1>9, <1>10, <1>11, <1>12, <1>13, <1>17, <1>18, <1>19, <1>20, <1>21, <1>22, <1>23, <1>24,
     <1>25, <1>26, <1>27
  DEF Reaps, ReapStep

(* A pass that is to write its end has read the claim, or stays at it.     *)
LEMMA Reads ==
  ASSUME IInv, Steady, Next, NEW p \in Pass, p \in alive', pc'[p] = "append"
  PROVE  /\ p \in alive
         /\ ReadIntent(p) \/ (pc[p] = "append" /\ result'[p] = result[p])
<1> pc \in [Pass -> Label] /\ result \in [Pass -> Results] BY TypeParts DEF IInv, Plain
<1> USE DEF At, Goto, Exit
<1>1. p \in alive BY PassFrame DEF IInv, Steady
<1>2. ASSUME NEW o \in Pass, o # p, Step(o)
      PROVE  pc'[p] = pc[p] /\ result'[p] = result[p]
  <2>1. CASE RefuseScope(o) \/ ReadState(o) \/ Acquire(o) \/ WriteState(o) \/ PrepareSweep(o)
    BY <1>2, <2>1 DEF RefuseScope, ReadState, Acquire, WriteState, PrepareSweep
  <2>2. CASE ConfirmAfterSweep(o) \/ ConfirmBeforeSpawn(o) \/ Decide(o) \/ WaitForChild(o)
    BY <1>2, <2>2 DEF ConfirmAfterSweep, ConfirmBeforeSpawn, Confirm, Decide, WaitForChild,
                      TakeSignal
  <2>3. CASE Spawn(o) \/ NoteHarness(o) \/ StopHarness(o) \/ FinishCheck(o) \/ ReadIntent(o)
    BY <1>2, <2>3 DEF Spawn, NoteHarness, StopHarness, FinishCheck, ReadIntent
  <2>4. CASE AppendEnded(o) \/ Release(o) BY <1>2, <2>4 DEF AppendEnded, Release
  <2>5. QED BY <1>2, <2>1, <2>2, <2>3, <2>4 DEF Step
<1>3. ASSUME Step(p) PROVE ReadIntent(p)
  <2>1. ~RefuseScope(p) BY DEF RefuseScope, Steady, Watched
  <2>2. CASE ReadState(p) \/ Acquire(p) \/ WriteState(p) \/ PrepareSweep(p)
    BY <2>2 DEF ReadState, Acquire, WriteState, PrepareSweep
  <2>3. CASE ConfirmAfterSweep(p) \/ ConfirmBeforeSpawn(p) \/ Decide(p) \/ WaitForChild(p)
    BY <2>3 DEF ConfirmAfterSweep, ConfirmBeforeSpawn, Confirm, Decide, WaitForChild,
                TakeSignal
  <2>4. CASE Spawn(p) \/ NoteHarness(p) \/ StopHarness(p) \/ FinishCheck(p)
    BY <2>4 DEF Spawn, NoteHarness, StopHarness, FinishCheck
  <2>5. CASE AppendEnded(p) \/ Release(p) BY <2>5 DEF AppendEnded, Release
  <2>6. QED BY <1>3, <2>1, <2>2, <2>3, <2>4, <2>5 DEF Step
<1>4. ASSUME NEW o \in Pass, \/ Renew(o) \/ HarnessExits(o) \/ SupervisorStops(o)
                             \/ Signal(o) \/ Kill(o)
      PROVE  pc' = pc /\ result' = result
  BY <1>4 DEF Renew, HarnessExits, SupervisorStops, Signal, Kill
<1>5. CASE Lapse BY <1>1, <1>5 DEF Lapse
<1>6. QED BY <1>1, <1>2, <1>3, <1>4, <1>5 DEF Next

(* A pass at its end stays there until it is gone.                         *)
LEMMA Leaves ==
  ASSUME IInv, Steady, Next, NEW p \in alive', pc[p] \in {"release", "gone"}
  PROVE  pc'[p] = pc[p]
<1> pc \in [Pass -> Label] /\ alive \subseteq Pass BY TypeParts DEF IInv, Plain
<1> USE DEF At, Goto, Exit
<1>1. p \in alive BY PassFrame DEF IInv, Steady
<1>2. CASE Stays BY <1>2 DEF Stays
<1>3. ASSUME NEW o \in Pass, ReadState(o) \/ Acquire(o) \/ WriteState(o) PROVE pc'[p] = pc[p]
  BY <1>1, <1>3 DEF ReadState, Acquire, WriteState
<1>4. ASSUME NEW o \in Pass, PrepareSweep(o) \/ AppendEnded(o) \/ Release(o) PROVE pc'[p] = pc[p]
  BY <1>1, <1>4 DEF PrepareSweep, AppendEnded, Release
<1>5. ASSUME NEW o \in Pass, Moves(o) PROVE pc'[p] = pc[p]
  BY <1>1, <1>5 DEF Moves, Middle, Renewing
<1>6. QED BY <1>2, <1>3, <1>4, <1>5, Kinds DEF IInv, Steady

(* A pass's row is the one it set out to write.                            *)
LEMMA HeedRow ==
  ASSUME IInv, Heeded, NEW row, Rows' = Rows \cup {row} \/ Rows' = Rows,
         row.kind = "pass-ended" /\ row.run \in warned' /\ ~Succeeded(row.result)
         => row.result.reason = "stalled" /\ row.result.cost = "ceiling",
         \A e \in Rows : e.kind = "pass-ended" /\ e.run \in warned' => e.run \in warned
  PROVE  SignalledSaysStalled'
BY DEF Heeded, SignalledSaysStalled, Succeeded

(* A run that was told to stop writes what the claim says, or finds the    *)
(* end written (stalls.rs reap_intent, pass.rs finish).                    *)
LEMMA HeededPass ==
  ASSUME IInv, Steady, Tended, Heeded, Next, UNCHANGED reapVars
  PROVE  Tended' /\ Heeded'
<1> /\ pc \in [Pass -> Label] /\ result \in [Pass -> Results] /\ alive \subseteq Pass
    /\ trace \in Seq(RowSet) /\ owner \in [Pass -> Owners] /\ Begun \subseteq Pass
    /\ warned \subseteq Pass
  BY TypeParts DEF IInv, Plain, Begun
<1>1. UNCHANGED <<rpc, job, claim, warned>> BY ClaimStays DEF reapVars
<1>2. /\ alive' \subseteq alive /\ Begun \subseteq Begun' /\ Over \subseteq Over'
      /\ \A p \in Begun : owner'[p] = owner[p]
  BY PassFrame DEF IInv, Steady
<1>3. \A r \in Reaper :
         rpc[r] # "idle" => job[r].run \in Begun /\ owner'[job[r].run] = owner[job[r].run]
  BY <1>2 DEF IInv, Jobs, JobOK
<1>4. \A q \in Pass : ClaimTended(q)' BY <1>1 DEF Tended, ClaimTended, EmptyClaim
<1>5. ASSUME NEW r \in Reaper PROVE JobTended(r)'
  <2>1. JobTended(r) BY DEF Tended
  <2>2. QED BY <1>1, <1>2, <1>3, <2>1 DEF JobTended
<1>6. ASSUME NEW p \in warned
      PROVE  p \in Begun' /\ (owner'[p] \in Over' \/ Marked(p)')
  BY <1>1, <1>2 DEF Heeded, Marked
<1>7. ASSUME NEW p \in warned PROVE Heard(p)'
  <2>1. SUFFICES ASSUME p \in alive', pc'[p] = "append", ~Succeeded(result'[p])
                 PROVE  result'[p].reason = "stalled" /\ result'[p].cost = "ceiling"
    BY DEF Heard, Succeeded
  <2>2. p \in alive /\ (ReadIntent(p) \/ (pc[p] = "append" /\ result'[p] = result[p]))
    BY <2>1, Reads
  <2>3. CASE pc[p] = "append" /\ result'[p] = result[p]
    BY <2>1, <2>2, <2>3 DEF Heeded, Heard, Succeeded
  <2>4. CASE ReadIntent(p)
    <3>1. pc[p] = "intent" BY <2>4 DEF ReadIntent, At
    <3>2. owner[p] \notin Over BY <2>2, <3>1 DEF IInv, Closing
    <3>3. Marked(p) BY <3>2 DEF Heeded
    <3>4. Intent(p) BY <3>3 DEF Marked, Intent
    <3>5. result'[p] = result[p] \/ result'[p] = Result("failed", "stalled", "ceiling")
      BY <2>4, <3>3 DEF ReadIntent, Marked
    <3>6. Succeeded(result[p]) => result'[p] = result[p] BY <2>4 DEF ReadIntent
    <3>7. ~Succeeded(result[p]) => result'[p] = Result("failed", "stalled", "ceiling")
      BY <2>4, <3>3, <3>4 DEF ReadIntent, Marked
    <3>8. QED BY <2>1, <3>6, <3>7 DEF Succeeded, Result
  <2>5. QED BY <2>2, <2>3, <2>4
<1>8. ASSUME trace' = trace PROVE Heeded'
  <2>1. Rows' = Rows BY <1>8 DEF Rows
  <2>2. ASSUME NEW row \in Rows, row.kind = "pass-ended", row.run \in alive'
        PROVE  pc'[row.run] \in {"release", "gone"}
    <3>1. pc[row.run] \in {"release", "gone"} BY <1>2, <2>2 DEF Heeded
    <3>2. QED BY <2>2, <3>1, Leaves
  <2>3. SignalledSaysStalled' BY <1>1, <2>1 DEF Heeded, SignalledSaysStalled, Succeeded
  <2>4. QED BY <1>1, <1>6, <1>7, <2>1, <2>2, <2>3 DEF Heeded
<1>9. ASSUME NEW o \in Pass, NEW row, Append1(row), row \in RowSet, row.run = o,
             row.kind = "pass-ended" => pc[o] = "append" /\ pc'[o] = "release",
             row.kind = "pass-ended" => o \in alive /\ row.result = result[o]
      PROVE  Heeded'
  <2>1. Rows' = Rows \cup {row} BY <1>9, Appended
  <2>2. ASSUME NEW e \in Rows, e.kind = "pass-ended", e.run \in alive'
        PROVE  pc'[e.run] \in {"release", "gone"}
    <3>1. pc[e.run] \in {"release", "gone"} BY <1>2, <2>2 DEF Heeded
    <3>2. QED BY <2>2, <3>1, Leaves
  <2>3. row.kind = "pass-ended" /\ row.run \in warned' /\ ~Succeeded(row.result)
        => row.result.reason = "stalled" /\ row.result.cost = "ceiling"
    BY <1>1, <1>9 DEF Heeded, Heard
  <2>4. SignalledSaysStalled' BY <1>1, <2>1, <2>3, HeedRow
  <2>5. QED BY <1>1, <1>6, <1>7, <1>9, <2>1, <2>2, <2>4 DEF Heeded
<1>10. ASSUME NEW o \in Pass, PrepareSweep(o) PROVE Heeded'
  <2>1. CASE Append1(Row("pass-started", owner[o], o, "pass", Unset))
    <3>1. Row("pass-started", owner[o], o, "pass", Unset) \in RowSet
      BY DEF Row, RowSet, Unset, Result, Results
    <3>2. QED BY <1>9, <2>1, <3>1 DEF Row
  <2>2. QED BY <1>8, <1>10, <2>1 DEF PrepareSweep
<1>11. ASSUME NEW o \in Pass, AppendEnded(o) PROVE Heeded'
  <2>1. CASE Append1(Row("pass-ended", owner[o], o, "pass", result[o]))
    <3>1. Row("pass-ended", owner[o], o, "pass", result[o]) \in RowSet BY DEF Row, RowSet
    <3>2. o \in alive /\ pc[o] = "append" /\ pc'[o] = "release"
      BY <1>11 DEF AppendEnded, At, Goto
    <3>3. QED BY <1>9, <2>1, <3>1, <3>2 DEF Row
  <2>2. QED BY <1>8, <1>11, <2>1 DEF AppendEnded
<1>12. ASSUME Stays PROVE Heeded'
  <2>1. trace' = trace BY <1>12 DEF Stays
  <2>2. QED BY <1>8, <2>1
<1>13. ASSUME NEW o \in Pass, \/ ReadState(o) \/ Acquire(o) \/ WriteState(o) \/ Release(o)
                              \/ Moves(o)
       PROVE  Heeded'
  BY <1>8, <1>13 DEF ReadState, Acquire, WriteState, Release, Moves
<1>14. Heeded' BY <1>10, <1>11, <1>12, <1>13, Kinds DEF IInv, Steady
<1>15. QED BY <1>4, <1>5, <1>14 DEF Tended

(* A reaper signals under its mark, keeps the claim until the run has its  *)
(* end, and writes what the claim says (stalls.rs stop_process,            *)
(* finish_claim).                                                          *)
LEMMA HeededReap ==
  ASSUME IInv, Steady, Tended, Heeded, NEW r \in Reaper, Reaps(r)
  PROVE  Heeded'
<1> PICK q : q = job[r].run OBVIOUS
<1> /\ pc \in [Pass -> Label] /\ result \in [Pass -> Results] /\ alive \subseteq Pass
    /\ trace \in Seq(RowSet) /\ owner \in [Pass -> Owners] /\ Begun \subseteq Pass
    /\ warned \subseteq Pass /\ claim \in [Pass -> Claims \cup {NoClaim}]
    /\ JobTended(r) /\ JobOK(r) /\ Working
  BY TypeParts DEF IInv, Plain, Begun, Working, Tended, Jobs
<1>1. UNCHANGED <<pc, owner, result>> /\ alive' \subseteq alive /\ Over \subseteq Over'
      /\ Begun' = Begun
  BY PassesStay, ReapFrame DEF IInv
<1>2. ASSUME NEW p \in Pass, Marked(p), owner[p] \notin Over' PROVE Marked(p)'
  <2> USE DEF RAt, Marked
  <2>1. ClaimTended(p) /\ claim[p] # NoClaim /\ owner[p] \notin Over BY <1>1, <1>2 DEF Tended
  <2>2. CASE claim' = claim BY <1>2, <2>2
  <2>3. ASSUME DropClaim(r), Mine(r) => owner[q] \in Over PROVE Marked(p)'
    <3>1. CASE Mine(r)
      <4>1. p # q BY <2>1, <2>3, <3>1
      <4>2. QED BY <1>2, <2>3, <3>1, <4>1 DEF DropClaim
    <3>2. CASE ~Mine(r) BY <2>2, <2>3, <3>2 DEF DropClaim
    <3>3. QED BY <3>1, <3>2
  <2>4. CASE Recheck(r)
    <3>1. CASE UNCHANGED claim BY <2>2, <3>1
    <3>2. CASE Ended(owner[q]) /\ DropClaim(r) BY <2>3, <3>2, OverIs
    <3>3. QED BY <2>4, <3>1, <3>2 DEF Recheck
  <2>5. CASE RemoveClaim(r)
    <3>1. owner[q] \in Over BY <2>5 DEF RemoveClaim, JobTended
    <3>2. QED BY <2>3, <2>5, <3>1 DEF RemoveClaim
  <2>6. CASE CreateClaim(r)
    <3>1. p = q => claim' = claim BY <2>1, <2>6 DEF CreateClaim
    <3>2. p # q => claim'[p] = claim[p] BY <2>6 DEF CreateClaim
    <3>3. QED BY <1>2, <3>1, <3>2
  <2>7. CASE WriteClaim(r)
    <3>1. CASE p = q /\ Mine(r)
      <4>1. claim[p] = EmptyClaim(r) BY <2>1, <2>7, <3>1 DEF ClaimTended, Mine, WriteClaim
      <4>2. QED BY <1>2, <4>1 DEF EmptyClaim
    <3>2. CASE ~(p = q /\ Mine(r))
      <4>1. claim'[p] = claim[p] BY <2>7, <3>2 DEF WriteClaim
      <4>2. QED BY <1>2, <4>1
    <3>3. QED BY <3>1, <3>2
  <2>8. CASE MarkSignalled(r) \/ StopRunHarness(r)
    <3>1. claim' = claim \/ claim' = [claim EXCEPT ![q].signalled = TRUE]
      BY <2>8 DEF MarkSignalled, StopRunHarness
    <3>2. claim[p] \in Claims BY <2>1, JobTyped
    <3>3. claim'[p] = claim[p] \/ claim'[p] = [claim[p] EXCEPT !.signalled = TRUE] BY <3>1
    <3>4. [claim[p] EXCEPT !.signalled = TRUE] \in Claims BY <2>1, ClaimTyped
    <3>5. /\ [claim[p] EXCEPT !.signalled = TRUE].signalled
          /\ [claim[p] EXCEPT !.signalled = TRUE].reason = claim[p].reason
      BY <3>2 DEF Claims
    <3>6. QED BY <1>2, <3>3, <3>4, <3>5
  <2>9. CASE ReaperExits(r)
    <3>1. rpc[r] = "exit" BY <2>9 DEF ReaperExits
    <3>2. claim[p].holder # r BY <2>1, <3>1 DEF ClaimTended, Holding
    <3>3. claim'[p] = claim[p] BY <2>9, <3>2 DEF ReaperExits, Abandon
    <3>4. QED BY <1>2, <3>3
  <2>10. CASE Judge(r) \/ SendTerm(r) \/ Wait(r) \/ FinishClaim(r) \/ AppendReaped(r)
              \/ (\E x \in Pass : Observe(r, x) \/ Settle(r, x))
    BY <2>2, <2>10 DEF Judge, SendTerm, Wait, FinishClaim, AppendReaped, Observe, Settle
  <2>11. ~KillReaper(r)
    <3>1. kills \in 0 .. 0 BY TypeParts DEF IInv, Steady
    <3>2. QED BY <3>1 DEF KillReaper, Steady
  <2>12. ~SettleRemove(r) /\ ~TakeOver(r) BY DEF SettleRemove, TakeOver, JobTended
  <2>13. QED
    BY <2>4, <2>5, <2>6, <2>7, <2>8, <2>9, <2>10, <2>11, <2>12 DEF Reaps, ReapStep
<1>3. ASSUME NEW p \in warned
      PROVE  p \in Begun' /\ (owner'[p] \in Over' \/ Marked(p)') /\ Heard(p)'
  BY <1>1, <1>2 DEF Heeded, Heard, Succeeded
<1>4. ASSUME NEW row \in Rows, row.kind = "pass-ended", row.run \in alive'
      PROVE  pc'[row.run] \in {"release", "gone"}
  BY <1>1, <1>4 DEF Heeded
<1>5. CASE SendTerm(r)
  <2>1. rpc[r] = "signal" /\ job[r].target = q /\ q \in Begun /\ trace' = trace /\ claim' = claim
    BY <1>5 DEF SendTerm, RAt, JobOK, passVars
  <2>2. warned' = warned \/ (warned' = warned \cup {q} /\ q \in alive /\ pc[q] \in Renewing)
    BY <1>5, <2>1 DEF SendTerm
  <2>3. Rows' = Rows BY <2>1 DEF Rows
  <2>4. owner[q] \in Over \/ Marked(q)
    <3>1. Mine(r) \/ owner[q] \in Over BY <2>1 DEF IInv, Held, Holding
    <3>2. owner[q] \in Over \/ claim[q].signalled BY <2>1 DEF JobTended
    <3>3. job[r].reason = "stalled"
      <4>1. q # NoLease BY <2>1, PassAssumption
      <4>2. QED BY <2>1, <4>1 DEF JobTended
    <3>4. Mine(r) => claim[q] # NoClaim /\ claim[q].reason = "stalled"
      BY <2>1, <3>3 DEF Mine, Tended, ClaimTended
    <3>5. QED BY <3>1, <3>2, <3>4 DEF Marked
  <2>5. q \in alive /\ pc[q] \in Renewing => Heard(q)' BY <1>1 DEF Heard, Renewing
  <2>6. ASSUME NEW p \in warned'
        PROVE  p \in Begun' /\ (owner'[p] \in Over' \/ Marked(p)') /\ Heard(p)'
    <3>1. CASE p \in warned BY <1>3, <3>1
    <3>2. CASE p = q /\ q \in alive /\ pc[q] \in Renewing
      BY <1>1, <2>1, <2>4, <2>5, <3>2 DEF Marked
    <3>3. QED BY <2>2, <2>6, <3>1, <3>2
  <2>7. SignalledSaysStalled'
    <3>1. \A e \in Rows : e.kind = "pass-ended" /\ e.run \in warned' => e.run \in warned
      BY <2>2 DEF Heeded, Renewing
    <3>2. QED BY <2>3, <3>1 DEF Heeded, SignalledSaysStalled, Succeeded
  <2>8. QED BY <1>4, <2>3, <2>6, <2>7 DEF Heeded
<1>6. CASE AppendReaped(r)
  <2> DEFINE res == Result("failed", job[r].reason, "ceiling")
             row == Row("pass-ended", owner[q], q, "reaper", res)
  <2>1. /\ rpc[r] = "append" /\ Append1(row) /\ warned' = warned /\ q \in Begun
        /\ q \notin alive /\ owner[q] \notin Over
    BY <1>6 DEF AppendReaped, RAt, JobOK
  <2>2. row \in RowSet /\ row.kind = "pass-ended" /\ row.run = q /\ row.result = res
    BY <2>1, JobTyped DEF Row, RowSet, Result, Results
  <2>3. q \in warned => res.reason = "stalled" /\ res.cost = "ceiling"
    <3>1. q \in warned => Marked(q) BY <2>1 DEF Heeded
    <3>2. Mine(r) BY <2>1 DEF IInv, Held, Holding
    <3>3. claim[q] # NoClaim /\ claim[q].reason = job[r].reason
      BY <2>1, <3>2 DEF Mine, Tended, ClaimTended
    <3>4. QED BY <3>1, <3>3 DEF Marked, Result
  <2> HIDE DEF row, res
  <2>4. Rows' = Rows \cup {row} BY <2>1, <2>2, Appended
  <2>5. SignalledSaysStalled' BY <2>1, <2>2, <2>3, <2>4, HeedRow
  <2>6. \A e \in Rows' : e.kind = "pass-ended" /\ e.run \in alive'
                         => pc'[e.run] \in {"release", "gone"}
    BY <1>1, <1>4, <2>1, <2>2, <2>4
  <2>7. QED BY <1>3, <2>1, <2>5, <2>6 DEF Heeded
<1>7. CASE ~SendTerm(r) /\ ~AppendReaped(r)
  <2>1. Rows' = Rows
    <3>1. trace' = trace BY <1>7, ReapFrame DEF IInv
    <3>2. QED BY <3>1 DEF Rows
  <2>2. warned' = warned
    BY <1>7 DEF Reaps, ReapStep, Observe, Settle, SettleRemove, Judge, TakeOver, CreateClaim,
                WriteClaim, Recheck, MarkSignalled, Wait, StopRunHarness, FinishClaim,
                RemoveClaim, ReaperExits, KillReaper
  <2>3. SignalledSaysStalled' BY <2>1, <2>2 DEF Heeded, SignalledSaysStalled, Succeeded
  <2>4. QED BY <1>3, <1>4, <2>1, <2>2, <2>3 DEF Heeded
<1>8. QED BY <1>5, <1>6, <1>7

(* All three hold together, from the start and at every step.              *)
LEMMA SteadyStep ==
  ASSUME Steady, IInv, Tended, Heeded, [ReapNext]_allVars
  PROVE  Tended' /\ Heeded'
<1>1. CASE Next /\ UNCHANGED reapVars BY <1>1, HeededPass
<1>2. ASSUME NEW r \in Reaper, Reaps(r) PROVE Tended' /\ Heeded'
  BY <1>2, TendedReap, HeededReap
<1>3. CASE ForgetHarness \/ (\E q \in Pass : GoQuiet(q)) \/ UNCHANGED allVars
  <2>1. UNCHANGED <<trace, claim, pc, owner, result, alive, rpc, job, warned>>
    BY <1>3 DEF ForgetHarness, GoQuiet, allVars, vars, reapVars
  <2>2. Begun' = Begun /\ Over' = Over /\ Rows' = Rows BY <2>1, SameRows DEF Rows
  <2>3. Tended' BY <2>1, <2>2 DEF Tended, ClaimTended, JobTended, EmptyClaim
  <2>4. SignalledSaysStalled' BY <2>1, <2>2 DEF Heeded, SignalledSaysStalled, Succeeded
  <2>5. QED BY <2>1, <2>2, <2>3, <2>4 DEF Heeded, Marked, Heard, Succeeded
<1>4. QED BY <1>1, <1>2, <1>3 DEF ReapNext, Reaps

(* Nothing is claimed, signalled or recorded at first.                     *)
LEMMA SteadyInitial == ReapInit => Tended /\ Heeded
<1> SUFFICES ASSUME ReapInit PROVE Tended /\ Heeded
  OBVIOUS
<1>1. trace = <<>> /\ DOMAIN trace = {} BY DEF ReapInit, Init
<1>2. Rows = {} /\ warned = {} BY <1>1 DEF Rows, ReapInit
<1>3. claim = [p \in Pass |-> NoClaim] /\ rpc = [r \in Reaper |-> "idle"]
      /\ job = [r \in Reaper |-> NoJob]
  BY DEF ReapInit, Init
<1>4. NoJob.target = NoLease /\ ~NoJob.resumed BY DEF NoJob
<1>5. Tended BY <1>3, <1>4 DEF Tended, ClaimTended, JobTended, Holding
<1>6. Heeded BY <1>2 DEF Heeded, SignalledSaysStalled
<1>7. QED BY <1>5, <1>6

(* SignalledSaysStalled: of a run that a reaper signalled before it began  *)
(* to finish, and that did not succeed, the trace says `stalled` at its    *)
(* ceiling, whether the run or the reaper wrote the row                    *)
(* (docs/loops.md:175): for any number of passes and of reapers, whatever  *)
(* else kills the passes and whatever writes fail, where no reaper is      *)
(* killed and every stop is confirmed.                                     *)
THEOREM SignalledRecorded == ASSUME Steady PROVE ReapSpec => []SignalledSaysStalled
<1>1. ReapInit => Tended /\ Heeded BY SteadyInitial
<1>2. IInv /\ (Tended /\ Heeded) /\ [ReapNext]_allVars => (Tended /\ Heeded)' BY SteadyStep
<1>3. Tended /\ Heeded => SignalledSaysStalled BY DEF Heeded
<1>4. ReapSpec => []IInv BY Invariance DEF Steady
<1>5. QED BY <1>1, <1>2, <1>3, <1>4, PTL DEF ReapSpec

(* EndRecordedGone: in the run too, a reaper that stays records an end     *)
(* only for a run that is gone with its harness (docs/loops.md:173).       *)
THEOREM ApartGone ==
  ASSUME Watched, WritesFail = FALSE
  PROVE  MCSpec => EndRecordedGone
<1> DEFINE Kept == scene = "apart" => IInv /\ Recorded
           Step2 == scene = "apart" => RecordsGone
<1>1. MCInit => Kept BY Initial DEF MCInit, ReapInit, Init, Recorded
<1>2. Kept /\ [MCNext]_<<allVars, scene>> => Kept'
  BY InvariantStep, RecordedStep DEF MCNext
<1>3. Kept => Step2 BY RecordedGone
<1>4. MCSpec => [][scene = "apart" => RecordsGone]_<<allVars, scene>>
  BY <1>1, <1>2, <1>3, PTL DEF MCSpec
<1>5. QED BY <1>4 DEF EndRecordedGone

(* StoppedSaysStalled: whatever the other scene of the run holds, of a run *)
(* that a reaper stopped, and lives to close, the trace says `stalled`     *)
(* whoever wrote the row (docs/loops.md:175).                              *)
THEOREM StoppedRecorded == ASSUME Steady PROVE MCSpec => []StoppedSaysStalled
<1> DEFINE Kept == scene = "apart" => IInv /\ Tended /\ Heeded
<1>1. MCInit => Kept BY Initial, SteadyInitial DEF MCInit
<1>2. Kept /\ [MCNext]_<<allVars, scene>> => Kept'
  BY InvariantStep, SteadyStep DEF MCNext, Steady
<1>3. Kept => StoppedSaysStalled BY DEF StoppedSaysStalled, Heeded
<1>4. QED BY <1>1, <1>2, <1>3, PTL DEF MCSpec
================================================================================
