----------------------------- MODULE OrderReapProofs -----------------------------
(* Theorems about module OrderReap, for any number of reapers, of          *)
(* dispatches and clears, and of kills, when no order is reaped as stale   *)
(* under a claim and what is killed from outside is workers; and what they *)
(* say of the run that checks it, MCLives.                                 *)
EXTENDS MCLives, TLAPS

(* Where a reaper has the claim.                                           *)
Holding == {"closed", "reclosed", "lease", "settle", "mark", "term", "wait", "harness", "finish",
            "append", "release", "remove"}

(* A reaper's claim is its own, and there is none while orders are reaped  *)
(* as stale.                                                               *)
Claims ==
    /\ \A r \in Reaper : /\ pc[r] \in {"idle", "judge", "claim", "takeover"} \cup Holding
                         /\ pc[r] \in Holding => claim # None /\ claim.holder = r
    /\ \A c \in Cleaner : /\ pc[c] \in {"idle", "observe", "finish", "append", "release"}
                          /\ pc[c] # "idle" => claim = None

(* A worker has its supervisor and its lease, and writes the first row; a  *)
(* reaper ends the order of a run that is gone.                            *)
Places ==
    /\ super # "up" => worker = "gone"
    /\ ~lease => worker = "gone"
    /\ \A x \in Reaper \cup Cleaner :
          /\ pc[x] \in {"harness", "finish", "append", "release"} => super = "gone" \/ ~lease
          /\ pc[x] \in {"release", "remove"} => ~InFlight
    /\ worker \in {"work", "ended", "check", "append"} => InFlight

(* A worker that has ended did so somehow.                                 *)
Ended == worker \in {"ended", "check", "append"} => end # "none"

(* A harness is stopped before anyone writes of its run's end.             *)
Stopped ==
    /\ worker \notin {"work", "gone"} \/ super \notin {"up", "gone"} => ~harness
    /\ \A x \in Reaper \cup Cleaner : pc[x] \in {"finish", "append", "release"} => ~harness
    /\ \A c \in Cleaner : pc[c] = "observe" /\ super = "gone" => ~harness
    /\ InFlight /\ super = "gone" /\ claim = None => ~harness
    /\ LeaseOutlivesHarness

(* The claim that a run was signalled under stays until a row is there,    *)
(* and whoever writes one then has read it.                                *)
Signals ==
    /\ \A r \in Reaper : pc[r] = "term" => claim.signalled
    /\ warned /\ InFlight => claim # None /\ claim.signalled
    /\ \A c \in Cleaner : pc[c] = "append" => ~warned
    /\ warned /\ worker \in {"check", "append"} /\ end = "failed" => why["worker"] = "stalled"
    /\ warned /\ super = "check" /\ InFlight => why["supervisor"] = "stalled"
    /\ warned /\ super = "append" => why["supervisor"] = "stalled"
    /\ StoppedSaysStalled

(* Where a run can write its row, a lease goes after the row, and a run    *)
(* that is gone without a row is claimed.                                  *)
Once ==
    /\ InFlight => lease
    /\ worker = "release" \/ super = "release" => ~InFlight
    /\ super = "gone" /\ claim = None => ~InFlight
    /\ super = "append" => InFlight
    /\ \A x \in Reaper \cup Cleaner : pc[x] = "append" => InFlight /\ super = "gone"
    /\ EndedOnce

IInv == TypeOK /\ Ended /\ Claims /\ Places /\ Stopped /\ Signals
--------------------------------------------------------------------------------
(* A reaper's claim is a claim.                                            *)
LEMMA NewClaim ==
  ASSUME Constants, NEW r \in Reaper, NEW b \in BOOLEAN
  PROVE  /\ [holder |-> r, signalled |-> b] \in [holder : Reaper \cup {Gone}, signalled : BOOLEAN]
         /\ [holder |-> r, signalled |-> b] # None
BY DEF Constants

(* What a reaper makes of its claim before it signals.                     *)
LEMMA Marks ==
  ASSUME Constants, TypeOK, Claims, NEW r \in Reaper, MarkSignalled(r)
  PROVE  /\ claim' = [holder |-> r, signalled |-> TRUE]
         /\ claim' \in [holder : Reaper \cup {Gone}, signalled : BOOLEAN] /\ claim' # None
<1>1. claim # None /\ claim.holder = r BY DEF MarkSignalled, Claims, Holding
<1>2. claim \in [holder : Reaper \cup {Gone}, signalled : BOOLEAN] BY <1>1 DEF TypeOK
<1>3. claim' = [holder |-> r, signalled |-> TRUE] BY <1>1, <1>2 DEF MarkSignalled
<1>4. QED BY <1>3, NewClaim

(* What is appended is a row.                                              *)
LEMMA RowsTyped ==
  ASSUME Constants, TypeOK, NEW b \in By,
         NEW reason \in {"completed", "failed", "exited", "stalled", "stale"},
         NEW run \in BOOLEAN, Adds(b, reason, run)
  PROVE  rows' \in Seq(Row)
<1>1. [by |-> b, reason |-> reason, run |-> run] \in Row BY DEF Row
<1>2. rows \in Seq(Row) BY DEF TypeOK
<1>3. QED BY <1>1, <1>2 DEF Adds

(* What a reaper makes of its claim as it stops the harness.               *)
LEMMA Notes ==
  ASSUME Constants, TypeOK, Claims, NEW r \in Reaper, StopHarness(r)
  PROVE  /\ claim' \in [holder : Reaper \cup {Gone}, signalled : BOOLEAN] /\ claim' # None
         /\ claim'.holder = r /\ (claim.signalled => claim'.signalled)
<1>1. claim # None /\ claim.holder = r BY DEF StopHarness, Claims, Holding
<1>2. claim \in [holder : Reaper \cup {Gone}, signalled : BOOLEAN] BY <1>1 DEF TypeOK
<1>3. PICK b \in BOOLEAN : b = (claim.signalled \/ harness) OBVIOUS
<1>4. claim' = [claim EXCEPT !.signalled = b] BY <1>3 DEF StopHarness
<1>5. claim' = [holder |-> r, signalled |-> b] BY <1>1, <1>2, <1>4
<1>6. QED BY <1>3, <1>5, NewClaim

(* Every step keeps the types.                                             *)
LEMMA TypeStep ==
  ASSUME Constants, TypeOK, Ended, Claims, [Next]_vars
  PROVE  TypeOK'
<1> USE DEF Constants, TypeOK, Goto, InFlight
<1>1. CASE Work
  <2>1. CASE AppendTerminal
    <3> DEFINE reason == IF why["worker"] = "own" THEN end ELSE why["worker"]
    <3>1. reason \in {"completed", "failed", "stalled"} BY <2>1 DEF AppendTerminal, Ended
    <3>2. Adds("worker", reason, TRUE) BY <2>1 DEF AppendTerminal
    <3> HIDE DEF reason, TypeOK, Constants
    <3>3. rows' \in Seq(Row) BY <3>1, <3>2, RowsTyped DEF By
    <3>4. QED BY <2>1, <3>3 DEF AppendTerminal, Reaping, TypeOK
  <2>2. CASE ~AppendTerminal
    BY ZenonT(60), <1>1, <2>2 DEF Work, WorkEnds, ReadIntent, CheckTerminal, AppendFails, Release,
                      Intent, Reaping
  <2>3. QED BY <2>1, <2>2
<1>2. CASE Finalize
  <2>1. CASE FinalAppend
    <3>1. rows' \in Seq(Row) BY <2>1, RowsTyped DEF FinalAppend, By
    <3>2. QED BY <2>1, <3>1 DEF FinalAppend, Supervise, Reaping
  <2>2. CASE ~FinalAppend
    BY ZenonT(60), <1>2, <2>2
        DEF Finalize, StopSupervised, Look, FinalIntent, FinalCheck, FinalRelease,
                      Supervise, Intent, Reaping
  <2>3. QED BY <2>1, <2>2
<1>3. ASSUME NEW r \in Reaper, Reap(r) PROVE TypeOK'
  <2>1. CASE Observe(r) \/ Judge(r)
    BY <2>1 DEF Observe, Judge, Run
  <2>2. CASE ClaimRun(r)
    <3>1. CASE claim = None
      <4>1. [holder |-> r, signalled |-> FALSE]
               \in [holder : Reaper \cup {Gone}, signalled : BOOLEAN]
        OBVIOUS
      <4>2. claim' = [holder |-> r, signalled |-> FALSE] /\ pc' = [pc EXCEPT ![r] = "closed"]
        BY <2>2, <3>1 DEF ClaimRun
      <4>3. claim' # None /\ claim'.holder = r BY <4>1, <4>2
      <4>4. QED BY <2>2, <4>1, <4>2, <4>3 DEF ClaimRun, Run
    <3>2. CASE claim # None BY <2>2, <3>2 DEF ClaimRun, Run
    <3>3. QED BY <3>1, <3>2
  <2>3. CASE TakeOver(r)
    BY <2>3 DEF TakeOver, Run
  <2>4. CASE HoldClosed(r) \/ ReadLease(r) \/ Settle(r) \/ Confirm(r)
    BY <2>4 DEF HoldClosed, ReadLease, Settle, Confirm, Run
  <2>5. CASE MarkSignalled(r)
    BY <2>5, Marks DEF MarkSignalled, Run
  <2>6. CASE Term(r)
    BY <2>6 DEF Term
  <2>7. CASE Kill(r)
    BY <2>7 DEF Kill, Reaping
  <2>8. CASE StopHarness(r)
    <3>1. claim' \in [holder : Reaper \cup {Gone}, signalled : BOOLEAN] BY <2>8, Notes
    <3>2. QED BY ZenonT(60), <2>8, <3>1 DEF StopHarness
  <2>9. CASE RemoveClaim(r)
    BY <2>9 DEF RemoveClaim, Run
  <2>10. CASE Leave(r)
    BY <2>10 DEF Leave, Run
  <2>11. QED
    BY <1>3, <2>1, <2>2, <2>3, <2>4, <2>5, <2>6, <2>7, <2>8, <2>9, <2>10 DEF Reap
<1>4. ASSUME NEW c \in Cleaner, Clean(c) PROVE TypeOK'
  BY <1>4 DEF Clean, LookInFlight, ObserveProcess, Run
<1>5. ASSUME NEW x \in Reaper \cup Cleaner, Finish(x) PROVE TypeOK'
  <2>1. CASE AppendReaped(x)
    <3> DEFINE reason == IF x \in Reaper THEN "stalled" ELSE "stale"
    <3>1. (x \in Reaper) \in BOOLEAN OBVIOUS
    <3>2. Adds(x, reason, x \in Reaper) BY <2>1 DEF AppendReaped
    <3>3. x \in By /\ reason \in {"stalled", "stale"} BY DEF By
    <3> HIDE DEF reason, TypeOK, Constants
    <3>4. rows' \in Seq(Row) BY <3>1, <3>2, <3>3, RowsTyped
    <3>5. QED BY <2>1, <3>4 DEF AppendReaped, TypeOK, Goto
  <2>2. CASE ~AppendReaped(x)
    BY ZenonT(60), <1>5, <2>2 DEF Finish, FinishCheck, ReleaseOrder, Run
  <2>3. QED BY <2>1, <2>2
<1>6. CASE GoQuiet \/ KillOutside \/ UNCHANGED vars
  BY <1>6 DEF GoQuiet, KillOutside, Reaping, vars
<1>7. QED BY <1>1, <1>2, <1>3, <1>4, <1>5, <1>6 DEF Next

(* A worker that ends says how.                                            *)
LEMMA EndedStep ==
  ASSUME TypeOK, Ended, [Next]_vars
  PROVE  Ended'
BY ZenonT(60)
    DEF TypeOK, Ended, Next, vars, Work, WorkEnds, ReadIntent, CheckTerminal, AppendTerminal,
       AppendFails, Release, Finalize, StopSupervised, Look, FinalIntent, FinalCheck, FinalAppend,
       FinalRelease, Reap, Observe, Judge, ClaimRun, TakeOver, HoldClosed, ReadLease, Settle,
       MarkSignalled, Term, Kill, Confirm, StopHarness, RemoveClaim, Leave, Run, Clean,
       LookInFlight, ObserveProcess, Finish, FinishCheck, AppendReaped, ReleaseOrder, GoQuiet,
       KillOutside

(* No step takes a claim that is not its own, nor the last one from where  *)
(* a reaper has it.                                                        *)
LEMMA ClaimsStep ==
  ASSUME Constants, Apart = TRUE, TypeOK, Claims, [Next]_vars
  PROVE  Claims'
<1> USE DEF Constants, TypeOK, Claims, Goto, InFlight, Holding
<1>1. CASE Work
  <2>1. UNCHANGED <<claim, pc>>
    BY <1>1 DEF Work, WorkEnds, ReadIntent, CheckTerminal, AppendTerminal, AppendFails, Release,
                Reaping
  <2>2. QED BY <2>1
<1>2. CASE Finalize
  <2>1. UNCHANGED <<claim, pc>>
    BY <1>2 DEF Finalize, StopSupervised, Look, FinalIntent, FinalCheck, FinalAppend,
                FinalRelease, Reaping
  <2>2. QED BY <2>1
<1>3. ASSUME NEW r \in Reaper, Reap(r) PROVE Claims'
  <2>1. CASE Observe(r) \/ Judge(r)
    BY <2>1 DEF Observe, Judge, Run
  <2>2. CASE ClaimRun(r)
    <3>1. CASE claim = None
      <4>1. [holder |-> r, signalled |-> FALSE]
               \in [holder : Reaper \cup {Gone}, signalled : BOOLEAN]
        OBVIOUS
      <4>2. claim' = [holder |-> r, signalled |-> FALSE] /\ pc' = [pc EXCEPT ![r] = "closed"]
        BY <2>2, <3>1 DEF ClaimRun
      <4>3. claim' # None /\ claim'.holder = r BY <4>1, <4>2
      <4>4. QED BY <2>2, <4>1, <4>2, <4>3 DEF ClaimRun, Run
    <3>2. CASE claim # None BY <2>2, <3>2 DEF ClaimRun, Run
    <3>3. QED BY <3>1, <3>2
  <2>3. CASE TakeOver(r)
    BY <2>3 DEF TakeOver, Run
  <2>4. CASE HoldClosed(r) \/ ReadLease(r) \/ Settle(r) \/ Confirm(r)
    BY <2>4 DEF HoldClosed, ReadLease, Settle, Confirm, Run
  <2>5. CASE MarkSignalled(r)
    BY <2>5, Marks DEF MarkSignalled, Run
  <2>6. CASE Term(r)
    BY <2>6 DEF Term
  <2>7. CASE Kill(r)
    BY <2>7 DEF Kill, Reaping
  <2>8. CASE StopHarness(r)
    BY <2>8, Notes DEF StopHarness
  <2>9. CASE RemoveClaim(r)
    BY <2>9 DEF RemoveClaim, Run
  <2>10. CASE Leave(r)
    BY <2>10 DEF Leave, Run
  <2>11. QED
    BY <1>3, <2>1, <2>2, <2>3, <2>4, <2>5, <2>6, <2>7, <2>8, <2>9, <2>10 DEF Reap
<1>4. ASSUME NEW c \in Cleaner, Clean(c) PROVE Claims'
  BY <1>4 DEF Clean, LookInFlight, ObserveProcess, Run
<1>5. ASSUME NEW x \in Reaper \cup Cleaner, Finish(x) PROVE Claims'
  BY <1>5 DEF Finish, FinishCheck, AppendReaped, ReleaseOrder, Run
<1>6. CASE GoQuiet \/ KillOutside \/ UNCHANGED vars
  BY <1>6 DEF GoQuiet, KillOutside, Reaping, vars
<1>7. QED BY <1>1, <1>2, <1>3, <1>4, <1>5, <1>6 DEF Next

(* An order is ended by its worker, or once the worker is gone.            *)
LEMMA PlacesStep ==
  ASSUME Constants, Apart = TRUE, Outside \subseteq {"worker"}, TypeOK, Claims, Places, [Next]_vars
  PROVE  Places'
<1> USE DEF Constants, TypeOK, Places, Goto, InFlight, Adds, Claims, Holding, AlreadyTerminal
<1>1. CASE Work
  BY <1>1 DEF Work, WorkEnds, ReadIntent, CheckTerminal, AppendTerminal, AppendFails, Release,
              Intent, Reaping
<1>2. CASE Finalize
  BY <1>2 DEF Finalize, StopSupervised, Look, FinalIntent, FinalCheck, FinalAppend, FinalRelease,
              Supervise, Intent, Reaping
<1>3. ASSUME NEW r \in Reaper, Reap(r) PROVE Places'
  <2>1. CASE Observe(r) \/ Judge(r)
    BY <2>1 DEF Observe, Judge, Run
  <2>2. CASE ClaimRun(r)
    <3>1. CASE claim = None
      <4>1. [holder |-> r, signalled |-> FALSE]
               \in [holder : Reaper \cup {Gone}, signalled : BOOLEAN]
        OBVIOUS
      <4>2. claim' = [holder |-> r, signalled |-> FALSE] /\ pc' = [pc EXCEPT ![r] = "closed"]
        BY <2>2, <3>1 DEF ClaimRun
      <4>3. claim' # None /\ claim'.holder = r BY <4>1, <4>2
      <4>4. QED BY <2>2, <4>1, <4>2, <4>3 DEF ClaimRun, Run
    <3>2. CASE claim # None BY <2>2, <3>2 DEF ClaimRun, Run
    <3>3. QED BY <3>1, <3>2
  <2>3. CASE TakeOver(r)
    BY <2>3 DEF TakeOver, Run
  <2>4. CASE HoldClosed(r) \/ ReadLease(r) \/ Settle(r) \/ Confirm(r)
    BY <2>4 DEF HoldClosed, ReadLease, Settle, Confirm, Run
  <2>5. CASE MarkSignalled(r)
    BY <2>5, Marks DEF MarkSignalled, Run
  <2>6. CASE Term(r)
    BY <2>6 DEF Term
  <2>7. CASE Kill(r)
    BY <2>7 DEF Kill, Reaping
  <2>8. CASE StopHarness(r)
    BY <2>8, Notes DEF StopHarness
  <2>9. CASE RemoveClaim(r)
    BY <2>9 DEF RemoveClaim, Run
  <2>10. CASE Leave(r)
    BY <2>10 DEF Leave, Run
  <2>11. QED
    BY <1>3, <2>1, <2>2, <2>3, <2>4, <2>5, <2>6, <2>7, <2>8, <2>9, <2>10 DEF Reap
<1>4. ASSUME NEW c \in Cleaner, Clean(c) PROVE Places'
  BY <1>4 DEF Clean, LookInFlight, ObserveProcess, Run
<1>5. ASSUME NEW x \in Reaper \cup Cleaner, Finish(x) PROVE Places'
  BY <1>5 DEF Finish, FinishCheck, AppendReaped, ReleaseOrder, Run
<1>6. CASE GoQuiet \/ KillOutside \/ UNCHANGED vars
  BY <1>6 DEF GoQuiet, KillOutside, Reaping, vars
<1>7. QED BY <1>1, <1>2, <1>3, <1>4, <1>5, <1>6 DEF Next

(* Whoever releases the lease has seen the harness stopped (stalls.rs      *)
(* finish_claim, main.rs supervise).                                       *)
LEMMA StoppedStep ==
  ASSUME Constants, Apart = TRUE, Outside \subseteq {"worker"},
         TypeOK, Claims, Places, Stopped, [Next]_vars
  PROVE  Stopped'
<1> USE DEF Constants, TypeOK, Stopped, Goto, InFlight, Adds, Claims, Holding, Places,
           LeaseOutlivesHarness
<1>1. CASE Work
  BY <1>1 DEF Work, WorkEnds, ReadIntent, CheckTerminal, AppendTerminal, AppendFails, Release,
              Intent, Reaping
<1>2. CASE Finalize
  BY <1>2 DEF Finalize, StopSupervised, Look, FinalIntent, FinalCheck, FinalAppend, FinalRelease,
              Supervise, Intent, Reaping
<1>3. ASSUME NEW r \in Reaper, Reap(r) PROVE Stopped'
  <2>1. CASE Observe(r) \/ Judge(r)
    BY <2>1 DEF Observe, Judge, Run
  <2>2. CASE ClaimRun(r)
    <3>1. CASE claim = None
      <4>1. [holder |-> r, signalled |-> FALSE]
               \in [holder : Reaper \cup {Gone}, signalled : BOOLEAN]
        OBVIOUS
      <4>2. claim' = [holder |-> r, signalled |-> FALSE] /\ pc' = [pc EXCEPT ![r] = "closed"]
        BY <2>2, <3>1 DEF ClaimRun
      <4>3. claim' # None /\ claim'.holder = r BY <4>1, <4>2
      <4>4. QED BY <2>2, <4>1, <4>2, <4>3 DEF ClaimRun, Run
    <3>2. CASE claim # None BY <2>2, <3>2 DEF ClaimRun, Run
    <3>3. QED BY <3>1, <3>2
  <2>3. CASE TakeOver(r)
    BY <2>3 DEF TakeOver, Run
  <2>4. CASE HoldClosed(r) \/ ReadLease(r) \/ Settle(r) \/ Confirm(r)
    BY <2>4 DEF HoldClosed, ReadLease, Settle, Confirm, Run
  <2>5. CASE MarkSignalled(r)
    BY <2>5, Marks DEF MarkSignalled, Run
  <2>6. CASE Term(r)
    BY <2>6 DEF Term
  <2>7. CASE Kill(r)
    BY <2>7 DEF Kill, Reaping
  <2>8. CASE StopHarness(r)
    BY <2>8, Notes DEF StopHarness
  <2>9. CASE RemoveClaim(r)
    BY <2>9 DEF RemoveClaim, Run
  <2>10. CASE Leave(r)
    BY <2>10 DEF Leave, Run
  <2>11. QED
    BY <1>3, <2>1, <2>2, <2>3, <2>4, <2>5, <2>6, <2>7, <2>8, <2>9, <2>10 DEF Reap
<1>4. ASSUME NEW c \in Cleaner, Clean(c) PROVE Stopped'
  BY <1>4 DEF Clean, LookInFlight, ObserveProcess, Run
<1>5. ASSUME NEW x \in Reaper \cup Cleaner, Finish(x) PROVE Stopped'
  BY <1>5 DEF Finish, FinishCheck, AppendReaped, ReleaseOrder, Run
<1>6. CASE GoQuiet \/ KillOutside \/ UNCHANGED vars
  BY <1>6 DEF GoQuiet, KillOutside, Reaping, vars
<1>7. QED BY <1>1, <1>2, <1>3, <1>4, <1>5, <1>6 DEF Next

(* Whoever writes the row after a signal has read the claim that says so   *)
(* (stalls.rs reap_intent).                                                *)
LEMMA SignalsStep ==
  ASSUME Constants, Apart = TRUE, Outside \subseteq {"worker"},
         TypeOK, Ended, Claims, Places, Signals, [Next]_vars
  PROVE  Signals'
<1> USE DEF Constants, TypeOK, Signals, Goto, InFlight, Adds, Ended, Claims, Holding, Places,
           StoppedSaysStalled, Decided
<1>1. CASE Work
  <2>1. CASE WorkEnds BY <2>1 DEF WorkEnds, Intent, Reaping
  <2>2. CASE ReadIntent BY <2>2 DEF ReadIntent, Intent, Reaping
  <2>3. CASE CheckTerminal BY <2>3 DEF CheckTerminal, Intent, Reaping
  <2>4. CASE AppendTerminal BY <2>4 DEF AppendTerminal, Intent, Reaping
  <2>5. CASE AppendFails BY <2>5 DEF AppendFails, Intent, Reaping
  <2>6. CASE Release BY <2>6 DEF Release, Intent, Reaping
  <2>7. QED BY <1>1, <2>1, <2>2, <2>3, <2>4, <2>5, <2>6 DEF Work
<1>2. CASE Finalize
  BY <1>2 DEF Finalize, StopSupervised, Look, FinalIntent, FinalCheck, FinalAppend, FinalRelease,
              Supervise, Intent, Reaping
<1>3. ASSUME NEW r \in Reaper, Reap(r) PROVE Signals'
  <2>1. CASE Observe(r) \/ Judge(r)
    BY <2>1 DEF Observe, Judge, Run
  <2>2. CASE ClaimRun(r)
    <3>1. CASE claim = None
      <4>1. [holder |-> r, signalled |-> FALSE]
               \in [holder : Reaper \cup {Gone}, signalled : BOOLEAN]
        OBVIOUS
      <4>2. claim' = [holder |-> r, signalled |-> FALSE] /\ pc' = [pc EXCEPT ![r] = "closed"]
        BY <2>2, <3>1 DEF ClaimRun
      <4>3. claim' # None /\ claim'.holder = r BY <4>1, <4>2
      <4>4. QED BY <2>2, <4>1, <4>2, <4>3 DEF ClaimRun, Run
    <3>2. CASE claim # None BY <2>2, <3>2 DEF ClaimRun, Run
    <3>3. QED BY <3>1, <3>2
  <2>3. CASE TakeOver(r)
    BY <2>3 DEF TakeOver, Run
  <2>4. CASE HoldClosed(r) \/ ReadLease(r) \/ Settle(r) \/ Confirm(r)
    BY <2>4 DEF HoldClosed, ReadLease, Settle, Confirm, Run
  <2>5. CASE MarkSignalled(r)
    BY <2>5, Marks DEF MarkSignalled, Run
  <2>6. CASE Term(r)
    BY <2>6 DEF Term
  <2>7. CASE Kill(r)
    BY <2>7 DEF Kill, Reaping
  <2>8. CASE StopHarness(r)
    BY <2>8, Notes DEF StopHarness
  <2>9. CASE RemoveClaim(r)
    BY <2>9 DEF RemoveClaim, Run
  <2>10. CASE Leave(r)
    BY <2>10 DEF Leave, Run
  <2>11. QED
    BY <1>3, <2>1, <2>2, <2>3, <2>4, <2>5, <2>6, <2>7, <2>8, <2>9, <2>10 DEF Reap
<1>4. ASSUME NEW c \in Cleaner, Clean(c) PROVE Signals'
  BY <1>4 DEF Clean, LookInFlight, ObserveProcess, Run
<1>5. ASSUME NEW x \in Reaper \cup Cleaner, Finish(x) PROVE Signals'
  <2>1. CASE FinishCheck(x) BY <2>1 DEF FinishCheck, Run
  <2>2. CASE AppendReaped(x) BY <2>2 DEF AppendReaped, Run
  <2>3. CASE ReleaseOrder(x) BY <2>3 DEF ReleaseOrder, Run
  <2>4. QED BY <1>5, <2>1, <2>2, <2>3 DEF Finish
<1>6. CASE GoQuiet \/ KillOutside \/ UNCHANGED vars
  BY <1>6 DEF GoQuiet, KillOutside, Reaping, vars
<1>7. QED BY <1>1, <1>2, <1>3, <1>4, <1>5, <1>6 DEF Next

(* While the run can write its row, whoever appends one has seen that      *)
(* there is none (work_order.rs append_terminal_row).                      *)
LEMMA OnceStep ==
  ASSUME Constants, Apart = TRUE, Outside \subseteq {"worker"}, ~AppendFails,
         TypeOK, Claims, Places, Once, [Next]_vars
  PROVE  Once'
<1> USE DEF Constants, TypeOK, Once, Goto, InFlight, Adds, Claims, Holding, Places, EndedOnce,
            AlreadyTerminal
<1>1. CASE Work
  BY <1>1 DEF Work, WorkEnds, ReadIntent, CheckTerminal, AppendTerminal, AppendFails, Release,
              Intent, Reaping
<1>2. CASE Finalize
  BY <1>2 DEF Finalize, StopSupervised, Look, FinalIntent, FinalCheck, FinalAppend, FinalRelease,
              Supervise, Intent, Reaping
<1>3. ASSUME NEW r \in Reaper, Reap(r) PROVE Once'
  <2>1. CASE Observe(r) \/ Judge(r)
    BY <2>1 DEF Observe, Judge, Run
  <2>2. CASE ClaimRun(r)
    <3>1. CASE claim = None
      <4>1. [holder |-> r, signalled |-> FALSE]
               \in [holder : Reaper \cup {Gone}, signalled : BOOLEAN]
        OBVIOUS
      <4>2. claim' = [holder |-> r, signalled |-> FALSE] /\ pc' = [pc EXCEPT ![r] = "closed"]
        BY <2>2, <3>1 DEF ClaimRun
      <4>3. claim' # None /\ claim'.holder = r BY <4>1, <4>2
      <4>4. QED BY <2>2, <4>1, <4>2, <4>3 DEF ClaimRun, Run
    <3>2. CASE claim # None BY <2>2, <3>2 DEF ClaimRun, Run
    <3>3. QED BY <3>1, <3>2
  <2>3. CASE TakeOver(r)
    BY <2>3 DEF TakeOver, Run
  <2>4. CASE HoldClosed(r) \/ ReadLease(r) \/ Settle(r) \/ Confirm(r)
    BY <2>4 DEF HoldClosed, ReadLease, Settle, Confirm, Run
  <2>5. CASE MarkSignalled(r)
    BY <2>5, Marks DEF MarkSignalled, Run
  <2>6. CASE Term(r)
    BY <2>6 DEF Term
  <2>7. CASE Kill(r)
    BY <2>7 DEF Kill, Reaping
  <2>8. CASE StopHarness(r)
    BY <2>8, Notes DEF StopHarness
  <2>9. CASE RemoveClaim(r)
    BY <2>9 DEF RemoveClaim, Run
  <2>10. CASE Leave(r)
    BY <2>10 DEF Leave, Run
  <2>11. QED
    BY <1>3, <2>1, <2>2, <2>3, <2>4, <2>5, <2>6, <2>7, <2>8, <2>9, <2>10 DEF Reap
<1>4. ASSUME NEW c \in Cleaner, Clean(c) PROVE Once'
  BY <1>4 DEF Clean, LookInFlight, ObserveProcess, Run
<1>5. ASSUME NEW x \in Reaper \cup Cleaner, Finish(x) PROVE Once'
  BY <1>5 DEF Finish, FinishCheck, AppendReaped, ReleaseOrder, Run
<1>6. CASE GoQuiet \/ KillOutside \/ UNCHANGED vars
  BY <1>6 DEF GoQuiet, KillOutside, Reaping, vars
<1>7. QED BY <1>1, <1>2, <1>3, <1>4, <1>5, <1>6 DEF Next
--------------------------------------------------------------------------------
(* The invariant holds of an order that was just dispatched.               *)
LEMMA Initial ==
  ASSUME Constants
  PROVE  Init => IInv /\ Once
<1> SUFFICES ASSUME Init PROVE IInv /\ Once
  OBVIOUS
<1>1. rows = <<>> /\ <<>> \in Seq(Row) /\ DOMAIN rows = {} /\ Len(rows) = 0 BY DEF Init
<1>2. TypeOK BY <1>1 DEF Init, TypeOK
<1>3. Ended /\ Claims /\ Places /\ Stopped /\ Signals
  BY <1>1 DEF Init, Ended, Claims, Holding, Places, Stopped, Signals, InFlight,
              LeaseOutlivesHarness, StoppedSaysStalled
<1>4. Once BY <1>1 DEF Init, Once, InFlight, EndedOnce
<1>5. QED BY <1>2, <1>3, <1>4 DEF IInv

(* However reapers, the worker and its supervisor interleave, and whatever *)
(* is killed.                                                              *)
THEOREM Invariance ==
  ASSUME Constants, Apart = TRUE, Outside \subseteq {"worker"}
  PROVE  Spec => []IInv
<1>1. Init => IInv BY Initial
<1>2. IInv /\ [Next]_vars => IInv'
  BY TypeStep, EndedStep, ClaimsStep, PlacesStep, StoppedStep, SignalsStep DEF IInv
<1>3. QED BY <1>1, <1>2, PTL DEF Spec

(* Every variable has its type (stalls.rs, work_order.rs, implement.rs).   *)
THEOREM Typing ==
  ASSUME Constants, Apart = TRUE, Outside \subseteq {"worker"}
  PROVE  Spec => []TypeOK
<1>1. IInv => TypeOK BY DEF IInv
<1>2. QED BY <1>1, Invariance, PTL

(* Of a run that was signalled before anyone looked into its end the row   *)
(* says so, no lease is released while a harness is at work, and an order  *)
(* whose run can write its row gets one row (stalls.rs finish_claim,       *)
(* work_order.rs append_terminal_row).                                     *)
THEOREM Recorded ==
  ASSUME Constants, Apart = TRUE, Outside \subseteq {"worker"}
  PROVE  Spec => []OrderEndRecorded
<1>1. IInv => StoppedSaysStalled /\ LeaseOutlivesHarness BY DEF IInv, Signals, Stopped
<1>2. CASE WritesFail = FALSE
  <2>1. Init => Once BY Initial
  <2>2. IInv /\ Once /\ [Next]_vars => Once' BY <1>2, OnceStep DEF IInv, AppendFails
  <2>3. IInv /\ Once => OrderEndRecorded BY <1>1 DEF Once, OrderEndRecorded
  <2>4. QED BY <2>1, <2>2, <2>3, Invariance, PTL DEF Spec
<1>3. CASE WritesFail = TRUE
  <2>1. IInv => OrderEndRecorded BY <1>1, <1>3 DEF OrderEndRecorded
  <2>2. QED BY <2>1, Invariance, PTL
<1>4. QED BY <1>2, <1>3 DEF Constants
--------------------------------------------------------------------------------
(* In MCLives the order's steps are those of module OrderReap, and those   *)
(* of a run that can always write its row have no failed append.           *)

(* A step of a run that writes its row is a step of a run, and the run     *)
(* goes on from its append with the row written.                           *)
LEMMA WrittenSteps ==
  ASSUME MaxKills \in Nat \ {0}, TypeOK, kills \in Nat, Written!Next
  PROVE  Next /\ ~AppendFails
<1>1. CASE Written!Work
  <2>0. \A row : rows # Append(rows, row) BY DEF TypeOK
  <2>1. Work /\ ~(worker = "append" /\ rows' = rows)
    BY <1>1, <2>0 DEF Work, Written!Work, WorkEnds, Written!WorkEnds, ReadIntent,
              Written!ReadIntent, CheckTerminal, Written!CheckTerminal, AppendTerminal,
              Written!AppendTerminal, Release, Written!Release, Intent, Written!Intent, Adds,
              Written!Adds, AlreadyTerminal, Written!AlreadyTerminal, Reaping, Written!Reaping,
              Written!AppendFails
  <2>2. QED BY <2>1 DEF Next, AppendFails
<1>2. CASE Written!Finalize
  <2>1. Finalize /\ ~(worker = "append" /\ worker' # "append")
    BY <1>2 DEF Finalize, Written!Finalize, StopSupervised, Written!StopSupervised, Look,
              Written!Look, FinalIntent, Written!FinalIntent, FinalCheck, Written!FinalCheck,
              FinalAppend, Written!FinalAppend, FinalRelease, Written!FinalRelease, Supervise,
              Written!Supervise, Intent, Written!Intent, InFlight, Written!InFlight, Adds,
              Written!Adds, Reaping, Written!Reaping
  <2>2. QED BY <2>1 DEF Next, AppendFails
<1>3. CASE Written!GoQuiet \/ Written!KillOutside
  <2>1. (GoQuiet \/ KillOutside) /\ worker' \in {worker, "gone"}
    BY <1>3 DEF GoQuiet, Written!GoQuiet, KillOutside, Written!KillOutside, Reaping, Written!Reaping
  <2>2. QED BY <2>1 DEF Next, AppendFails
<1>4. ASSUME NEW r \in Reaper, Written!Reap(r) PROVE Next /\ ~AppendFails
  <2>1. CASE Written!Leave(r)
    BY <2>1 DEF Leave, Written!Leave, Goto, Written!Goto, Run, Written!Run, Reap, Next, AppendFails
  <2>2. CASE ~Written!Leave(r)
    <3>1. Reap(r) /\ worker' \in {worker, "gone"}
      BY <1>4, <2>2 DEF Reap, Written!Reap, Observe, Written!Observe, Judge, Written!Judge,
                ClaimRun, Written!ClaimRun, TakeOver, Written!TakeOver, HoldClosed,
                Written!HoldClosed, ReadLease, Written!ReadLease, Settle, Written!Settle,
                MarkSignalled, Written!MarkSignalled, Term, Written!Term, Kill, Written!Kill,
                Confirm, Written!Confirm, StopHarness, Written!StopHarness, RemoveClaim,
                Written!RemoveClaim, Goto, Written!Goto, Run, Written!Run, InFlight,
                Written!InFlight, Decided, Written!Decided, Reaping, Written!Reaping
    <3>2. QED BY <3>1 DEF Next, AppendFails
  <2>3. QED BY <2>1, <2>2
<1>5. ASSUME NEW c \in Cleaner, Written!Clean(c) PROVE Next /\ ~AppendFails
  <2>1. Clean(c) /\ worker' = worker
    BY <1>5 DEF Clean, Written!Clean, LookInFlight, Written!LookInFlight, ObserveProcess,
              Written!ObserveProcess, Goto, Written!Goto, Run, Written!Run, InFlight,
              Written!InFlight
  <2>2. QED BY <2>1 DEF Next, AppendFails
<1>6. ASSUME NEW x \in Reaper \cup Cleaner, Written!Finish(x) PROVE Next /\ ~AppendFails
  <2>1. Finish(x) /\ worker' = worker
    BY <1>6 DEF Finish, Written!Finish, FinishCheck, Written!FinishCheck, AppendReaped,
              Written!AppendReaped, ReleaseOrder, Written!ReleaseOrder, Goto, Written!Goto, Run,
              Written!Run, InFlight, Written!InFlight, Adds, Written!Adds
  <2>2. QED BY <2>1 DEF Next, AppendFails
<1>7. QED BY <1>1, <1>2, <1>3, <1>4, <1>5, <1>6 DEF Written!Next

(* No step changes a count of kills but to a greater one.                  *)
LEMMA KillsStep ==
  ASSUME kills \in Nat, [Next]_vars
  PROVE  kills' \in Nat
<1>1. kills' = kills \/ kills' = kills + 1
  BY DEF Next, vars, Work, WorkEnds, ReadIntent, CheckTerminal, AppendTerminal, AppendFails,
         Release, Finalize, StopSupervised, Look, FinalIntent, FinalCheck, FinalAppend,
         FinalRelease, Reap, Observe, Judge, ClaimRun, TakeOver, HoldClosed, ReadLease, Settle,
         MarkSignalled, Term, Kill, Confirm, StopHarness, RemoveClaim, Leave, Reaping, Clean,
         LookInFlight, ObserveProcess, Finish, FinishCheck, AppendReaped, ReleaseOrder, GoQuiet,
         KillOutside
<1>2. QED BY <1>1

(* The run's order has an invariant, too, and where it is one whose run    *)
(* can write its row, that row is the only one.                            *)
LivesInv ==
    /\ IInv /\ kills \in Nat
    /\ moving = "written" \/ ~WritesFail => Once

(* Every step of the run keeps it.                                         *)
LEMMA LivesInvariance ==
  ASSUME Apart = TRUE, Outside \subseteq {"worker"}
  PROVE  MCSpec => []LivesInv
<1> USE EndConstants
<1>1. MCInit => LivesInv
  <2>1. MCInit => Init /\ kills = 0 BY DEF MCInit, Init
  <2>2. QED BY <2>1, Initial DEF LivesInv
<1>2. LivesInv /\ [MCNext]_allVars => LivesInv'
  <2> SUFFICES ASSUME LivesInv, [MCNext]_allVars PROVE LivesInv'
    OBVIOUS
  <2>1. moving' = moving /\ [Next]_vars /\ (moving = "written" \/ ~WritesFail => ~AppendFails)
    <3>1. CASE OnlyEnd /\ moving = "order" /\ Next
      BY <3>1 DEF OnlyEnd, AppendFails
    <3>2. CASE OnlyEnd /\ moving = "written" /\ Written!Next
      BY <3>2, WrittenSteps DEF OnlyEnd, LivesInv, IInv
    <3>3. CASE UNCHANGED <<moving, vars>>
      BY <3>3 DEF vars, AppendFails
    <3>4. QED
      BY <3>1, <3>2, <3>3 DEF MCNext, allVars, OnlyPass, OnlyRuns, OnlyLoops
  <2>2. IInv' /\ kills' \in Nat
    BY <2>1, KillsStep, TypeStep, EndedStep, ClaimsStep, PlacesStep, StoppedStep, SignalsStep
       DEF LivesInv, IInv
  <2>3. moving = "written" \/ ~WritesFail => Once'
    BY <2>1, OnceStep DEF LivesInv, IInv
  <2>4. QED BY <2>1, <2>2, <2>3 DEF LivesInv
<1>3. QED BY <1>1, <1>2, PTL DEF MCSpec

(* What the end of an order promises, in the run (stalls.rs finish_claim,  *)
(* work_order.rs append_terminal_row).                                     *)
THEOREM LivesRecorded ==
  ASSUME Apart = TRUE, Outside \subseteq {"worker"}
  PROVE  MCSpec => []OrderEndRecorded
<1>1. LivesInv => OrderEndRecorded
  BY DEF LivesInv, IInv, Signals, Stopped, Once, OrderEndRecorded
<1>2. QED BY <1>1, LivesInvariance, PTL

(* An order whose run can write its row gets one row, however reapers, the *)
(* worker and its supervisor interleave (stalls.rs finish_claim,           *)
(* work_order.rs finalize_exited_implementer).                             *)
THEOREM LivesEndedOnce ==
  ASSUME Apart = TRUE, Outside \subseteq {"worker"}
  PROVE  MCSpec => []OrderEndedOnce
<1>1. LivesInv => OrderEndedOnce
  BY DEF LivesInv, Once, OrderEndedOnce, EndedOnce, Written!EndedOnce
<1>2. QED BY <1>1, LivesInvariance, PTL
================================================================================
