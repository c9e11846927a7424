------------------------------ MODULE ForgeProofs ------------------------------
(***************************************************************************)
(* Theorems about what Ostrom reads and writes on GitHub: the merge gate   *)
(* with the answers to what it asks (modules Gate and DecisionAnswers),    *)
(* the repair loop (Repair) and publication (Publish), for any conditions, *)
(* judges, commands, pull requests, hosts and bounds.                      *)
(***************************************************************************)
EXTENDS DecisionAnswers, FiniteSetTheorems, SequenceTheorems, TLAPS

Rec == [head : 0 .. MaxHead, results : Found, late : BOOLEAN,
        verdict : {"pass", "fail", "inconclusive"}]
Typed ==
    /\ TypeOK /\ gatelog \in Seq(Rec)
    /\ \A j \in Judge : Now(j) = "returned" => gatelog # <<>>

(* What a run of the gate has found stands: a condition of the diff passes *)
(* for the commit the run names, and without a commit no condition passes  *)
(* that changes without one.                                               *)
Stands(results, h) ==
    /\ h # NoHead => \A c \in Diff : results[c] = "pass" => truth[h] = "pass"
    /\ h = NoHead => \A c \in Condition : results[c] # "excused"
Unread(j) == Now(j) \in {"idle", "checks"}
Reads(j) ==
    /\ Stands(judging[j].results, judging[j].head)
    /\ Now(j) \in {"checks", "diff"} /\ judging[j].head # NoHead => judging[j].head = head
    /\ ~Unread(j) /\ judging[j].head = NoHead =>
          \A c \in Loose : judging[j].results[c] = "inconclusive"
    /\ Now(j) \in {"checks", "diff"} => \A c \in Diff : judging[j].results[c] = "inconclusive"

Passed(record) ==
    record.verdict = "pass" => \A c \in Condition : record.results[c] \in {"pass", "excused"}
Grounded(record) ==
    /\ Stands(record.results, record.head) /\ Passed(record)
    /\ record.head = NoHead => \A c \in Loose : record.results[c] = "inconclusive"

StandsInv ==
    /\ Typed
    /\ \A j \in Judge : Reads(j)
    /\ \A i \in DOMAIN gatelog : Grounded(gatelog[i])

(* An answer on an item decides its row.                                   *)
Given == [decision : Item \cup Judgment, verb : Verbs, about : Condition \cup {None}]
Step == {"idle", "look", "archive", "deliver", "record", "emit", "dead"}
Command == [step : Step, decision : Item \cup Judgment \cup {None}, verb : Verbs \cup {None},
            about : Condition \cup {None}]
Chosen(a) == At(a) \in {"archive", "deliver", "record", "emit"}
Decides(answer) == answer.decision \in Item => answer.verb \in {"approve", "reject", "defer"}
AnswerTyped ==
    /\ Typed /\ AnswerTypeOK
    /\ {queue, archive} \subseteq [Item -> {"none", "pending", "deferred", "approved"}]
    /\ ledger \in Seq(Given) /\ effects \in Seq(Given)
    /\ answering \in [Answerer -> Command]
    /\ \A n \in DOMAIN ledger : Decides(ledger[n])
    /\ \A a \in Answerer : Chosen(a) =>
          Answer(a) \in Given /\ Decides(Answer(a)) /\ answering[a].decision \in Asked

(* What was asked and excused: an exception of a condition is in force, or *)
(* on its way to be, only where a decision was requested about it.         *)
AskedAbout(h, c) == \E d \in requests : d.head = h /\ d.results[c] = "inconclusive"
Excusing(a) ==
    At(a) \in {"archive", "deliver"} /\ answering[a].verb = "excuse" =>
        AskedAbout(answering[a].decision.head, answering[a].about)
AskedInv ==
    /\ AnswerTyped
    /\ \A h \in 1 .. MaxHead, c \in Condition :
          exceptions[<<h, c>>] = "granted" => AskedAbout(h, c)
    /\ \A j \in Judge : \A c \in Condition :
          judging[j].results[c] = "excused" => AskedAbout(judging[j].head, c)
    /\ ExcusedWasAsked
    /\ \A a \in Answerer : Excusing(a)

(* One judge at a time: what it found is new to the journal when it says   *)
(* so, and its record is the last one until it returns.                    *)
Told(n) ==
    \A m \in DOMAIN gatelog : m < n /\ Identity(gatelog[m]) = Identity(gatelog[n]) =>
        \E k \in m .. n : gatelog[k].head = gatelog[n].head
                         /\ Identity(gatelog[k]) # Identity(gatelog[n])
Fresh(j) ==
    /\ Now(j) = "append" /\ judging[j].already = "not-judged" =>
          \A i \in LastJudged(judging[j].head) : Identity(gatelog[i]) # Identity(judging[j])
    /\ Now(j) = "returned" =>
          /\ gatelog # <<>>
          /\ Identity(gatelog[Len(gatelog)]) = Identity(judging[j])
          /\ gatelog[Len(gatelog)].late = judging[j].late
          /\ gatelog[Len(gatelog)].verdict = Verdict(j)
          /\ judging[j].already = "not-judged" => Told(Len(gatelog))
LastExists == \A i \in DOMAIN gatelog : LastJudged(gatelog[i].head) # {}
OnceInv ==
    /\ Typed /\ LastExists
    /\ \A j \in Judge : Fresh(j)
    /\ \A n \in delivered : Told(n)

(* A run that began before the merge knows of no later commit than its own *)
(* one, and a merge on a verdict has the record of that verdict.           *)
Before(j) ==
    /\ judging[j].late => merge # None
    /\ judging[j].head <= head
    /\ merge = None /\ Now(j) # "idle" /\ judging[j].head # NoHead =>
          \A i \in DOMAIN gatelog : gatelog[i].head <= judging[j].head
PassOf(h) ==
    \E i \in DOMAIN gatelog : gatelog[i].head = h /\ gatelog[i].verdict = "pass" /\ ~gatelog[i].late
Merged ==
    /\ merge.on # NoHead => PassOf(merge.on)
    /\ merge.on \notin {NoHead, merge.head} =>
          /\ \A i \in DOMAIN gatelog : gatelog[i].head = merge.head => gatelog[i].late
          /\ \A j \in Judge : Now(j) # "idle" => judging[j].late
AuditInv ==
    /\ OnceInv
    /\ \A j \in Judge : Before(j)
    /\ \A i \in DOMAIN gatelog : gatelog[i].head <= head
    /\ audit.found # "none" => merge # None
    /\ merge # None => merge.head # NoHead /\ Merged
    /\ AuditTells

(* What a command is about to record is no repetition, and is the last     *)
(* answer delivered.                                                       *)
Delivery(f) ==
    /\ f \in [DOMAIN ledger -> DOMAIN effects]
    /\ \A m, n \in DOMAIN ledger : m < n => f[m] < f[n]
    /\ \A n \in DOMAIN ledger : effects[f[n]] = ledger[n]
    /\ \A a \in Answerer : At(a) = "record" => \A n \in DOMAIN ledger : f[n] < Len(effects)
Answers(a) ==
    /\ Chosen(a) /\ At(a) # "emit" =>
          \A k \in LastAnswer(answering[a].decision) : ledger[k] # Answer(a)
    /\ At(a) = "record" => effects # <<>> /\ effects[Len(effects)] = Answer(a)
RowsShow ==
    \A i \in Item : \A k \in On(effects, i) :
        (\A n \in On(effects, i) : n <= k) => queue[i] = Effect(effects[k].verb)
AnswerInv ==
    /\ AnswerTyped /\ AnswersAlternate /\ RowsShow
    /\ \A a \in Answerer : Answers(a)
    /\ \E f \in [DOMAIN ledger -> DOMAIN effects] : Delivery(f)
--------------------------------------------------------------------------------
Run == [step : {"idle", "checks", "diff", "conclude", "history", "append", "returned"},
        head : 0 .. MaxHead, late : BOOLEAN, results : Found,
        already : {"judged", "not-judged", "cannot-tell"}]

(* A run of the gate that goes on to the next step, or ends.               *)
Becomes(j, run) == judging' = [judging EXCEPT ![j] = run]

(* What has its type is worth citing part by part.                         *)
LEMMA Types ==
  ASSUME GateConstants, Typed
  PROVE  /\ head \in 1 .. MaxHead /\ truth \in [1 .. MaxHead -> {"pass", "fail"}]
         /\ merge # None => merge \in [head : 1 .. MaxHead, on : 0 .. MaxHead]
         /\ judging \in [Judge -> Run] /\ gatelog \in Seq(Rec) /\ requests \subseteq Judgment
         /\ MaxHead \in Nat /\ 1 .. MaxHead \subseteq 0 .. MaxHead /\ NoHead \in 0 .. MaxHead
         /\ exceptions \in [(1 .. MaxHead) \X Excusable -> {"none", "granted", "revoked"}]
         /\ DOMAIN gatelog = 1 .. Len(gatelog) /\ Len(gatelog) \in Nat
         /\ \A i \in DOMAIN gatelog : gatelog[i] \in Rec
BY DEF Typed, TypeOK, Run, NoHead, GateConstants, Rec

(* The gate starts from a record of its run.                               *)
LEMMA IdleTyped == ASSUME GateConstants PROVE Idle \in Run
BY DEF Idle, Run, Found, NoHead, GateConstants

(* After the metadata, a run names the head or none, and has found nothing *)
(* about the conditions of the diff.                                       *)
LEMMA MetadataRead ==
  ASSUME GateConstants, Typed, NEW j \in Judge, ReadMetadata(j)
  PROVE  \E run \in Run :
            /\ Becomes(j, run) /\ run.step = "checks" /\ run.head \in {head, NoHead}
            /\ run.late = (merge # None) /\ run.already = "not-judged"
            /\ \A c \in Condition : run.results[c] = "inconclusive"
<1>1. PICK h \in {head, NoHead} :
         Becomes(j, [Idle EXCEPT !.step = "checks", !.head = h, !.late = merge # None])
  BY DEF ReadMetadata, Becomes
<1> DEFINE run == [Idle EXCEPT !.step = "checks", !.head = h, !.late = merge # None]
<1>2. h \in 0 .. MaxHead BY Types
<1>3. /\ run.step = "checks" /\ run.head = h /\ run.late = (merge # None)
      /\ run.already = "not-judged" /\ run.results = [c \in Condition |-> "inconclusive"]
      /\ run \in Run
  BY <1>2 DEF Idle, Run, Found
<1>4. QED BY <1>1, <1>3

(* The checks leave the conditions of the diff as they are and excuse      *)
(* none; without a commit to name they decide none.                        *)
LEMMA ChecksRead ==
  ASSUME GateConstants, Typed, NEW j \in Judge, ReadChecks(j)
  PROVE  \E run \in Run :
            /\ Becomes(j, run) /\ run.step = "diff" /\ run.head = judging[j].head
            /\ run.late = judging[j].late /\ run.already = judging[j].already
            /\ \A c \in Diff : run.results[c] = judging[j].results[c]
            /\ \A c \in Loose : run.results[c] # "excused"
            /\ run.head = NoHead => \A c \in Loose : run.results[c] = "inconclusive"
<1>1. PICK read \in [Loose -> {"pass", "fail", "inconclusive"}] :
         /\ judging[j].head = NoHead => \A c \in Loose : read[c] = "inconclusive"
         /\ judging' = [judging EXCEPT ![j].step = "diff", ![j].results = Results(j, read)]
  BY DEF ReadChecks
<1> DEFINE run == [judging[j] EXCEPT !.step = "diff", !.results = Results(j, read)]
<1>2. judging[j] \in Run /\ judging \in [Judge -> Run] BY Types
<1>3. /\ Results(j, read) \in Found
      /\ \A c \in Diff : Results(j, read)[c] = judging[j].results[c]
      /\ \A c \in Loose : Results(j, read)[c] = read[c]
  BY <1>2 DEF Results, Found, Run, Condition, GateConstants
<1>4. /\ run.step = "diff" /\ run.head = judging[j].head /\ run.late = judging[j].late
      /\ run.already = judging[j].already /\ run.results = Results(j, read) /\ run \in Run
  BY <1>2, <1>3 DEF Run
<1>5. Becomes(j, run) BY <1>1, <1>2 DEF Becomes
<1>6. /\ \A c \in Diff : run.results[c] = judging[j].results[c]
      /\ \A c \in Loose : run.results[c] # "excused"
      /\ run.head = NoHead => \A c \in Loose : run.results[c] = "inconclusive"
  BY <1>1, <1>3, <1>4
<1> HIDE DEF run
<1>7. QED BY <1>4, <1>5, <1>6

(* The diff decides its conditions by the head as it is at that moment.    *)
LEMMA DiffRead ==
  ASSUME GateConstants, Typed, NEW j \in Judge, ReadDiff(j)
  PROVE  \E run \in Run :
            /\ Becomes(j, run) /\ run.step = "conclude" /\ run.head = judging[j].head
            /\ run.late = judging[j].late /\ run.already = judging[j].already
            /\ \A c \in Diff : run.results[c] \in {truth[head], "inconclusive"}
            /\ \A c \in Loose : run.results[c] = judging[j].results[c]
<1>1. PICK result \in {truth[head], "inconclusive"} :
         judging' = [judging EXCEPT ![j].step = "conclude",
                         ![j].results = Results(j, [c \in Diff |-> result])]
  BY DEF ReadDiff
<1> DEFINE found == Results(j, [c \in Diff |-> result])
           run == [judging[j] EXCEPT !.step = "conclude", !.results = found]
<1>2. judging[j] \in Run /\ judging \in [Judge -> Run] /\ truth[head] \in {"pass", "fail"}
  BY Types
<1>3. /\ found \in Found
      /\ \A c \in Diff : found[c] = result
      /\ \A c \in Loose : found[c] = judging[j].results[c]
  BY <1>2 DEF Results, Found, Run, Condition, GateConstants
<1>4. /\ run.step = "conclude" /\ run.head = judging[j].head /\ run.late = judging[j].late
      /\ run.already = judging[j].already /\ run.results = found /\ run \in Run
  BY <1>2, <1>3 DEF Run
<1>5. Becomes(j, run) BY <1>1, <1>2 DEF Becomes
<1> HIDE DEF found, run
<1>6. /\ \A c \in Diff : run.results[c] \in {truth[head], "inconclusive"}
      /\ \A c \in Loose : run.results[c] = judging[j].results[c]
  BY <1>1, <1>3, <1>4
<1>7. QED BY <1>4, <1>5, <1>6

(* What is concluded is what was found, or excused for the named commit.   *)
LEMMA JudgedTyped ==
  ASSUME GateConstants, Typed, NEW j \in Judge
  PROVE  /\ Judged(j) \in Found
         /\ \A c \in Condition :
               \/ Judged(j)[c] = judging[j].results[c]
               \/ Judged(j)[c] = "excused" /\ Excused(c, judging[j].head)
                  /\ judging[j].results[c] \in {"fail", "inconclusive"}
<1>1. judging[j] \in Run BY Types
<1>2. judging[j].results \in Found BY <1>1 DEF Run
<1>3. QED BY <1>2 DEF Judged, Found

(* A run that concludes is done, or goes on with the judged results, about *)
(* which it may have asked.                                                *)
LEMMA Concluded ==
  ASSUME GateConstants, Typed, NEW j \in Judge, Conclude(j)
  PROVE  \/ /\ Becomes(j, Idle) /\ UNCHANGED requests
         \/ \E run \in Run :
            /\ Becomes(j, run) /\ run.step = "history" /\ run.head = judging[j].head
            /\ run.late = judging[j].late /\ run.already = judging[j].already
            /\ run.results = Judged(j)
            /\ requests' = requests \/ requests' = requests \cup {Identity(run)}
<1> DEFINE run == [judging[j] EXCEPT !.step = "history", !.results = Judged(j)]
<1>1. judging[j] \in Run /\ judging \in [Judge -> Run] /\ Judged(j) \in Found
  BY Types, JudgedTyped
<1>2. /\ run.step = "history" /\ run.head = judging[j].head /\ run.late = judging[j].late
      /\ run.already = judging[j].already /\ run.results = Judged(j) /\ run \in Run
  BY <1>1 DEF Run
<1> HIDE DEF run
<1>3. \/ Becomes(j, Idle) /\ UNCHANGED requests
      \/ Becomes(j, run) /\ (requests' = requests \/ requests' = requests \cup {Identity(run)})
  BY DEF Conclude, Becomes, run
<1>4. QED BY <1>2, <1>3

(* All that a run takes from the log is whether its judgment is there      *)
(* already.                                                                *)
LEMMA HistoryRead ==
  ASSUME GateConstants, Typed, NEW j \in Judge, ReadHistory(j)
  PROVE  \E run \in Run :
            /\ Becomes(j, run) /\ run.step = "append" /\ run.head = judging[j].head
            /\ run.late = judging[j].late /\ run.results = judging[j].results
            /\ run.already = AlreadyJudged(j)
<1> DEFINE run == [judging[j] EXCEPT !.step = "append", !.already = AlreadyJudged(j)]
<1>1. judging[j] \in Run /\ judging \in [Judge -> Run] BY Types
<1>2. AlreadyJudged(j) \in {"judged", "not-judged", "cannot-tell"} BY DEF AlreadyJudged
<1>3. /\ run.step = "append" /\ run.head = judging[j].head /\ run.late = judging[j].late
      /\ run.results = judging[j].results /\ run.already = AlreadyJudged(j) /\ run \in Run
  BY <1>1, <1>2 DEF Run
<1>4. Becomes(j, run) BY <1>1 DEF Becomes, ReadHistory
<1>5. QED BY <1>3, <1>4

(* The record of a judgment, and the journal with it.                      *)
RecordOf(j) == [head |-> judging[j].head, results |-> judging[j].results,
                late |-> judging[j].late, verdict |-> Verdict(j)]
Lengthens(record) ==
    /\ Len(gatelog') = Len(gatelog) + 1 /\ gatelog' \in Seq(Rec)
    /\ DOMAIN gatelog' = 1 .. Len(gatelog) + 1
    /\ gatelog'[Len(gatelog) + 1] = record
    /\ \A i \in DOMAIN gatelog : gatelog'[i] = gatelog[i]

(* A run appends its record to the log, or leaves the log as it is.        *)
LEMMA Appended ==
  ASSUME GateConstants, Typed, NEW j \in Judge, AppendRecord(j)
  PROVE  \/ Becomes(j, Idle) /\ UNCHANGED gatelog
         \/ /\ RecordOf(j) \in Rec /\ Lengthens(RecordOf(j)) /\ UNCHANGED torn
            /\ \E run \in Run :
                /\ Becomes(j, run) /\ run.step = "returned" /\ run.head = judging[j].head
                /\ run.late = judging[j].late /\ run.results = judging[j].results
                /\ run.already = judging[j].already
<1>1. judging[j] \in Run /\ judging \in [Judge -> Run] /\ gatelog \in Seq(Rec) BY Types
<1>2. CASE gatelog' = Append(gatelog, RecordOf(j)) /\ Goto(j, "returned") /\ UNCHANGED torn
  <2> DEFINE run == [judging[j] EXCEPT !.step = "returned"]
  <2>1. Verdict(j) \in {"pass", "fail", "inconclusive"} BY DEF Verdict, Aggregate
  <2>2. RecordOf(j) \in Rec BY <1>1, <2>1 DEF RecordOf, Rec, Run
  <2>3. Lengthens(RecordOf(j)) BY <1>1, <1>2, <2>2 DEF Lengthens
  <2>4. /\ run.step = "returned" /\ run.head = judging[j].head /\ run.late = judging[j].late
        /\ run.results = judging[j].results /\ run.already = judging[j].already /\ run \in Run
    BY <1>1 DEF Run
  <2>5. Becomes(j, run) BY <1>1, <1>2 DEF Becomes, Goto
  <2>6. QED BY <1>2, <2>2, <2>3, <2>4, <2>5
<1>3. QED BY <1>2 DEF AppendRecord, Becomes, RecordOf

(* One run of the gate goes on, and the others wait.                       *)
LEMMA BecomesTyped ==
  ASSUME GateConstants, Typed, NEW j \in Judge, NEW run \in Run, Becomes(j, run)
  PROVE  /\ judging' \in [Judge -> Run] /\ judging'[j] = run
         /\ \A k \in Judge : k # j => judging'[k] = judging[k]
<1>1. judging \in [Judge -> Run] BY Types
<1>2. QED BY <1>1 DEF Becomes

(* Every step of a run leaves a run there.                                 *)
LEMMA GateStepRuns ==
  ASSUME GateConstants, Typed, NEW j \in Judge, GateStep(j)
  PROVE  /\ \E run \in Run : Becomes(j, run)
         /\ UNCHANGED <<head, truth, exceptions>>
<1>1. UNCHANGED <<head, truth, exceptions>>
  BY DEF GateStep, ReadMetadata, ReadChecks, ReadDiff, Conclude, ReadHistory, AppendRecord,
         Merge, Deliver, Leave, worldVars
<1>2. \E run \in Run : Becomes(j, run)
  <2>1. CASE ReadMetadata(j) BY <2>1, MetadataRead
  <2>2. CASE ReadChecks(j) BY <2>2, ChecksRead
  <2>3. CASE ReadDiff(j) BY <2>3, DiffRead
  <2>4. CASE Conclude(j) BY <2>4, Concluded, IdleTyped
  <2>5. CASE ReadHistory(j) BY <2>5, HistoryRead
  <2>6. CASE AppendRecord(j) BY <2>6, Appended, IdleTyped
  <2>7. CASE Merge(j) \/ Deliver(j) \/ Leave(j)
    BY <2>7, IdleTyped DEF Merge, Deliver, Leave, Return, Becomes
  <2>8. QED BY <2>1, <2>2, <2>3, <2>4, <2>5, <2>6, <2>7 DEF GateStep
<1>3. QED BY <1>1, <1>2

(* What an answer does to the gate: it may write an exception.             *)
Excepts == \E e : \E record \in {"granted", "revoked"} :
              exceptions' = [exceptions EXCEPT ![e] = record]
Outside ==
    /\ UNCHANGED <<worldVars, gatelog, torn, requests, runs, judging, delivered, audit>>
    /\ UNCHANGED exceptions \/ Excepts

(* No step leaves the types.                                               *)
LEMMA TypedStep == ASSUME GateConstants, Typed, Next \/ Outside PROVE Typed'
<1> USE DEF GateConstants
<1>1. CASE Outside /\ UNCHANGED exceptions
  BY <1>1 DEF Outside, worldVars, Typed, TypeOK, Rec, Now
<1>2. CASE (Outside /\ Excepts) \/ ExcuseByHand
  <2>1. Excepts
    <3>1. CASE ExcuseByHand
      <4>1. PICK c \in ByHand \cap Excusable, record \in {"granted", "revoked"} :
               Except(c, head, record)
        BY <3>1 DEF ExcuseByHand
      <4>2. QED BY <4>1 DEF Except, Excepts
    <3>2. QED BY <1>2, <3>1
  <2>2. exceptions' \in [(1 .. MaxHead) \X Excusable -> {"none", "granted", "revoked"}]
    BY <2>1 DEF Typed, TypeOK, Excepts
  <2>3. UNCHANGED <<worldVars, gatelog, torn, requests, runs, judging, delivered, audit>>
    BY <1>2 DEF Outside, ExcuseByHand
  <2>4. QED BY <2>2, <2>3 DEF Typed, TypeOK, worldVars, Rec, Now
<1>3. CASE Push
  BY <1>3 DEF Push, Typed, TypeOK, Rec, Now
<1>4. CASE MergeByHand
  BY <1>4 DEF MergeByHand, Typed, TypeOK, Rec, NoHead, Now
<1>5. CASE Audit
  <2>1. audit'.floor \in {"none", "early", "late"}
    BY <1>5 DEF Audit, Floor, Typed, TypeOK
  <2>2. audit'.found \in {"none", "skipped", "clean", "excused", "fault"}
    BY <1>5 DEF Audit
  <2>3. QED BY <1>5, <2>1, <2>2 DEF Audit, Typed, TypeOK, worldVars, Rec, Now
<1>6. ASSUME NEW j \in Judge, GateStep(j) PROVE Typed'
  <2>1. judging' \in [Judge -> Run] /\ UNCHANGED <<head, truth, exceptions>>
    BY <1>6, GateStepRuns, BecomesTyped
  <2>2. merge' = None \/ merge' \in [head : 1 .. MaxHead, on : 0 .. MaxHead]
    <3>1. CASE Merge(j)
      <4>1. judging[j].head \in 0 .. MaxHead /\ head \in 1 .. MaxHead BY Types DEF Run
      <4>2. QED BY <3>1, <4>1 DEF Merge
    <3>2. CASE UNCHANGED merge BY <3>2, Types
    <3>3. QED
      BY <1>6, <3>1, <3>2 DEF GateStep, ReadMetadata, ReadChecks, ReadDiff, Conclude, ReadHistory,
         AppendRecord, Deliver, Leave, worldVars
  <2>3. gatelog' \in Seq(Rec) /\ Len(gatelog) <= Len(gatelog') /\ torn' \in BOOLEAN
    <3>1. CASE AppendRecord(j)
      <4>1. gatelog' \in Seq(Rec) /\ Len(gatelog) <= Len(gatelog')
        BY <3>1, Appended, Types DEF Lengthens
      <4>2. torn' \in BOOLEAN BY <3>1 DEF AppendRecord, Typed, TypeOK
      <4>3. QED BY <4>1, <4>2
    <3>2. CASE UNCHANGED <<gatelog, torn>> BY <3>2, Types DEF Typed, TypeOK
    <3>3. QED
      BY <1>6, <3>1, <3>2 DEF GateStep, ReadMetadata, ReadChecks, ReadDiff, Conclude, ReadHistory,
         Merge, Deliver, Leave
  <2>4. requests' \subseteq Judgment
    <3>1. CASE Conclude(j)
      <4>1. ASSUME NEW run \in Run PROVE Identity(run) \in Judgment
        BY DEF Run, Identity, Judgment
      <4>2. QED BY <3>1, <4>1, Concluded, Types
    <3>2. CASE UNCHANGED requests BY <3>2, Types
    <3>3. QED
      BY <1>6, <3>1, <3>2 DEF GateStep, ReadMetadata, ReadChecks, ReadDiff, ReadHistory,
         AppendRecord, Merge, Deliver, Leave
  <2>5. runs' \in 0 .. MaxRuns
    <3>1. CASE ReadMetadata(j) BY <3>1 DEF ReadMetadata, Typed, TypeOK
    <3>2. CASE UNCHANGED runs BY <3>2 DEF Typed, TypeOK
    <3>3. QED
      BY <1>6, <3>1, <3>2 DEF GateStep, ReadChecks, ReadDiff, Conclude, ReadHistory,
         AppendRecord, Merge, Deliver, Leave
  <2>6. delivered' \subseteq DOMAIN gatelog'
    <3>1. DOMAIN gatelog \subseteq DOMAIN gatelog'
      BY <2>3, Types
    <3>2. delivered \subseteq DOMAIN gatelog BY DEF Typed, TypeOK
    <3>3. CASE Deliver(j)
      <4>1. gatelog # <<>> BY <3>3 DEF Deliver, Typed
      <4>2. Len(gatelog) \in DOMAIN gatelog BY <4>1, Types
      <4>3. QED BY <3>1, <3>2, <3>3, <4>2 DEF Deliver
    <3>4. CASE UNCHANGED delivered BY <3>1, <3>2, <3>4
    <3>5. QED
      BY <1>6, <3>3, <3>4 DEF GateStep, ReadMetadata, ReadChecks, ReadDiff, Conclude, ReadHistory,
         AppendRecord, Merge, Leave
  <2>7. UNCHANGED audit
    BY <1>6 DEF GateStep, ReadMetadata, ReadChecks, ReadDiff, Conclude, ReadHistory, AppendRecord,
       Merge, Deliver, Leave
  <2>8. \A i \in DOMAIN gatelog' : gatelog'[i] \in Rec
    BY <2>3
  <2>9. ASSUME NEW k \in Judge, Now(k)' = "returned" PROVE gatelog' # <<>>
    <3>1. CASE AppendRecord(j)
      <4>1. CASE gatelog # <<>> BY <2>3, <4>1, Types
      <4>2. CASE gatelog = <<>>
        <5>1. Now(k) # "returned" BY <4>2 DEF Typed
        <5>2. (k = j /\ ~Becomes(j, Idle)) \/ (k # j /\ Now(k)' = Now(k))
          <6>1. CASE k # j BY <1>6, <6>1, GateStepRuns, BecomesTyped DEF Now
          <6>2. CASE k = j
            BY <2>9, <6>2, BecomesTyped, IdleTyped DEF Idle, Now
          <6>3. QED BY <6>1, <6>2
        <5>3. Lengthens(RecordOf(j)) BY <2>9, <3>1, <5>1, <5>2, Appended
        <5>4. QED BY <5>3, Types DEF Lengthens
      <4>3. QED BY <4>1, <4>2
    <3>2. CASE UNCHANGED gatelog /\ ~AppendRecord(j)
      <4>1. CASE k # j
        BY <1>6, <2>9, <3>2, <4>1, GateStepRuns, BecomesTyped DEF Typed, Now
      <4>2. CASE k = j
        <5>1. \E run \in Run : Becomes(j, run) /\ run.step # "returned"
          <6>0. Idle \in Run /\ Idle.step # "returned" BY IdleTyped DEF Idle
          <6>1. CASE ReadMetadata(j) BY <6>1, MetadataRead
          <6>2. CASE ReadChecks(j) BY <6>2, ChecksRead
          <6>3. CASE ReadDiff(j) BY <6>3, DiffRead
          <6>4. CASE Conclude(j) BY <6>0, <6>4, Concluded
          <6>5. CASE ReadHistory(j) BY <6>0, <6>5, HistoryRead
          <6>6. CASE Merge(j) \/ Deliver(j) \/ Leave(j)
            <7>1. Becomes(j, Idle) BY <6>6 DEF Merge, Deliver, Leave, Return, Becomes
            <7>2. QED BY <6>0, <7>1
          <6>7. QED BY <1>6, <3>2, <6>1, <6>2, <6>3, <6>4, <6>5, <6>6 DEF GateStep
        <5>2. QED BY <2>9, <4>2, <5>1, BecomesTyped DEF Now
      <4>3. QED BY <4>1, <4>2
    <3>3. QED
      BY <1>6, <3>1, <3>2 DEF GateStep, ReadMetadata, ReadChecks, ReadDiff, Conclude, ReadHistory,
         Merge, Deliver, Leave
  <2>10. judging' \in [Judge -> [step : {"idle", "checks", "diff", "conclude", "history", "append",
                                        "returned"},
                                 head : 0 .. MaxHead, late : BOOLEAN, results : Found,
                                 already : {"judged", "not-judged", "cannot-tell"}]]
    BY <2>1 DEF Run
  <2>11. TypeOK'
    BY <2>1, <2>2, <2>3, <2>4, <2>5, <2>6, <2>7, <2>8, <2>10 DEF Typed, TypeOK, Rec
  <2>12. QED BY <2>3, <2>9, <2>11 DEF Typed
<1>7. QED BY <1>1, <1>2, <1>3, <1>4, <1>5, <1>6 DEF Next, Outside
--------------------------------------------------------------------------------
(* A run that waits has read what it had read.                             *)
LEMMA ReadsFrame ==
  ASSUME NEW k \in Judge, Reads(k), judging'[k] = judging[k], UNCHANGED truth,
         UNCHANGED head \/ Now(k) \notin {"checks", "diff"}
  PROVE  Reads(k)'
BY DEF Reads, Stands, Unread, Now

(* A record of a journal that grows keeps its grounds.                     *)
LEMMA GroundedFrame ==
  ASSUME GateConstants, Typed, \A i \in DOMAIN gatelog : Grounded(gatelog[i]), UNCHANGED truth,
         \/ UNCHANGED gatelog
         \/ \E record : Lengthens(record) /\ Grounded(record)
  PROVE  (\A i \in DOMAIN gatelog : Grounded(gatelog[i]))'
<1>1. CASE UNCHANGED gatelog
  BY <1>1 DEF Grounded, Stands, Passed
<1>2. ASSUME NEW record, Lengthens(record), Grounded(record), NEW i \in DOMAIN gatelog'
      PROVE  Grounded(gatelog[i])'
  <2>1. i \in DOMAIN gatelog \/ i = Len(gatelog) + 1 BY <1>2, Types DEF Lengthens
  <2>2. CASE i \in DOMAIN gatelog
    BY <1>2, <2>2 DEF Lengthens, Grounded, Stands, Passed
  <2>3. CASE i = Len(gatelog) + 1
    BY <1>2, <2>3 DEF Lengthens, Grounded, Stands, Passed
  <2>4. QED BY <2>1, <2>2, <2>3
<1>3. QED BY <1>1, <1>2

(* Each step of a run reads, or concludes from, the commit the run names.  *)
LEMMA ReadsStep ==
  ASSUME GateConstants, StandsInv, NEW j \in Judge, GateStep(j)
  PROVE  Reads(j)'
<1>0. /\ Typed /\ Reads(j) /\ truth' = truth /\ head' = head /\ judging[j] \in Run
      /\ judging[j].results \in Found
  BY Types, GateStepRuns DEF StandsInv, Run
<1>1. CASE ReadMetadata(j)
  <2>1. PICK run \in Run :
            /\ Becomes(j, run) /\ run.step = "checks" /\ run.head \in {head, NoHead}
            /\ \A c \in Condition : run.results[c] = "inconclusive"
    BY <1>0, <1>1, MetadataRead
  <2>2. judging'[j] = run BY <1>0, <2>1, BecomesTyped
  <2>3. QED BY <1>0, <2>1, <2>2 DEF Reads, Stands, Unread, Now, Condition
<1>2. CASE ReadChecks(j)
  <2>1. PICK run \in Run :
            /\ Becomes(j, run) /\ run.step = "diff" /\ run.head = judging[j].head
            /\ \A c \in Diff : run.results[c] = judging[j].results[c]
            /\ \A c \in Loose : run.results[c] # "excused"
            /\ run.head = NoHead => \A c \in Loose : run.results[c] = "inconclusive"
    BY <1>0, <1>2, ChecksRead
  <2>2. judging'[j] = run BY <1>0, <2>1, BecomesTyped
  <2>3. Now(j) = "checks" BY <1>2 DEF ReadChecks
  <2>4. QED BY <1>0, <2>1, <2>2, <2>3 DEF Reads, Stands, Unread, Now, Condition
<1>3. CASE ReadDiff(j)
  <2>1. PICK run \in Run :
            /\ Becomes(j, run) /\ run.step = "conclude" /\ run.head = judging[j].head
            /\ \A c \in Diff : run.results[c] \in {truth[head], "inconclusive"}
            /\ \A c \in Loose : run.results[c] = judging[j].results[c]
    BY <1>0, <1>3, DiffRead
  <2>2. judging'[j] = run BY <1>0, <2>1, BecomesTyped
  <2>3. Now(j) = "diff" /\ truth[head] \in {"pass", "fail"} BY <1>0, <1>3, Types DEF ReadDiff
  <2>4. QED BY <1>0, <2>1, <2>2, <2>3 DEF Reads, Stands, Unread, Now, Condition
<1>4. CASE \/ Becomes(j, Idle)
  <2>1. judging'[j] = Idle BY <1>0, <1>4, IdleTyped, BecomesTyped
  <2>2. QED BY <2>1 DEF Reads, Stands, Unread, Now, Idle, Condition
<1>5. CASE \E run \in Run : /\ Becomes(j, run) /\ run.step = "history"
                            /\ run.head = judging[j].head /\ run.results = Judged(j)
                            /\ Now(j) = "conclude"
  <2>1. PICK run \in Run : /\ Becomes(j, run) /\ run.step = "history"
                           /\ run.head = judging[j].head /\ run.results = Judged(j)
    BY <1>5
  <2>2. judging'[j] = run /\ Now(j) = "conclude" BY <1>0, <1>5, <2>1, BecomesTyped
  <2>3. \A c \in Condition :
           \/ Judged(j)[c] = judging[j].results[c]
           \/ Judged(j)[c] = "excused" /\ judging[j].head # NoHead
    BY <1>0, JudgedTyped DEF Excused
  <2>4. QED BY <1>0, <2>1, <2>2, <2>3 DEF Reads, Stands, Unread, Now, Condition
<1>6. CASE \E run \in Run : /\ Becomes(j, run) /\ run.step \in {"append", "returned"}
                            /\ run.head = judging[j].head /\ run.results = judging[j].results
                            /\ Now(j) \in {"history", "append"}
  <2>1. PICK run \in Run : /\ Becomes(j, run) /\ run.step \in {"append", "returned"}
                           /\ run.head = judging[j].head /\ run.results = judging[j].results
    BY <1>6
  <2>2. judging'[j] = run /\ Now(j) \in {"history", "append"} BY <1>0, <1>6, <2>1, BecomesTyped
  <2>3. QED BY <1>0, <2>1, <2>2 DEF Reads, Stands, Unread, Now
<1>7. CASE Conclude(j)
  <2>1. Now(j) = "conclude" BY <1>7 DEF Conclude
  <2>2. QED BY <1>0, <1>4, <1>5, <1>7, <2>1, Concluded
<1>8. CASE ReadHistory(j) \/ AppendRecord(j)
  <2>1. Now(j) \in {"history", "append"} BY <1>8 DEF ReadHistory, AppendRecord
  <2>2. QED BY <1>0, <1>4, <1>6, <1>8, <2>1, HistoryRead, Appended
<1>9. CASE Merge(j) \/ Deliver(j) \/ Leave(j)
  BY <1>4, <1>9 DEF Merge, Deliver, Leave, Return, Becomes
<1>10. QED BY <1>1, <1>2, <1>3, <1>7, <1>8, <1>9 DEF GateStep

(* What a run has found when it appends has its grounds.                   *)
LEMMA RecordGrounded ==
  ASSUME GateConstants, StandsInv, NEW j \in Judge, Now(j) = "append"
  PROVE  Grounded(RecordOf(j))
<1>1. Reads(j) /\ judging[j] \in Run BY Types DEF StandsInv
<1>2. Verdict(j) = "pass" => \A c \in Condition : judging[j].results[c] \in {"pass", "excused"}
  BY <1>1 DEF Verdict, Aggregate, Run, Found
<1>3. QED BY <1>1, <1>2 DEF Grounded, RecordOf, Passed, Reads, Unread

(* What runs found stands, whatever step the gate or others take, when     *)
(* nobody pushes between the reads of a run.                               *)
LEMMA StandsStep ==
  ASSUME GateConstants, ~PushesMidRead, StandsInv, Next \/ Outside
  PROVE  StandsInv'
<1>1. Typed' /\ Typed BY TypedStep DEF StandsInv
<1>2. CASE Push
  <2>1. \A j \in Judge : Now(j) \notin {"checks", "diff"} /\ judging'[j] = judging[j]
    BY <1>2 DEF Push
  <2>2. UNCHANGED truth /\ UNCHANGED gatelog BY <1>2 DEF Push
  <2>3. QED BY <1>1, <2>1, <2>2, ReadsFrame, GroundedFrame DEF StandsInv
<1>3. CASE MergeByHand \/ ExcuseByHand \/ Audit \/ Outside
  <2>1. UNCHANGED <<truth, gatelog, head, judging>>
    BY <1>3 DEF MergeByHand, ExcuseByHand, Audit, Outside, worldVars
  <2>2. QED BY <1>1, <2>1, ReadsFrame, GroundedFrame DEF StandsInv
<1>4. ASSUME NEW j \in Judge, GateStep(j) PROVE StandsInv'
  <2>1. UNCHANGED <<head, truth>> /\ \A k \in Judge : k # j => judging'[k] = judging[k]
    BY <1>1, <1>4, GateStepRuns, BecomesTyped
  <2>2. \A k \in Judge : Reads(k)'
    BY <1>4, <2>1, ReadsStep, ReadsFrame DEF StandsInv
  <2>3. \/ UNCHANGED gatelog
        \/ \E record : Lengthens(record) /\ Grounded(record)
    <3>1. CASE AppendRecord(j)
      <4>1. Now(j) = "append" BY <3>1 DEF AppendRecord
      <4>2. QED BY <1>1, <3>1, <4>1, Appended, RecordGrounded
    <3>2. QED
      BY <1>4, <3>1 DEF GateStep, ReadMetadata, ReadChecks, ReadDiff, Conclude, ReadHistory,
         Merge, Deliver, Leave
  <2>4. QED BY <1>1, <2>1, <2>2, <2>3, GroundedFrame DEF StandsInv
<1>5. QED BY <1>2, <1>3, <1>4 DEF Next
--------------------------------------------------------------------------------
(* A list of answers that grows by one.                                    *)
LEMMA ListGrows ==
  ASSUME NEW list \in Seq(Given), NEW answer \in Given, NEW longer,
         longer = Append(list, answer)
  PROVE  /\ longer \in Seq(Given) /\ Len(longer) = Len(list) + 1 /\ Len(list) \in Nat
         /\ DOMAIN list = 1 .. Len(list) /\ DOMAIN longer = 1 .. Len(list) + 1
         /\ longer[Len(list) + 1] = answer
         /\ \A i \in DOMAIN list : longer[i] = list[i]
         /\ ToSet(longer) = ToSet(list) \cup {answer}
<1>1. /\ longer \in Seq(Given) /\ Len(longer) = Len(list) + 1 /\ Len(list) \in Nat
      /\ DOMAIN list = 1 .. Len(list) /\ DOMAIN longer = 1 .. Len(list) + 1
      /\ longer[Len(list) + 1] = answer
      /\ \A i \in DOMAIN list : longer[i] = list[i]
  OBVIOUS
<1>2. DOMAIN longer = DOMAIN list \cup {Len(list) + 1} BY <1>1
<1>3. QED BY <1>1, <1>2 DEF ToSet

(* A command goes on to a step, or is done; the others wait.               *)
Moves(a, command) ==
    /\ answering' \in [Answerer -> Command] /\ answering'[a] = command
    /\ \A b \in Answerer : b # a => answering'[b] = answering[b]

(* A command that is changed alone leaves the others waiting.              *)
LEMMA CommandMoves ==
  ASSUME AnswerTyped, NEW a \in Answerer, NEW command \in Command,
         answering' = [answering EXCEPT ![a] = command]
  PROVE  Moves(a, command)
BY DEF AnswerTyped, Moves

(* A command that proceeds keeps what it is about.                         *)
LEMMA CommandProceeds ==
  ASSUME AnswerTyped, NEW a \in Answerer, NEW step \in Step, Proceed(a, step)
  PROVE  \E command \in Command :
            /\ Moves(a, command) /\ command.step = step
            /\ command.decision = answering[a].decision /\ command.verb = answering[a].verb
            /\ command.about = answering[a].about
<1> DEFINE command == [answering[a] EXCEPT !.step = step]
<1>1. answering \in [Answerer -> Command] BY DEF AnswerTyped
<1>2. command \in Command /\ command.step = step
      /\ command.decision = answering[a].decision /\ command.verb = answering[a].verb
      /\ command.about = answering[a].about
  BY <1>1 DEF Command
<1>3. answering' = [answering EXCEPT ![a] = command] BY <1>1 DEF Proceed
<1>4. QED BY <1>2, <1>3, CommandMoves

(* A command that ends gives the lock back.                                *)
LEMMA CommandEnds ==
  ASSUME AnswerTyped, NEW a \in Answerer, End(a)
  PROVE  Moves(a, NoAnswer) /\ NoAnswer.step = "idle" /\ lock' = None
<1>1. NoAnswer \in Command /\ NoAnswer.step = "idle" BY DEF NoAnswer, Command, Step
<1>2. QED BY <1>1, CommandMoves DEF End

(* What is accepted is an answer that the decision offers, and not the one *)
(* last recorded on it.                                                    *)
LEMMA Accepted ==
  ASSUME AnswerConstants, AnswerTyped, NEW a \in Answerer, Accept(a)
  PROVE  \E command \in Command :
            /\ Moves(a, command) /\ command.step \in {"archive", "deliver"}
            /\ command.decision \in Asked /\ command.verb \in Verbs
            /\ command.decision \in Item => command.verb \in {"approve", "reject", "defer"}
            /\ command.verb = "excuse" => AskedAbout(command.decision.head, command.about)
            /\ ~Repeats(command.decision, <<command.verb, command.about>>)
<1>1. PICK d \in Asked : \E o \in Offered(d) \cup Revocable(d) :
         /\ ~Repeats(d, o)
         /\ answering' = [answering EXCEPT ![a] =
                [step |-> IF d \in Item THEN "archive" ELSE "deliver",
                 decision |-> d, verb |-> o[1], about |-> o[2]]]
  BY DEF Accept
<1>2. PICK o \in Offered(d) \cup Revocable(d) :
         /\ ~Repeats(d, o)
         /\ answering' = [answering EXCEPT ![a] =
                [step |-> IF d \in Item THEN "archive" ELSE "deliver",
                 decision |-> d, verb |-> o[1], about |-> o[2]]]
  BY <1>1
<1>3. d \in Item \cup Judgment /\ (d \notin Item => d \in requests)
  BY DEF Asked, AnswerTyped, Typed, TypeOK
<1>4. /\ o = <<o[1], o[2]>> /\ o[1] \in Verbs /\ o[2] \in Condition \cup {None}
      /\ d \in Item => o[1] \in {"approve", "reject", "defer"}
      /\ o[1] = "excuse" => d \in requests /\ d.results[o[2]] = "inconclusive"
  <2>1. CASE o \in Offered(d)
    <3>1. CASE d \in Item
      <4>1. o \in {<<"approve", None>>, <<"reject", None>>, <<"defer", None>>}
        BY <2>1, <3>1 DEF Offered
      <4>2. QED BY <3>1, <4>1 DEF Verbs
    <3>2. CASE d \notin Item
      <4>1. \/ o = <<"wait", None>> \/ o = <<"fail", None>>
            \/ \E c \in Condition : o = <<"excuse", c>> /\ d.results[c] = "inconclusive"
        BY <2>1, <3>2 DEF Offered
      <4>2. QED BY <1>3, <3>2, <4>1 DEF Verbs
    <3>3. QED BY <3>1, <3>2
  <2>2. CASE o \in Revocable(d)
    <3>1. PICK n \in DOMAIN ledger : /\ o = <<"revoke", ledger[n].about>>
                                     /\ ledger[n].decision = d /\ ledger[n].verb = "excuse"
      BY <2>2 DEF Revocable, ToSet
    <3>2. ledger[n] \in Given /\ Decides(ledger[n]) BY <3>1 DEF AnswerTyped
    <3>3. d \notin Item BY <3>1, <3>2 DEF Decides
    <3>4. QED BY <3>1, <3>2, <3>3 DEF Verbs, Given
  <2>3. QED BY <2>1, <2>2
<1> DEFINE command == [step |-> IF d \in Item THEN "archive" ELSE "deliver",
                       decision |-> d, verb |-> o[1], about |-> o[2]]
<1>5. command \in Command BY <1>3, <1>4 DEF Command, Step
<1>6. Moves(a, command) BY <1>2, <1>5, CommandMoves
<1>7. o[1] = "excuse" => AskedAbout(d.head, o[2]) BY <1>4 DEF AskedAbout
<1>8. ~Repeats(d, <<o[1], o[2]>>) BY <1>2, <1>4
<1>9. QED BY <1>4, <1>5, <1>6, <1>7, <1>8

(* A decision stays asked for, and what was asked about stays so.          *)
LEMMA AskedStays ==
  ASSUME GateConstants, Typed, Next \/ Outside
  PROVE  /\ requests \subseteq requests' /\ Asked \subseteq Asked'
         /\ \A h, c : AskedAbout(h, c) => AskedAbout(h, c)'
<1>1. requests \subseteq requests'
  <2>1. CASE Outside BY <2>1 DEF Outside
  <2>2. CASE Push \/ MergeByHand \/ ExcuseByHand \/ Audit
    BY <2>2 DEF Push, MergeByHand, ExcuseByHand, Audit
  <2>3. ASSUME NEW j \in Judge, GateStep(j) PROVE requests \subseteq requests'
    BY <2>3 DEF GateStep, ReadMetadata, ReadChecks, ReadDiff, Conclude, ReadHistory, AppendRecord,
       Merge, Deliver, Leave
  <2>4. QED BY <2>1, <2>2, <2>3 DEF Next
<1>2. QED BY <1>1 DEF Asked, AskedAbout

(* To the gate, a step of the commands is one from outside: it may grant   *)
(* or revoke an exception, and no more.                                    *)
LEMMA AnswerStepOutside ==
  ASSUME RemoveLock \/ \E a \in Answerer : TakeLock(a) \/ Accept(a) \/ Archive(a)
                          \/ DeliverAnswer(a) \/ Record(a) \/ Stop(a) \/ Kill(a)
  PROVE  Outside
<1>1. ASSUME NEW a \in Answerer, DeliverAnswer(a) PROVE Outside
  <2>1. UNCHANGED exceptions \/ Excepts
    <3>1. ASSUME NEW record \in {"granted", "revoked"},
                 Except(answering[a].about, answering[a].decision.head, record)
          PROVE  Excepts
      BY <3>1 DEF Except, Excepts
    <3>2. QED BY <1>1, <3>1 DEF DeliverAnswer, Apply
  <2>2. QED BY <1>1, <2>1 DEF DeliverAnswer, Outside
<1>2. CASE UNCHANGED gateVars BY <1>2 DEF gateVars, Outside
<1>3. QED
  BY <1>1, <1>2 DEF RemoveLock, TakeLock, Accept, Archive, Record, Stop, Kill

(* No step of a command, of the operator or of the gate leaves the types.  *)
LEMMA AnswerTypedStep ==
  ASSUME AnswerConstants, AnswerTyped, [AnswerNext]_vars
  PROVE  AnswerTyped'
<1> DEFINE Answered == RemoveLock \/ \E a \in Answerer : TakeLock(a) \/ Accept(a) \/ Archive(a)
                          \/ DeliverAnswer(a) \/ Record(a) \/ Stop(a) \/ Kill(a)
           Rows == [Item -> {"none", "pending", "deferred", "approved"}]
<1>1. Typed' /\ requests \subseteq requests' /\ Asked \subseteq Asked'
  <2>1. Next \/ Outside BY AnswerStepOutside DEF AnswerNext, vars, gateVars, Outside
  <2>2. QED BY <2>1, TypedStep, AskedStays DEF AnswerTyped, AnswerConstants
<1>2. CASE UNCHANGED answerVars
  <2>1. UNCHANGED <<lock, answering, queue, archive, ledger, effects>> BY <1>2 DEF answerVars
  <2>2. (\A a \in Answerer : Chosen(a) =>
          Answer(a) \in Given /\ Decides(Answer(a)) /\ answering[a].decision \in Asked)'
    BY <1>1, <2>1 DEF AnswerTyped, Chosen, At, Answer
  <2>3. AnswerTypeOK'
    BY <1>1, <2>1 DEF AnswerTyped, AnswerTypeOK, At, Typed
  <2>4. QED BY <1>1, <2>1, <2>2, <2>3 DEF AnswerTyped
<1>3. ASSUME NEW a \in Answerer, NEW command \in Command, Moves(a, command),
             lock' \in Answerer \cup {None},
             command.step # "idle" => lock' = a,
             \A b \in Answerer : b # a /\ At(b) # "idle" => lock' = b,
             command.step \in {"archive", "deliver", "record", "emit"} =>
                /\ command.decision \in Asked /\ command.verb \in Verbs
                /\ command.decision \in Item => command.verb \in {"approve", "reject", "defer"},
             queue' \in Rows, archive' \in Rows, UNCHANGED requests,
             ledger' \in {ledger, Append(ledger, Answer(a))},
             effects' \in {effects, Append(effects, Answer(a))},
             UNCHANGED <<ledger, effects>> \/ Chosen(a)
      PROVE  AnswerTyped'
  <2>1. Asked' = Asked BY <1>3 DEF Asked
  <2>2. Asked \subseteq Item \cup Judgment BY DEF Asked, AnswerTyped, Typed, TypeOK
  <2>3. /\ ledger' \in Seq(Given) /\ effects' \in Seq(Given)
        /\ \A n \in DOMAIN ledger' : Decides(ledger'[n])
        /\ \A answer \in ToSet(ledger') \cup ToSet(effects') :
              answer.decision \in Asked /\ answer.verb \in Verbs
    <3>1. ledger \in Seq(Given) /\ effects \in Seq(Given) BY DEF AnswerTyped
    <3>2. CASE UNCHANGED <<ledger, effects>>
      BY <3>1, <3>2 DEF AnswerTyped, AnswerTypeOK
    <3>3. CASE Chosen(a)
      <4>1. /\ Answer(a) \in Given /\ Decides(Answer(a))
            /\ Answer(a).decision \in Asked /\ Answer(a).verb \in Verbs
        BY <3>3 DEF AnswerTyped, Given, Answer
      <4>2. CASE ledger' = ledger
        <5>1. effects' = effects \/ (/\ effects' \in Seq(Given)
                                     /\ ToSet(effects') = ToSet(effects) \cup {Answer(a)})
          BY <1>3, <3>1, <4>1, ListGrows
        <5>2. QED BY <3>1, <4>1, <4>2, <5>1 DEF AnswerTyped, AnswerTypeOK
      <4>3. CASE ledger' = Append(ledger, Answer(a))
        <5>1. effects' = effects \/ (/\ effects' \in Seq(Given)
                                     /\ ToSet(effects') = ToSet(effects) \cup {Answer(a)})
          BY <1>3, <3>1, <4>1, ListGrows
        <5>2. /\ ledger' \in Seq(Given) /\ ToSet(ledger') = ToSet(ledger) \cup {Answer(a)}
              /\ DOMAIN ledger' = 1 .. Len(ledger) + 1 /\ DOMAIN ledger = 1 .. Len(ledger)
              /\ ledger'[Len(ledger) + 1] = Answer(a) /\ Len(ledger) \in Nat
              /\ \A n \in DOMAIN ledger : ledger'[n] = ledger[n]
          <6>1. ledger' \in Seq(Given) /\ ToSet(ledger') = ToSet(ledger) \cup {Answer(a)}
            BY <3>1, <4>1, <4>3, ListGrows
          <6>2. /\ DOMAIN ledger' = 1 .. Len(ledger) + 1 /\ DOMAIN ledger = 1 .. Len(ledger)
                /\ ledger'[Len(ledger) + 1] = Answer(a) /\ Len(ledger) \in Nat
            BY <3>1, <4>1, <4>3, ListGrows
          <6>3. \A n \in DOMAIN ledger : ledger'[n] = ledger[n]
            BY <3>1, <4>1, <4>3, ListGrows
          <6>4. QED BY <6>1, <6>2, <6>3
        <5>3. \A n \in DOMAIN ledger' : n \in DOMAIN ledger \/ n = Len(ledger) + 1 BY <5>2
        <5>4. \A n \in DOMAIN ledger' : Decides(ledger'[n])
          BY <4>1, <5>2, <5>3 DEF AnswerTyped
        <5>5. QED BY <3>1, <4>1, <5>1, <5>2, <5>4 DEF AnswerTyped, AnswerTypeOK
      <4>4. QED BY <1>3, <4>2, <4>3
    <3>4. QED BY <1>3, <3>2, <3>3
  <2>4. ASSUME NEW b \in Answerer
        PROVE  /\ At(b)' \in Step /\ (At(b)' # "idle" => lock' = b)
               /\ At(b)' \in {"archive", "deliver", "record", "emit"} =>
                     /\ answering'[b].verb \in Verbs /\ Answer(b)' \in Given
                     /\ Decides(Answer(b)') /\ answering'[b].decision \in Asked
    <3>1. CASE b = a
      <4>1. answering'[b] = command BY <1>3, <3>1 DEF Moves
      <4>2. command.about \in Condition \cup {None} /\ command.step \in Step BY DEF Command
      <4>3. Answer(b)' = [decision |-> command.decision, verb |-> command.verb,
                          about |-> command.about]
        BY <4>1 DEF Answer
      <4>4. At(b)' = command.step BY <4>1 DEF At
      <4>5. QED BY <1>3, <2>2, <3>1, <4>1, <4>2, <4>3, <4>4 DEF Given, Decides
    <3>2. CASE b # a
      <4>1. answering'[b] = answering[b] BY <1>3, <3>2 DEF Moves
      <4>2. Answer(b)' = Answer(b) /\ At(b)' = At(b) BY <4>1 DEF Answer, At
      <4>3. At(b) \in Step BY DEF AnswerTyped, AnswerTypeOK, Step
      <4>4. Chosen(b) => /\ Answer(b) \in Given /\ Decides(Answer(b))
                         /\ answering[b].decision \in Asked
        BY DEF AnswerTyped
      <4>5. Chosen(b) => answering[b].verb \in Verbs BY DEF AnswerTyped, AnswerTypeOK, Chosen
      <4>6. QED BY <1>3, <3>2, <4>1, <4>2, <4>3, <4>4, <4>5 DEF Chosen
    <3>3. QED BY <3>1, <3>2
  <2>5. answering' \in [Answerer -> Command] BY <1>3 DEF Moves
  <2>6. \A i \in Item :
           {queue'[i], archive'[i]} \subseteq {"none", "pending", "deferred", "approved"}
    BY <1>3
  <2>7. AnswerTypeOK'
    BY <1>1, <1>3, <2>1, <2>3, <2>4, <2>6 DEF AnswerTypeOK, Typed, Step
  <2>8. QED
    BY <1>1, <1>3, <2>1, <2>3, <2>4, <2>5, <2>7 DEF AnswerTyped, Chosen
<1>4. ASSUME NEW a \in Answerer PROVE lock = a => \A b \in Answerer : b # a => At(b) = "idle"
  BY DEF AnswerTyped, AnswerTypeOK
<1>5. queue \in Rows /\ archive \in Rows /\ lock \in Answerer \cup {None}
  BY DEF AnswerTyped, AnswerTypeOK
<1>6. ASSUME NEW a \in Answerer, At(a) # "idle", NEW step \in Step \ {"idle"}, Proceed(a, step),
             UNCHANGED <<lock, requests>>, queue' \in Rows, archive' \in Rows,
             step \in {"archive", "deliver", "record", "emit"} => Chosen(a),
             ledger' \in {ledger, Append(ledger, Answer(a))},
             effects' \in {effects, Append(effects, Answer(a))},
             UNCHANGED <<ledger, effects>> \/ Chosen(a)
      PROVE  AnswerTyped'
  <2>1. PICK command \in Command :
            /\ Moves(a, command) /\ command.step = step
            /\ command.decision = answering[a].decision /\ command.verb = answering[a].verb
            /\ command.about = answering[a].about
    BY <1>6, CommandProceeds
  <2>2. lock = a BY <1>6 DEF AnswerTyped, AnswerTypeOK
  <2>3. Chosen(a) => /\ answering[a].decision \in Asked /\ answering[a].verb \in Verbs
                     /\ answering[a].decision \in Item =>
                           answering[a].verb \in {"approve", "reject", "defer"}
    BY DEF AnswerTyped, AnswerTypeOK, Chosen, Decides, Answer
  <2>4. QED BY <1>3, <1>4, <1>6, <2>1, <2>2, <2>3
<1>7. ASSUME NEW a \in Answerer, End(a), At(a) # "idle",
             UNCHANGED <<requests, queue, archive, ledger, effects>>
      PROVE  AnswerTyped'
  <2>1. Moves(a, NoAnswer) /\ NoAnswer.step = "idle" /\ lock' = None
    BY <1>7, CommandEnds DEF AnswerTyped
  <2>2. lock = a BY <1>7 DEF AnswerTyped, AnswerTypeOK
  <2>3. NoAnswer \in Command BY DEF NoAnswer, Command, Step
  <2>4. QED BY <1>3, <1>4, <1>5, <1>7, <2>1, <2>2, <2>3
<1>8. ASSUME NEW a \in Answerer, TakeLock(a) PROVE AnswerTyped'
  <2>1. PICK command \in Command : Moves(a, command) /\ command.step = "look"
    BY <1>8, CommandProceeds DEF TakeLock, Step
  <2>2. \A b \in Answerer : At(b) = "idle"
    BY <1>8 DEF TakeLock, AnswerTyped, AnswerTypeOK, AnswerConstants
  <2>3. QED BY <1>3, <1>5, <1>8, <2>1, <2>2 DEF TakeLock, gateVars
<1>9. ASSUME NEW a \in Answerer, Accept(a) PROVE AnswerTyped'
  <2>1. PICK command \in Command :
            /\ Moves(a, command) /\ command.step \in {"archive", "deliver"}
            /\ command.decision \in Asked /\ command.verb \in Verbs
            /\ command.decision \in Item => command.verb \in {"approve", "reject", "defer"}
    BY <1>9, Accepted
  <2>2. lock = a /\ UNCHANGED <<lock, requests, queue, archive, ledger, effects>>
    BY <1>9 DEF Accept, AnswerTyped, AnswerTypeOK, gateVars
  <2>3. QED BY <1>3, <1>4, <1>5, <2>1, <2>2
<1>10. ASSUME NEW a \in Answerer, Archive(a) PROVE AnswerTyped'
  <2>1. archive' \in Rows BY <1>5, <1>10 DEF Archive
  <2>2. QED BY <1>5, <1>6, <1>10, <2>1 DEF Archive, Chosen, Step, gateVars
<1>11. ASSUME NEW a \in Answerer, DeliverAnswer(a) PROVE AnswerTyped'
  <2>1. queue' \in Rows
    <3>1. ASSUME NEW d \in Item, queue' = [queue EXCEPT ![d] = Effect(answering[a].verb)],
                 d = answering[a].decision
          PROVE  queue' \in Rows
      <4>1. answering[a].verb \in {"approve", "reject", "defer"}
        BY <1>11, <3>1 DEF DeliverAnswer, AnswerTyped, Chosen, Decides, Answer
      <4>2. QED BY <1>5, <3>1, <4>1 DEF Effect
    <3>2. QED BY <1>5, <1>11, <3>1 DEF DeliverAnswer, Apply
  <2>2. QED BY <1>5, <1>6, <1>11, <2>1 DEF DeliverAnswer, Chosen, Step
<1>12. ASSUME NEW a \in Answerer, Record(a) PROVE AnswerTyped'
  BY <1>5, <1>6, <1>12 DEF Record, Chosen, Step, gateVars
<1>13. ASSUME NEW a \in Answerer, Stop(a) PROVE AnswerTyped'
  BY <1>7, <1>13 DEF Stop, gateVars
<1>14. ASSUME NEW a \in Answerer, Kill(a) PROVE AnswerTyped'
  BY <1>5, <1>6, <1>14 DEF Kill, Step, gateVars
<1>15. CASE RemoveLock
  <2>1. lock \in Answerer BY <1>5, <1>15 DEF RemoveLock
  <2>2. QED BY <1>7, <1>15, <2>1 DEF RemoveLock, gateVars
<1>16. QED
  BY <1>2, <1>8, <1>9, <1>10, <1>11, <1>12, <1>13, <1>14, <1>15 DEF AnswerNext, vars
--------------------------------------------------------------------------------
(* A step of the gate excuses only what was asked about.                   *)
LEMMA AskedGateStep ==
  ASSUME GateConstants, AskedInv, NEW j \in Judge, GateStep(j)
  PROVE  /\ \A k \in Judge : \A c \in Condition :
              judging'[k].results[c] = "excused" => AskedAbout(judging'[k].head, c)
         /\ ExcusedWasAsked'
<1>0. /\ Typed /\ judging[j] \in Run /\ judging[j].results \in Found
      /\ \A c \in Condition : judging[j].results[c] = "excused" => AskedAbout(judging[j].head, c)
  BY Types DEF AskedInv, AnswerTyped, Run
<1>1. \E run \in Run : /\ Becomes(j, run)
                       /\ \A c \in Condition :
                             run.results[c] = "excused" => AskedAbout(run.head, c)
  <2>1. CASE ReadMetadata(j) BY <1>0, <2>1, MetadataRead
  <2>2. CASE ReadChecks(j)
    <3>1. PICK run \in Run : /\ Becomes(j, run) /\ run.head = judging[j].head
                             /\ \A c \in Diff : run.results[c] = judging[j].results[c]
                             /\ \A c \in Loose : run.results[c] # "excused"
      BY <1>0, <2>2, ChecksRead
    <3>2. QED BY <1>0, <3>1 DEF Condition
  <2>3. CASE ReadDiff(j)
    <3>1. PICK run \in Run : /\ Becomes(j, run) /\ run.head = judging[j].head
                             /\ \A c \in Diff : run.results[c] \in {truth[head], "inconclusive"}
                             /\ \A c \in Loose : run.results[c] = judging[j].results[c]
      BY <1>0, <2>3, DiffRead
    <3>2. truth[head] \in {"pass", "fail"} BY <1>0, Types
    <3>3. QED BY <1>0, <3>1, <3>2 DEF Condition
  <2>4. CASE \E run \in Run : /\ Becomes(j, run) /\ run.head = judging[j].head
                              /\ run.results = Judged(j)
    <3>1. PICK run \in Run : /\ Becomes(j, run) /\ run.head = judging[j].head
                             /\ run.results = Judged(j)
      BY <2>4
    <3>2. ASSUME NEW c \in Condition, Judged(j)[c] = "excused"
          PROVE  AskedAbout(judging[j].head, c)
      <4>1. \/ judging[j].results[c] = "excused"
            \/ Excused(c, judging[j].head)
        BY <1>0, <3>2, JudgedTyped
      <4>2. Excused(c, judging[j].head) => judging[j].head \in 1 .. MaxHead
        BY <1>0 DEF Excused, Run, NoHead, GateConstants
      <4>3. QED BY <1>0, <4>1, <4>2 DEF Excused, AskedInv
    <3>3. QED BY <3>1, <3>2
  <2>5. CASE \E run \in Run : /\ Becomes(j, run) /\ run.head = judging[j].head
                              /\ run.results = judging[j].results
    BY <1>0, <2>5
  <2>6. CASE Becomes(j, Idle)
    BY <2>6, IdleTyped DEF Idle
  <2>7. QED
    BY <1>0, <2>1, <2>2, <2>3, <2>4, <2>5, <2>6, Concluded, HistoryRead, Appended
       DEF GateStep, Merge, Deliver, Leave, Return, Becomes
<1>2. \A h, c : AskedAbout(h, c) => AskedAbout(h, c)'
  BY AskedStays DEF AskedInv, AnswerTyped, Next
<1>3. \A k \in Judge : \A c \in Condition :
         judging'[k].results[c] = "excused" => AskedAbout(judging'[k].head, c)
  BY <1>0, <1>1, BecomesTyped DEF AskedInv
<1>4. ExcusedWasAsked'
  <2>1. CASE UNCHANGED gatelog
    BY <1>2, <2>1 DEF ExcusedWasAsked, AskedInv, AskedAbout
  <2>2. CASE Lengthens(RecordOf(j))
    <3>1. ASSUME NEW i \in DOMAIN gatelog', NEW c \in Condition,
                 gatelog'[i].results[c] = "excused"
          PROVE  AskedAbout(gatelog'[i].head, c)
      <4>1. i \in DOMAIN gatelog \/ i = Len(gatelog) + 1 BY <1>0, <2>2, Types DEF Lengthens
      <4>2. CASE i \in DOMAIN gatelog
        BY <2>2, <3>1, <4>2 DEF Lengthens, ExcusedWasAsked, AskedInv, AskedAbout
      <4>3. CASE i = Len(gatelog) + 1
        BY <1>0, <2>2, <3>1, <4>3 DEF Lengthens, RecordOf
      <4>4. QED BY <4>1, <4>2, <4>3
    <3>2. \A i \in DOMAIN gatelog' : \A c \in Condition :
             gatelog'[i].results[c] = "excused" =>
                 \E d \in requests' : d.head = gatelog'[i].head /\ d.results[c] = "inconclusive"
      BY <1>2, <3>1 DEF AskedAbout
    <3>3. QED BY <3>2 DEF ExcusedWasAsked
  <2>3. QED
    BY <1>0, <2>1, <2>2, Appended DEF GateStep, ReadMetadata, ReadChecks, ReadDiff, Conclude,
       ReadHistory, Merge, Deliver, Leave
<1>5. QED BY <1>3, <1>4

(* A command that waits is still about to excuse what was asked about.     *)
LEMMA ExcusingFrame ==
  ASSUME NEW b \in Answerer, Excusing(b), answering'[b] = answering[b],
         \A h, c : AskedAbout(h, c) => AskedAbout(h, c)'
  PROVE  Excusing(b)'
BY DEF Excusing, At, AskedAbout

(* The invariant of the exceptions is inductive, when nobody grants one by *)
(* hand.                                                                   *)
LEMMA AskedStep ==
  ASSUME AnswerConstants, ByHand \cap Condition = {}, AskedInv, [AnswerNext]_vars
  PROVE  AskedInv'
<1>0. AnswerTyped /\ Typed /\ GateConstants BY DEF AskedInv, AnswerTyped, AnswerConstants
<1>1. AnswerTyped' BY <1>0, AnswerTypedStep
<1>2. \A h, c : AskedAbout(h, c) => AskedAbout(h, c)'
  <2>1. Next \/ Outside BY AnswerStepOutside DEF AnswerNext, vars, gateVars, Outside
  <2>2. QED BY <1>0, <2>1, AskedStays
<1> DEFINE Granted == \A h \in 1 .. MaxHead, c \in Condition :
                         exceptions[<<h, c>>] = "granted" => AskedAbout(h, c)
           Found2 == \A j \in Judge : \A c \in Condition :
                         judging[j].results[c] = "excused" => AskedAbout(judging[j].head, c)
<1>3. ASSUME Next \/ UNCHANGED gateVars, UNCHANGED answerVars PROVE AskedInv'
  <2>1. \A a \in Answerer : Excusing(a)'
    BY <1>2, <1>3, ExcusingFrame DEF AskedInv, answerVars
  <2>2. Granted'
    <3>1. CASE ExcuseByHand
      <4>1. PICK e \in ByHand \cap Excusable, record \in {"granted", "revoked"} :
               Except(e, head, record)
        BY <3>1 DEF ExcuseByHand
      <4>2. ASSUME NEW h \in 1 .. MaxHead, NEW c \in Condition
            PROVE  exceptions'[<<h, c>>] = exceptions[<<h, c>>]
        <5>1. exceptions \in [(1 .. MaxHead) \X Excusable -> {"none", "granted", "revoked"}]
          BY <1>0, Types
        <5>2. <<h, c>> # <<head, e>> /\ <<h, c>> \in (1 .. MaxHead) \X Excusable
          BY DEF Excusable
        <5>3. exceptions' = [exceptions EXCEPT ![<<head, e>>] = record] BY <4>1 DEF Except
        <5>4. QED BY <5>1, <5>2, <5>3
      <4>3. QED BY <1>2, <4>2 DEF AskedInv
    <3>2. CASE UNCHANGED exceptions BY <1>2, <3>2 DEF AskedInv
    <3>3. QED
      BY <1>0, <1>3, <3>1, <3>2, GateStepRuns DEF Next, Push, MergeByHand, Audit, gateVars
  <2>3. Found2' /\ ExcusedWasAsked'
    <3>1. CASE \E j \in Judge : GateStep(j)
      <4>1. PICK j \in Judge : GateStep(j) BY <3>1
      <4>2. /\ \A k \in Judge : \A c \in Condition :
                  judging'[k].results[c] = "excused" => AskedAbout(judging'[k].head, c)
            /\ ExcusedWasAsked'
        BY <1>0, <4>1, AskedGateStep
      <4>3. QED BY <1>2, <4>2 DEF AskedAbout
    <3>2. CASE UNCHANGED <<judging, gatelog>>
      <4>1. Found2' BY <1>2, <3>2 DEF AskedInv
      <4>2. ExcusedWasAsked'
        BY <1>2, <3>2 DEF AskedInv, ExcusedWasAsked, AskedAbout
      <4>3. QED BY <4>1, <4>2
    <3>3. QED
      BY <1>3, <3>1, <3>2 DEF Next, Push, MergeByHand, ExcuseByHand, Audit, gateVars
  <2>4. QED BY <1>1, <2>1, <2>2, <2>3 DEF AskedInv
<1>4. ASSUME Outside PROVE Found2' /\ ExcusedWasAsked'
  BY <1>2, <1>4 DEF Outside, AskedInv, ExcusedWasAsked, AskedAbout
<1>5. ASSUME NEW a \in Answerer, NEW command \in Command, Moves(a, command),
             command.step \in {"archive", "deliver"} /\ command.verb = "excuse" =>
                AskedAbout(command.decision.head, command.about)
      PROVE  \A b \in Answerer : Excusing(b)'
  <2>1. Excusing(a)' BY <1>2, <1>5 DEF Excusing, At, Moves, AskedAbout
  <2>2. QED BY <1>2, <1>5, <2>1, ExcusingFrame DEF AskedInv, Moves
<1>6. ASSUME UNCHANGED exceptions PROVE Granted' BY <1>2, <1>6 DEF AskedInv
<1>7. ASSUME NEW a \in Answerer, Archive(a) PROVE AskedInv'
  <2>1. PICK command \in Command :
            /\ Moves(a, command) /\ command.step = "deliver"
            /\ command.decision = answering[a].decision /\ command.verb = answering[a].verb
            /\ command.about = answering[a].about
    BY <1>0, <1>7, CommandProceeds DEF Archive, Step
  <2>2. At(a) = "archive" /\ UNCHANGED exceptions BY <1>7 DEF Archive, gateVars
  <2>3. Excusing(a) BY DEF AskedInv
  <2>4. \A b \in Answerer : Excusing(b)' BY <1>5, <2>1, <2>2, <2>3 DEF Excusing
  <2>5. QED BY <1>1, <1>4, <1>6, <1>7, <2>2, <2>4, AnswerStepOutside DEF AskedInv
<1>8. ASSUME NEW a \in Answerer, Accept(a) PROVE AskedInv'
  <2>1. PICK command \in Command :
            /\ Moves(a, command)
            /\ command.verb = "excuse" => AskedAbout(command.decision.head, command.about)
    BY <1>0, <1>8, Accepted
  <2>2. \A b \in Answerer : Excusing(b)' BY <1>5, <2>1
  <2>3. UNCHANGED exceptions BY <1>8 DEF Accept, gateVars
  <2>4. QED BY <1>1, <1>4, <1>6, <1>8, <2>2, <2>3, AnswerStepOutside DEF AskedInv
<1>9. ASSUME NEW a \in Answerer, TakeLock(a) \/ Record(a) \/ Kill(a) PROVE AskedInv'
  <2>1. \E command \in Command : Moves(a, command) /\ command.step \in {"look", "emit", "dead"}
    BY <1>0, <1>9, CommandProceeds DEF TakeLock, Record, Kill, Step
  <2>2. \A b \in Answerer : Excusing(b)' BY <1>5, <2>1
  <2>3. UNCHANGED exceptions BY <1>9 DEF TakeLock, Record, Kill, gateVars
  <2>4. QED BY <1>1, <1>4, <1>6, <1>9, <2>2, <2>3, AnswerStepOutside DEF AskedInv
<1>10. ASSUME NEW a \in Answerer, End(a), UNCHANGED exceptions, Outside PROVE AskedInv'
  <2>1. Moves(a, NoAnswer) /\ NoAnswer.step = "idle" /\ NoAnswer \in Command
    BY <1>0, <1>10, CommandEnds DEF NoAnswer, Command, Step
  <2>2. \A b \in Answerer : Excusing(b)' BY <1>5, <2>1
  <2>3. QED BY <1>1, <1>4, <1>6, <1>10, <2>2 DEF AskedInv
<1>11. ASSUME NEW a \in Answerer, Stop(a) PROVE AskedInv'
  BY <1>10, <1>11, AnswerStepOutside DEF Stop, gateVars
<1>12. CASE RemoveLock
  <2>1. lock \in Answerer BY <1>0, <1>12 DEF RemoveLock, AnswerTyped, AnswerTypeOK
  <2>2. QED BY <1>10, <1>12, <2>1, AnswerStepOutside DEF RemoveLock, gateVars
<1>13. ASSUME NEW a \in Answerer, DeliverAnswer(a) PROVE AskedInv'
  <2>1. \E command \in Command : Moves(a, command) /\ command.step = "record"
    BY <1>0, <1>13, CommandProceeds DEF DeliverAnswer, Step
  <2>2. \A b \in Answerer : Excusing(b)' BY <1>5, <2>1
  <2>3. Granted'
    <3>1. CASE UNCHANGED exceptions BY <1>6, <3>1
    <3>2. CASE Except(answering[a].about, answering[a].decision.head, "revoked")
      <4>1. exceptions \in [(1 .. MaxHead) \X Excusable -> {"none", "granted", "revoked"}]
        BY <1>0, Types
      <4>2. \A e \in (1 .. MaxHead) \X Excusable :
               exceptions'[e] = "granted" => exceptions[e] = "granted"
        BY <3>2, <4>1 DEF Except
      <4>3. \A h \in 1 .. MaxHead, c \in Condition : <<h, c>> \in (1 .. MaxHead) \X Excusable
        BY DEF Excusable
      <4>4. QED BY <1>2, <4>2, <4>3 DEF AskedInv
    <3>3. CASE /\ answering[a].verb = "excuse"
               /\ Except(answering[a].about, answering[a].decision.head, "granted")
      <4>1. exceptions \in [(1 .. MaxHead) \X Excusable -> {"none", "granted", "revoked"}]
        BY <1>0, Types
      <4>2. AskedAbout(answering[a].decision.head, answering[a].about)
        BY <1>13, <3>3 DEF DeliverAnswer, AskedInv, Excusing
      <4>3. ASSUME NEW h \in 1 .. MaxHead, NEW c \in Condition, exceptions'[<<h, c>>] = "granted"
            PROVE  AskedAbout(h, c)
        <5>1. <<h, c>> \in (1 .. MaxHead) \X Excusable BY DEF Excusable
        <5>2. CASE <<h, c>> = <<answering[a].decision.head, answering[a].about>>
          BY <4>2, <5>2
        <5>3. CASE <<h, c>> # <<answering[a].decision.head, answering[a].about>>
          BY <3>3, <4>1, <4>3, <5>1, <5>3 DEF Except, AskedInv
        <5>4. QED BY <5>2, <5>3
      <4>4. QED BY <1>2, <4>3
    <3>4. QED BY <1>13, <3>1, <3>2, <3>3 DEF DeliverAnswer, Apply
  <2>4. QED BY <1>1, <1>4, <1>13, <2>2, <2>3, AnswerStepOutside DEF AskedInv
<1>14. QED
  BY <1>3, <1>7, <1>8, <1>9, <1>11, <1>12, <1>13 DEF AnswerNext, vars
--------------------------------------------------------------------------------
(* Two records are told apart by the heads and the findings they name.     *)
LEMMA SameFinding ==
  ASSUME NEW r, NEW s, Identity(r) = Identity(s)
  PROVE  r.head = s.head /\ r.results = s.results
BY DEF Identity

(* At most one judge works on the pull request.                            *)
Alone == \A j, k \in Judge : j = k

(* A journal that does not change, or grows, keeps what was told.          *)
LEMMA ToldStays ==
  ASSUME GateConstants, Typed, NEW n \in DOMAIN gatelog, Told(n),
         \/ UNCHANGED gatelog
         \/ \E record : Lengthens(record)
  PROVE  n \in DOMAIN gatelog' /\ Told(n)'
<1>1. CASE UNCHANGED gatelog BY <1>1 DEF Told, Identity
<1>2. ASSUME NEW record, Lengthens(record) PROVE n \in DOMAIN gatelog' /\ Told(n)'
  <2>1. /\ n \in DOMAIN gatelog' /\ n \in 1 .. Len(gatelog) /\ Len(gatelog) \in Nat
        /\ DOMAIN gatelog = 1 .. Len(gatelog)
        /\ \A i \in 1 .. n : i \in DOMAIN gatelog /\ gatelog'[i] = gatelog[i]
        /\ \A i \in DOMAIN gatelog' : i < n => i \in 1 .. n
    BY <1>2, Types DEF Lengthens
  <2>2. ASSUME NEW m \in DOMAIN gatelog', m < n,
               Identity(gatelog'[m]) = Identity(gatelog'[n])
        PROVE  \E k \in m .. n : /\ gatelog'[k].head = gatelog'[n].head
                                 /\ Identity(gatelog'[k]) # Identity(gatelog'[n])
    <3>1. m \in 1 .. n /\ m \in DOMAIN gatelog /\ n \in 1 .. n BY <2>1, <2>2
    <3>2. Identity(gatelog[m]) = Identity(gatelog[n]) BY <2>1, <2>2, <3>1
    <3>3. PICK k \in m .. n : /\ gatelog[k].head = gatelog[n].head
                              /\ Identity(gatelog[k]) # Identity(gatelog[n])
      BY <2>2, <3>1, <3>2 DEF Told
    <3>4. k \in 1 .. n BY <2>1, <3>1
    <3>5. gatelog'[k] = gatelog[k] /\ gatelog'[n] = gatelog[n] BY <2>1, <3>1, <3>4
    <3>6. QED BY <3>3, <3>5
  <2>3. QED BY <2>1, <2>2 DEF Told, Identity
<1>3. QED BY <1>1, <1>2

(* The record appended is the last one of its head, and the last ones of   *)
(* the other heads stay the last ones.                                     *)
LEMMA LastExistsStays ==
  ASSUME GateConstants, Typed, LastExists,
         \/ UNCHANGED gatelog
         \/ \E record : Lengthens(record)
  PROVE  LastExists'
<1>1. CASE UNCHANGED gatelog BY <1>1 DEF LastExists, LastJudged
<1>2. ASSUME NEW record, Lengthens(record), NEW i \in DOMAIN gatelog'
      PROVE  \E k \in DOMAIN gatelog' : /\ gatelog'[k].head = gatelog'[i].head
                                        /\ \A m \in DOMAIN gatelog' :
                                              gatelog'[m].head = gatelog'[i].head => m <= k
  <2> DEFINE n == Len(gatelog)
  <2>1. /\ n \in Nat /\ DOMAIN gatelog = 1 .. n /\ DOMAIN gatelog' = 1 .. n + 1
        /\ \A m \in DOMAIN gatelog : gatelog'[m] = gatelog[m]
    BY <1>2, Types DEF Lengthens
  <2> HIDE DEF n
  <2>2. CASE gatelog'[n + 1].head = gatelog'[i].head BY <2>1, <2>2
  <2>3. CASE gatelog'[n + 1].head # gatelog'[i].head
    <3>1. i \in DOMAIN gatelog /\ gatelog'[i] = gatelog[i] BY <2>1, <2>3
    <3>2. PICK k \in LastJudged(gatelog[i].head) : TRUE BY <3>1 DEF LastExists
    <3>3. /\ k \in DOMAIN gatelog /\ gatelog[k].head = gatelog[i].head
          /\ \A m \in DOMAIN gatelog : gatelog[m].head = gatelog[i].head => m <= k
      BY <3>2 DEF LastJudged
    <3>4. k \in DOMAIN gatelog' /\ gatelog'[k].head = gatelog'[i].head BY <2>1, <3>1, <3>3
    <3>5. ASSUME NEW m \in DOMAIN gatelog', gatelog'[m].head = gatelog'[i].head PROVE m <= k
      <4>1. m \in DOMAIN gatelog BY <2>1, <2>3, <3>5
      <4>2. QED BY <2>1, <3>1, <3>3, <3>5, <4>1
    <3>6. QED BY <3>4, <3>5
  <2>4. QED BY <2>2, <2>3
<1>3. ASSUME NEW record, Lengthens(record) PROVE LastExists'
  <2>1. ASSUME NEW i \in DOMAIN gatelog' PROVE LastJudged(gatelog[i].head)' # {}
    BY <1>2, <1>3 DEF LastJudged
  <2>2. QED BY <2>1 DEF LastExists
<1>4. QED BY <1>1, <1>3

(* A new finding, once recorded, is told apart from what was recorded of   *)
(* the same kind before: another finding of its head came last.            *)
LEMMA NewIsTold ==
  ASSUME GateConstants, Typed, LastExists, NEW record, Lengthens(record),
         \A i \in LastJudged(record.head) : Identity(gatelog[i]) # Identity(record)
  PROVE  Told(Len(gatelog))'
<1> DEFINE n == Len(gatelog)
<1>1. /\ n \in Nat /\ DOMAIN gatelog = 1 .. n /\ DOMAIN gatelog' = 1 .. n + 1
      /\ gatelog'[n + 1] = record
      /\ \A m \in DOMAIN gatelog : gatelog'[m] = gatelog[m]
  BY Types DEF Lengthens
<1> HIDE DEF n
<1>2. ASSUME NEW m \in DOMAIN gatelog', m < n + 1,
             Identity(gatelog'[m]) = Identity(gatelog'[n + 1])
      PROVE  \E k \in m .. n + 1 : /\ gatelog'[k].head = gatelog'[n + 1].head
                                   /\ Identity(gatelog'[k]) # Identity(gatelog'[n + 1])
  <2>1. m \in DOMAIN gatelog /\ gatelog'[m] = gatelog[m] BY <1>1, <1>2
  <2>2. gatelog[m].head = record.head BY <1>1, <1>2, <2>1, SameFinding
  <2>3. PICK k \in LastJudged(gatelog[m].head) : TRUE BY <2>1 DEF LastExists
  <2>4. k \in DOMAIN gatelog /\ gatelog[k].head = record.head /\ m <= k
    BY <2>1, <2>2, <2>3 DEF LastJudged
  <2>5. Identity(gatelog[k]) # Identity(record) BY <2>2, <2>3
  <2>6. k \in m .. n + 1 /\ gatelog'[k] = gatelog[k] BY <1>1, <2>1, <2>4
  <2>7. QED BY <1>1, <2>4, <2>5, <2>6
<1>3. Len(gatelog') = n + 1 BY DEF Lengthens, n
<1>4. QED BY <1>2, <1>3 DEF Told, Identity
--------------------------------------------------------------------------------
(* A step of anything but the journal leaves it, or a run of the gate adds *)
(* what it found to it.                                                    *)
LEMMA JournalStep ==
  ASSUME GateConstants, Typed, Next \/ Outside
  PROVE  \/ UNCHANGED gatelog
         \/ \E j \in Judge : AppendRecord(j) /\ Lengthens(RecordOf(j)) /\ UNCHANGED torn
<1>1. CASE Outside BY <1>1 DEF Outside
<1>2. ASSUME NEW j \in Judge, AppendRecord(j)
      PROVE  UNCHANGED gatelog \/ (Lengthens(RecordOf(j)) /\ UNCHANGED torn)
  BY <1>2, Appended
<1>3. ASSUME NEW j \in Judge, GateStep(j), ~AppendRecord(j) PROVE UNCHANGED gatelog
  BY <1>3 DEF GateStep, ReadMetadata, ReadChecks, ReadDiff, Conclude, ReadHistory, Merge,
     Deliver, Leave
<1>4. QED BY <1>1, <1>2, <1>3 DEF Next, Push, MergeByHand, ExcuseByHand, Audit

(* What a run says is new is new when it comes to append it, and is told   *)
(* once it is appended.                                                    *)
LEMMA FreshStep ==
  ASSUME GateConstants, OnceInv, NEW j \in Judge, GateStep(j)
  PROVE  Fresh(j)'
<1>0. Typed /\ LastExists /\ Fresh(j) /\ judging[j] \in Run BY Types DEF OnceInv
<1>1. ASSUME NEW run \in Run, Becomes(j, run), run.step \notin {"append", "returned"}
      PROVE  Fresh(j)'
  <2>1. Now(j)' = run.step BY <1>0, <1>1, BecomesTyped DEF Now
  <2>2. QED BY <1>1, <2>1 DEF Fresh
<1>2. CASE ReadHistory(j)
  <2>1. PICK run \in Run :
            /\ Becomes(j, run) /\ run.step = "append" /\ run.head = judging[j].head
            /\ run.results = judging[j].results /\ run.already = AlreadyJudged(j)
    BY <1>0, <1>2, HistoryRead
  <2>2. judging'[j] = run BY <1>0, <2>1, BecomesTyped
  <2>3. gatelog' = gatelog BY <1>2 DEF ReadHistory
  <2>4. Identity(judging'[j]) = Identity(judging[j]) BY <2>1, <2>2 DEF Identity
  <2>5. judging'[j].already = "not-judged" =>
           \A i \in LastJudged(judging[j].head) : Identity(gatelog[i]) # Identity(judging[j])
    BY <2>1, <2>2 DEF AlreadyJudged
  <2>6. LastJudged(judging[j].head)' = LastJudged(judging[j].head)
    BY <2>1, <2>2, <2>3 DEF LastJudged
  <2>7. Now(j)' = "append" BY <2>1, <2>2 DEF Now
  <2>8. QED BY <2>3, <2>4, <2>5, <2>6, <2>7 DEF Fresh, Identity
<1>3. CASE AppendRecord(j)
  <2>1. CASE Becomes(j, Idle) BY <1>1, <2>1, IdleTyped DEF Idle
  <2>2. CASE ~Becomes(j, Idle)
    <3>1. PICK run \in Run :
              /\ Becomes(j, run) /\ run.step = "returned" /\ run.head = judging[j].head
              /\ run.late = judging[j].late /\ run.results = judging[j].results
              /\ run.already = judging[j].already
      BY <1>0, <1>3, <2>2, Appended
    <3>2. Lengthens(RecordOf(j)) BY <1>0, <1>3, <2>2, Appended
    <3>3. judging'[j] = run /\ Now(j) = "append" BY <1>0, <1>3, <3>1, BecomesTyped DEF AppendRecord
    <3>4. /\ Len(gatelog') = Len(gatelog) + 1 /\ Len(gatelog) \in Nat
          /\ gatelog'[Len(gatelog')] = RecordOf(j) /\ gatelog' # <<>>
      BY <1>0, <3>2, Types DEF Lengthens
    <3>5. Identity(RecordOf(j)) = Identity(judging[j]) /\ RecordOf(j).head = judging[j].head
      BY DEF Identity, RecordOf
    <3>6. Identity(judging'[j]) = Identity(judging[j]) BY <3>1, <3>3 DEF Identity
    <3>7. Verdict(j)' = Verdict(j) BY <3>1, <3>3 DEF Verdict, Aggregate
    <3>8. judging'[j].already = "not-judged" => Told(Len(gatelog))'
      <4>1. ASSUME judging[j].already = "not-judged",
                   NEW i \in LastJudged(RecordOf(j).head)
            PROVE  Identity(gatelog[i]) # Identity(RecordOf(j))
        BY <1>0, <3>3, <3>5, <4>1 DEF Fresh
      <4>2. QED BY <1>0, <3>1, <3>2, <3>3, <4>1, NewIsTold
    <3>9. Now(j)' = "returned" BY <3>1, <3>3 DEF Now
    <3>10. gatelog'[Len(gatelog')].late = judging'[j].late
           /\ gatelog'[Len(gatelog')].verdict = Verdict(j)'
      BY <3>1, <3>3, <3>4, <3>7 DEF RecordOf
    <3>11. Identity(gatelog'[Len(gatelog')]) = Identity(judging'[j]) BY <3>4, <3>5, <3>6
    <3>12. QED BY <3>4, <3>8, <3>9, <3>10, <3>11 DEF Fresh, Identity
  <2>3. QED BY <2>1, <2>2
<1>4. CASE ReadMetadata(j) \/ ReadChecks(j) \/ ReadDiff(j)
  BY <1>0, <1>1, <1>4, MetadataRead, ChecksRead, DiffRead
<1>5. CASE Conclude(j)
  BY <1>0, <1>1, <1>5, Concluded, IdleTyped DEF Idle
<1>6. CASE Merge(j) \/ Deliver(j) \/ Leave(j)
  BY <1>1, <1>6, IdleTyped DEF Merge, Deliver, Leave, Return, Becomes, Idle
<1>7. QED BY <1>2, <1>3, <1>4, <1>5, <1>6 DEF GateStep

(* What is delivered is told.                                              *)
LEMMA OnceStep ==
  ASSUME GateConstants, Alone, OnceInv, Next \/ Outside
  PROVE  OnceInv'
<1>1. Typed /\ Typed' BY TypedStep DEF OnceInv
<1>2. UNCHANGED gatelog \/ \E record : Lengthens(record) BY <1>1, JournalStep
<1>3. LastExists' BY <1>1, <1>2, LastExistsStays DEF OnceInv
<1>4. \A n \in delivered : Told(n)'
  <2>1. delivered \subseteq DOMAIN gatelog BY <1>1 DEF Typed, TypeOK
  <2>2. QED BY <1>1, <1>2, <2>1, ToldStays DEF OnceInv
<1>5. CASE UNCHANGED <<gatelog, judging, delivered>>
  <2>1. \A j \in Judge : Fresh(j)'
    BY <1>5 DEF OnceInv, Fresh, Now, Verdict, Told, Identity, LastJudged, Aggregate
  <2>2. QED BY <1>1, <1>3, <1>4, <1>5, <2>1 DEF OnceInv
<1>6. ASSUME NEW j \in Judge, GateStep(j) PROVE OnceInv'
  <2>1. \A k \in Judge : Fresh(k)'
    <3>1. ASSUME NEW k \in Judge PROVE Fresh(k)'
      <4>1. k = j BY DEF Alone
      <4>2. QED BY <1>6, <4>1, FreshStep
    <3>2. QED BY <3>1
  <2>2. \A n \in delivered' : Told(n)'
    <3>1. CASE Deliver(j)
      <4>1. Told(Len(gatelog)) BY <3>1 DEF Deliver, OnceInv, Fresh
      <4>2. gatelog' = gatelog /\ delivered' = delivered \cup {Len(gatelog)} BY <3>1 DEF Deliver
      <4>3. ASSUME NEW n \in delivered' PROVE Told(n)'
        <5>1. n \in delivered \/ n = Len(gatelog) BY <4>2, <4>3
        <5>2. CASE n \in delivered BY <1>4, <5>2
        <5>3. CASE n = Len(gatelog) BY <4>1, <4>2, <5>3 DEF Told, Identity
        <5>4. QED BY <5>1, <5>2, <5>3
      <4>4. QED BY <4>3
    <3>2. CASE UNCHANGED delivered BY <1>4, <3>2
    <3>3. QED
      BY <1>6, <3>1, <3>2 DEF GateStep, ReadMetadata, ReadChecks, ReadDiff, Conclude, ReadHistory,
         AppendRecord, Merge, Leave
  <2>3. QED BY <1>1, <1>3, <2>1, <2>2 DEF OnceInv
<1>7. QED BY <1>5, <1>6 DEF Next, Push, MergeByHand, ExcuseByHand, Audit, Outside

(* The journal before is kept in the journal after.                        *)
Keeps ==
    /\ DOMAIN gatelog \subseteq DOMAIN gatelog'
    /\ \A i \in DOMAIN gatelog : gatelog'[i] = gatelog[i]

(* What was read of the merge stands while the journal is only added to.   *)
LEMMA AuditFrame ==
  ASSUME GateConstants, AuditInv, OnceInv', Keeps, UNCHANGED <<head, merge, audit>>,
         ~torn' => ~torn, \A j \in Judge : Before(j)',
         \A i \in DOMAIN gatelog' : i \in DOMAIN gatelog \/
             /\ gatelog'[i].head <= head
             /\ merge # None /\ merge.on \notin {NoHead, merge.head} => gatelog'[i].late,
         \A j \in Judge : Now(j)' # "idle" /\ merge # None =>
             (Now(j) # "idle" /\ judging'[j].late = judging[j].late) \/ judging'[j].late
  PROVE  AuditInv'
<1>1. \A i \in DOMAIN gatelog' : gatelog'[i].head <= head' BY DEF AuditInv, Keeps
<1>2. ASSUME NEW h, PassOf(h) PROVE PassOf(h)' BY <1>2 DEF PassOf, Keeps
<1>3. merge' # None => merge'.head # NoHead /\ Merged'
  <2>1. ASSUME merge # None, merge.on # NoHead PROVE PassOf(merge.on)'
    BY <1>2, <2>1 DEF AuditInv, Merged
  <2>2. ASSUME merge # None, merge.on \notin {NoHead, merge.head}
        PROVE  /\ \A i \in DOMAIN gatelog' : gatelog'[i].head = merge.head => gatelog'[i].late
               /\ \A j \in Judge : Now(j)' # "idle" => judging'[j].late
    BY <2>2 DEF AuditInv, Merged, Keeps
  <2>3. merge # None => merge.head # NoHead BY DEF AuditInv
  <2>4. (merge.on # NoHead => PassOf(merge.on))' <=> (merge.on # NoHead => PassOf(merge.on)')
    OBVIOUS
  <2>5. QED BY <2>1, <2>2, <2>3 DEF Merged, PassOf
<1>4. AuditTells'
  <2>1. audit.found = "clean" =>
           \E i \in DOMAIN gatelog' : gatelog'[i].head = merge.head /\ gatelog'[i].verdict = "pass"
    BY DEF AuditInv, AuditTells, Keeps
  <2>2. merge # None /\ ~torn' /\ audit.found # "none" =>
          /\ merge.on = merge.head => audit.found = "clean"
          /\ merge.on \notin {NoHead, merge.head} => audit.found \in {"fault", "excused"}
    BY DEF AuditInv, AuditTells
  <2>3. QED BY <2>1, <2>2 DEF AuditTells
<1>5. audit'.found # "none" => merge' # None BY DEF AuditInv
<1>6. QED BY <1>1, <1>3, <1>4, <1>5 DEF AuditInv

(* Each step of a run knows of no later commit than its own one.           *)
LEMMA BeforeStep ==
  ASSUME GateConstants, AuditInv, NEW j \in Judge, GateStep(j)
  PROVE  /\ Before(j)'
         /\ Now(j)' # "idle" /\ merge # None =>
               (Now(j) # "idle" /\ judging'[j].late = judging[j].late) \/ judging'[j].late
<1>0. /\ Typed /\ judging[j] \in Run /\ Before(j) /\ head \in Nat \ {0} /\ head' = head
      /\ MaxHead \in Nat
  BY Types, GateStepRuns DEF AuditInv, OnceInv
<1> DEFINE Held == /\ Before(j)'
                   /\ Now(j)' # "idle" /\ merge # None =>
                         (Now(j) # "idle" /\ judging'[j].late = judging[j].late) \/ judging'[j].late
<1>1. CASE Becomes(j, Idle) /\ UNCHANGED gatelog
  <2>1. judging'[j] = Idle BY <1>0, <1>1, IdleTyped, BecomesTyped
  <2>2. Now(j)' = "idle" /\ ~judging'[j].late /\ judging'[j].head = 0
    BY <2>1 DEF Now, Idle, NoHead
  <2>3. QED BY <1>0, <2>2 DEF Before
<1>2. CASE ReadMetadata(j)
  <2>1. PICK run \in Run :
            /\ Becomes(j, run) /\ run.step = "checks" /\ run.head \in {head, NoHead}
            /\ run.late = (merge # None)
    BY <1>0, <1>2, MetadataRead
  <2>2. judging'[j] = run /\ Now(j)' = "checks" BY <1>0, <2>1, BecomesTyped DEF Now
  <2>3. merge' = merge /\ gatelog' = gatelog BY <1>2 DEF ReadMetadata, worldVars
  <2>4. \A i \in DOMAIN gatelog : gatelog[i].head <= head BY DEF AuditInv
  <2>5. judging'[j].late = (merge' # None) BY <2>1, <2>2, <2>3
  <2>6. judging'[j].head \in {head, 0} BY <2>1, <2>2 DEF NoHead
  <2>7. Before(j)'
    <3>1. judging'[j].head <= head' BY <1>0, <2>6
    <3>2. judging'[j].head # NoHead =>
             \A i \in DOMAIN gatelog' : gatelog'[i].head <= judging'[j].head
      BY <2>3, <2>4, <2>6 DEF NoHead
    <3>3. QED BY <2>5, <3>1, <3>2 DEF Before
  <2>8. QED BY <2>3, <2>5, <2>7
<1>3. ASSUME NEW run \in Run, Becomes(j, run), run.head = judging[j].head,
             run.late = judging[j].late, Now(j) # "idle", UNCHANGED merge,
             \/ UNCHANGED gatelog
             \/ Lengthens(RecordOf(j))
      PROVE  Held
  <2>1. judging'[j] = run BY <1>0, <1>3, BecomesTyped
  <2>2. ASSUME merge = None, judging[j].head # NoHead, NEW i \in DOMAIN gatelog'
        PROVE  gatelog'[i].head <= judging[j].head
    <3>1. CASE UNCHANGED gatelog BY <1>0, <1>3, <2>2, <3>1 DEF Before
    <3>2. CASE Lengthens(RecordOf(j))
      <4>1. i \in DOMAIN gatelog \/ i = Len(gatelog) + 1 BY <1>0, <2>2, <3>2, Types DEF Lengthens
      <4>2. CASE i \in DOMAIN gatelog BY <1>0, <1>3, <2>2, <3>2, <4>2 DEF Before, Lengthens
      <4>3. CASE i = Len(gatelog) + 1
        <5>1. gatelog'[i].head = judging[j].head BY <3>2, <4>3 DEF Lengthens, RecordOf
        <5>2. QED BY <1>0, <5>1 DEF Run
      <4>4. QED BY <4>1, <4>2, <4>3
    <3>3. QED BY <1>3, <3>1, <3>2
  <2>3. judging'[j].head = judging[j].head /\ judging'[j].late = judging[j].late BY <1>3, <2>1
  <2>4. QED BY <1>0, <1>3, <2>2, <2>3 DEF Before
<1>4. CASE ReadChecks(j) \/ ReadDiff(j) \/ ReadHistory(j)
  <2>1. Now(j) # "idle" /\ UNCHANGED <<merge, gatelog>>
    BY <1>4 DEF ReadChecks, ReadDiff, ReadHistory, worldVars
  <2>2. \E run \in Run : /\ Becomes(j, run) /\ run.head = judging[j].head
                         /\ run.late = judging[j].late
    BY <1>0, <1>4, ChecksRead, DiffRead, HistoryRead
  <2>3. QED BY <1>3, <2>1, <2>2
<1>5. CASE Conclude(j)
  <2>1. Now(j) # "idle" /\ UNCHANGED <<merge, gatelog>> BY <1>5 DEF Conclude, worldVars
  <2>2. \/ Becomes(j, Idle)
        \/ \E run \in Run : /\ Becomes(j, run) /\ run.head = judging[j].head
                            /\ run.late = judging[j].late
    BY <1>0, <1>5, Concluded
  <2>3. QED BY <1>1, <1>3, <2>1, <2>2
<1>6. CASE AppendRecord(j)
  <2>1. Now(j) # "idle" /\ UNCHANGED merge BY <1>6 DEF AppendRecord, worldVars
  <2>2. QED BY <1>0, <1>1, <1>3, <1>6, <2>1, Appended
<1>7. CASE Merge(j) \/ Deliver(j) \/ Leave(j)
  BY <1>1, <1>7 DEF Merge, Deliver, Leave, Return, Becomes
<1>8. QED BY <1>2, <1>4, <1>5, <1>6, <1>7 DEF GateStep

(* The sweep tells what was merged.                                        *)
LEMMA AuditStep ==
  ASSUME GateConstants, Alone, AuditInv, Next \/ Outside
  PROVE  AuditInv'
<1>0. Typed /\ OnceInv /\ head \in 1 .. MaxHead /\ MaxHead \in Nat
  BY Types DEF AuditInv, OnceInv
<1>1. OnceInv' BY <1>0, OnceStep
<1>2. CASE ExcuseByHand \/ Outside
  <2>1. UNCHANGED <<worldVars, gatelog, torn, judging, audit>>
    BY <1>2 DEF ExcuseByHand, Outside
  <2>2. UNCHANGED <<head, merge, gatelog, torn, judging, audit>> BY <2>1 DEF worldVars
  <2>3. QED
    BY <1>1, <2>2 DEF AuditInv, Before, Now, Merged, PassOf, AuditTells
<1>3. CASE MergeByHand
  <2>1. /\ merge = None /\ merge' = [head |-> head, on |-> NoHead]
        /\ UNCHANGED <<head, gatelog, torn, judging, audit>>
    BY <1>3 DEF MergeByHand
  <2>2. audit.found = "none" BY <2>1 DEF AuditInv
  <2>3. \A j \in Judge : Before(j)' BY <2>1 DEF AuditInv, Before, Now
  <2>4. AuditTells' BY <2>1, <2>2 DEF AuditTells
  <2>5. merge'.head # NoHead /\ Merged' BY <1>0, <2>1 DEF Merged, NoHead
  <2>6. QED BY <1>1, <2>1, <2>2, <2>3, <2>4, <2>5 DEF AuditInv
<1>4. CASE Push
  <2>1. /\ merge = None /\ merge' = merge /\ head' = head + 1
        /\ UNCHANGED <<gatelog, torn, judging, audit>>
    BY <1>4 DEF Push
  <2>2. audit.found = "none" BY <2>1 DEF AuditInv
  <2>3. \A j \in Judge : Before(j)'
    <3>1. \A j \in Judge : judging[j].head \in Nat /\ Before(j)
      <4>1. ASSUME NEW j \in Judge PROVE judging[j].head \in Nat
        <5>1. judging[j] \in Run BY <1>0, Types
        <5>2. QED BY <1>0, <5>1 DEF Run
      <4>2. QED BY <4>1 DEF AuditInv
    <3>2. QED BY <1>0, <2>1, <3>1 DEF Before, Now
  <2>4. AuditTells' BY <2>1, <2>2 DEF AuditTells
  <2>5. \A i \in DOMAIN gatelog' : gatelog'[i].head <= head'
    <3>1. \A i \in DOMAIN gatelog : gatelog[i].head \in Nat BY <1>0, Types DEF Rec
    <3>2. QED BY <1>0, <2>1, <3>1 DEF AuditInv
  <2>6. QED BY <1>1, <2>1, <2>2, <2>3, <2>4, <2>5 DEF AuditInv
<1>5. CASE Audit
  <2>1. merge # None /\ UNCHANGED <<head, merge, gatelog, torn, judging>>
    BY <1>5 DEF Audit, worldVars
  <2>2. \A i \in DOMAIN gatelog' : gatelog'[i].head <= head'
    BY <2>1 DEF AuditInv
  <2>3. \A j \in Judge : Before(j)' BY <2>1 DEF AuditInv, Before, Now
  <2>4. Merged' /\ merge'.head # NoHead BY <2>1 DEF AuditInv, Merged, PassOf, Now
  <2>5. AuditTells'
    <3>1. audit'.found = IF Unfounded THEN "skipped"
                         ELSE IF TimelyPass THEN "clean"
                         ELSE IF Excused("merge_protocol", merge.head) THEN "excused"
                         ELSE "fault"
      BY <1>5 DEF Audit
    <3>2. audit'.found = "clean" => TimelyPass BY <3>1
    <3>3. TimelyPass => \E i \in DOMAIN gatelog : /\ gatelog[i].head = merge.head
                                                  /\ gatelog[i].verdict = "pass"
      BY DEF TimelyPass, Evidence
    <3>4. ASSUME ~torn, merge.on # NoHead PROVE ~Unfounded
      <4>1. PICK i \in DOMAIN gatelog : /\ gatelog[i].head = merge.on
                                        /\ gatelog[i].verdict = "pass" /\ ~gatelog[i].late
        BY <2>1, <3>4 DEF AuditInv, Merged, PassOf
      <4>2. i \in Evidence BY <3>4, <4>1 DEF Evidence
      <4>3. Floor = "early" BY <3>4, <4>1, <4>2 DEF Floor
      <4>4. QED BY <4>3 DEF Unfounded
    <3>5. ASSUME ~torn, merge.on = merge.head PROVE audit'.found = "clean"
      <4>1. merge.on # NoHead BY <2>1, <3>5 DEF AuditInv
      <4>2. PassOf(merge.head) BY <2>1, <3>5, <4>1 DEF AuditInv, Merged
      <4>3. TimelyPass BY <3>5, <4>1, <4>2 DEF TimelyPass, PassOf, Evidence
      <4>4. QED BY <3>1, <3>4, <3>5, <4>1, <4>3
    <3>6. ASSUME ~torn, merge.on \notin {NoHead, merge.head}
          PROVE  audit'.found \in {"fault", "excused"}
      <4>1. ~TimelyPass BY <2>1, <3>6 DEF AuditInv, Merged, TimelyPass, Evidence
      <4>2. QED BY <3>1, <3>4, <3>6, <4>1
    <3>7. QED BY <2>1, <3>2, <3>3, <3>5, <3>6 DEF AuditTells
  <2>6. QED BY <1>1, <2>1, <2>2, <2>3, <2>4, <2>5 DEF AuditInv
<1>6. ASSUME NEW j \in Judge, GateStep(j) PROVE AuditInv'
  <2>1. \A k \in Judge : k = j BY DEF Alone
  <2>2. Before(j)' BY <1>6, BeforeStep
  <2>3. head' = head BY <1>0, <1>6, GateStepRuns
  <2>4. UNCHANGED audit
    BY <1>6 DEF GateStep, ReadMetadata, ReadChecks, ReadDiff, Conclude, ReadHistory, AppendRecord,
       Merge, Deliver, Leave
  <2>5. CASE Merge(j)
    <3>1. /\ merge = None /\ merge' = [head |-> head, on |-> judging[j].head]
          /\ UNCHANGED <<gatelog, torn>> /\ Now(j) = "returned" /\ Verdict(j) = "pass"
          /\ Becomes(j, Idle)
      BY <2>5 DEF Merge, Return, Becomes
    <3>2. audit.found = "none" BY <3>1 DEF AuditInv
    <3>3. AuditTells' BY <2>4, <3>2 DEF AuditTells
    <3>4. Now(j)' = "idle" BY <1>0, <3>1, IdleTyped, BecomesTyped DEF Now, Idle
    <3>5. Fresh(j) /\ Before(j) BY DEF AuditInv, OnceInv
    <3>6. /\ gatelog # <<>> /\ Identity(gatelog[Len(gatelog)]) = Identity(judging[j])
          /\ gatelog[Len(gatelog)].late = judging[j].late
          /\ gatelog[Len(gatelog)].verdict = "pass"
      BY <3>1, <3>5 DEF Fresh
    <3>7. gatelog[Len(gatelog)].head = judging[j].head BY <3>6, SameFinding
    <3>8. Len(gatelog) \in DOMAIN gatelog BY <1>0, <3>6, Types
    <3>9. ~judging[j].late BY <3>1, <3>5 DEF Before
    <3>10. ASSUME judging[j].head \notin {NoHead, head}, NEW i \in DOMAIN gatelog'
           PROVE  gatelog'[i].head # head
      <4>1. gatelog[i].head <= judging[j].head BY <3>1, <3>5, <3>10 DEF Before
      <4>2. judging[j].head <= head /\ judging[j].head # head BY <3>5, <3>10 DEF Before
      <4>3. judging[j].head \in Nat /\ gatelog[i].head \in Nat
        BY <1>0, <3>1, <3>10, Types DEF Run, Rec
      <4>4. QED BY <1>0, <3>1, <4>1, <4>2, <4>3
    <3>11. Merged' /\ merge'.head # NoHead
      <4>1. merge'.head = head /\ merge'.on = judging[j].head BY <3>1
      <4>2. (merge.on # NoHead => PassOf(merge.on))' BY <3>1, <3>6, <3>7, <3>8, <3>9 DEF PassOf
      <4>3. merge'.on \notin {NoHead, merge'.head} =>
              /\ \A i \in DOMAIN gatelog' : gatelog'[i].head = merge'.head => gatelog'[i].late
              /\ \A k \in Judge : Now(k)' # "idle" => judging'[k].late
        BY <2>1, <3>4, <3>10, <4>1
      <4>4. merge'.head # NoHead BY <1>0, <4>1 DEF NoHead
      <4>5. QED BY <4>2, <4>3, <4>4 DEF Merged
    <3>12. \A i \in DOMAIN gatelog' : gatelog'[i].head <= head'
      BY <2>3, <3>1 DEF AuditInv
    <3>13. \A k \in Judge : Before(k)' BY <2>1, <2>2
    <3>14. QED BY <1>1, <2>4, <3>2, <3>3, <3>11, <3>12, <3>13 DEF AuditInv
  <2>6. CASE ~Merge(j)
    <3>1. UNCHANGED merge
      BY <1>6, <2>6 DEF GateStep, ReadMetadata, ReadChecks, ReadDiff, Conclude, ReadHistory,
         AppendRecord, Deliver, Leave, worldVars
    <3>2. /\ Keeps /\ (~torn' => ~torn)
          /\ \A i \in DOMAIN gatelog' : i \in DOMAIN gatelog \/
               /\ gatelog'[i].head <= head
               /\ merge # None /\ merge.on \notin {NoHead, merge.head} => gatelog'[i].late
      <4>1. CASE AppendRecord(j) /\ Lengthens(RecordOf(j))
        <5>1. ~torn' => ~torn BY <4>1 DEF AppendRecord
        <5>2. Before(j) /\ Now(j) = "append" BY <4>1 DEF AuditInv, AppendRecord
        <5>3. /\ RecordOf(j).head <= head
              /\ merge # None /\ merge.on \notin {NoHead, merge.head} => RecordOf(j).late
          BY <5>2 DEF Before, AuditInv, Merged, RecordOf
        <5>4. \A i \in DOMAIN gatelog' : i \in DOMAIN gatelog \/ gatelog'[i] = RecordOf(j)
          BY <1>0, <4>1, Types DEF Lengthens
        <5>5. Keeps BY <1>0, <4>1, Types DEF Lengthens, Keeps
        <5>6. QED BY <5>1, <5>2, <5>3, <5>4, <5>5
      <4>2. CASE UNCHANGED gatelog
        <5>1. ~torn' => ~torn
          BY <1>6 DEF GateStep, ReadMetadata, ReadChecks, ReadDiff, Conclude, ReadHistory,
             AppendRecord, Merge, Deliver, Leave
        <5>2. QED BY <4>2, <5>1 DEF Keeps
      <4>3. QED
        <5>1. CASE AppendRecord(j) BY <1>0, <4>1, <4>2, <5>1, Appended
        <5>2. CASE ~AppendRecord(j)
          BY <1>6, <4>2, <5>2 DEF GateStep, ReadMetadata, ReadChecks, ReadDiff, Conclude,
             ReadHistory, Merge, Deliver, Leave
        <5>3. QED BY <5>1, <5>2
    <3>3. \A k \in Judge :
             /\ Before(k)'
             /\ Now(k)' # "idle" /\ merge # None =>
                   (Now(k) # "idle" /\ judging'[k].late = judging[k].late) \/ judging'[k].late
      BY <1>6, <2>1, BeforeStep
    <3>4. QED BY <1>1, <2>3, <2>4, <3>1, <3>2, <3>3, AuditFrame
  <2>7. QED BY <2>5, <2>6
<1>7. QED BY <1>2, <1>3, <1>4, <1>5, <1>6 DEF Next
--------------------------------------------------------------------------------
(* A row whose answers stay shows them still.                              *)
LEMMA RowsStay ==
  ASSUME RowsShow, UNCHANGED <<queue, effects>>
  PROVE  RowsShow'
<1>1. \A i \in Item : \A k \in On(effects, i) :
         (\A m \in On(effects, i) : m <= k) => queue'[i] = Effect(effects'[k].verb)
  BY DEF RowsShow
<1>2. \A i \in Item : On(effects, i) = On(effects', i) OBVIOUS
<1>3. \A i \in Item : \A k \in On(effects', i) :
         (\A m \in On(effects', i) : m <= k) => queue'[i] = Effect(effects'[k].verb)
  BY <1>1, <1>2
<1>4. QED BY <1>3 DEF RowsShow, On, Effect

(* While nothing is delivered or recorded, the answers stand as they are.  *)
LEMMA AnswerFrame ==
  ASSUME AnswerInv, AnswerTyped', UNCHANGED <<queue, ledger, effects>>,
         NEW a \in Answerer, \A b \in Answerer : b # a => answering'[b] = answering[b],
         Chosen(a)' /\ At(a)' # "emit" =>
             \A k \in LastAnswer(answering'[a].decision) : ledger[k] # Answer(a)',
         At(a)' # "record"
  PROVE  AnswerInv'
<1>1. AnswersAlternate' BY DEF AnswerInv, AnswersAlternate
<1>2. RowsShow' BY RowsStay DEF AnswerInv
<1>3. \A b \in Answerer : Answers(b)'
  <2>1. ASSUME NEW b \in Answerer, b # a PROVE Answers(b)'
    BY <2>1 DEF AnswerInv, Answers, Chosen, At, Answer, LastAnswer, On
  <2>2. Answers(a)' BY DEF Answers, LastAnswer, On
  <2>3. QED BY <2>1, <2>2
<1>4. (\E f \in [DOMAIN ledger -> DOMAIN effects] : Delivery(f))'
  <2>1. PICK f \in [DOMAIN ledger -> DOMAIN effects] : Delivery(f) BY DEF AnswerInv
  <2>2. \A b \in Answerer : At(b)' = "record" => At(b) = "record"
    BY DEF At
  <2>3. Delivery(f)' BY <2>1, <2>2 DEF Delivery
  <2>4. QED BY <2>1, <2>3
<1>5. QED BY <1>1, <1>2, <1>3, <1>4 DEF AnswerInv

(* What is delivered shows in its row, and is delivered last.              *)
LEMMA Delivered ==
  ASSUME AnswerConstants, AnswerInv, AnswerTyped', NEW a \in Answerer, DeliverAnswer(a)
  PROVE  AnswerInv'
<1> DEFINE d == answering[a].decision
           n == Len(effects)
<1>0. /\ AnswerTyped /\ Answer(a) \in Given /\ Decides(Answer(a)) /\ At(a) = "deliver"
      /\ ledger' = ledger /\ Answer(a).decision = d /\ Answer(a).verb = answering[a].verb
  BY DEF AnswerInv, AnswerTyped, DeliverAnswer, Chosen, Answer
<1>1. /\ Len(effects') = n + 1 /\ n \in Nat /\ DOMAIN effects = 1 .. n
      /\ DOMAIN effects' = 1 .. n + 1 /\ effects'[n + 1] = Answer(a)
      /\ \A i \in DOMAIN effects : effects'[i] = effects[i]
  <2>1. effects \in Seq(Given) /\ effects' = Append(effects, Answer(a))
    BY <1>0 DEF AnswerTyped, DeliverAnswer
  <2>2. QED BY <1>0, <2>1, ListGrows
<1>2. PICK command \in Command :
         /\ Moves(a, command) /\ command.step = "record" /\ command.decision = d
         /\ command.verb = answering[a].verb /\ command.about = answering[a].about
  BY <1>0, CommandProceeds DEF DeliverAnswer, Step
<1>3. answering'[a] = command /\ At(a)' = "record" /\ Answer(a)' = Answer(a)
  BY <1>2 DEF Moves, At, Answer
<1>4. \A b \in Answerer : b # a => At(b)' = "idle"
  <2>1. ASSUME NEW b \in Answerer, b # a PROVE At(b) = "idle"
    BY <1>0, <2>1 DEF AnswerTyped, AnswerTypeOK
  <2>2. QED BY <1>2, <2>1 DEF Moves, At
<1> HIDE DEF n, d
<1>5. AnswersAlternate' BY <1>0 DEF AnswerInv, AnswersAlternate
<1>6. ASSUME NEW i \in Item, NEW k \in DOMAIN effects', effects'[k].decision = i,
             \A m \in DOMAIN effects' : effects'[m].decision = i => m <= k
      PROVE  queue'[i] = Effect(effects'[k].verb)
  <2>1. CASE i = d
    <3>1. n + 1 \in DOMAIN effects' /\ effects'[n + 1].decision = i BY <1>0, <1>1, <2>1
    <3>2. k = n + 1 BY <1>1, <1>6, <3>1
    <3>3. effects'[k].verb = answering[a].verb BY <1>0, <1>1, <3>2
    <3>4. answering[a].verb \in {"approve", "reject", "defer"}
      BY <1>0, <2>1 DEF Decides
    <3>5. queue' = [queue EXCEPT ![i] = Effect(answering[a].verb)]
      BY <2>1, <3>4 DEF DeliverAnswer, Apply, d
    <3>6. queue \in [Item -> {"none", "pending", "deferred", "approved"}]
      BY <1>0 DEF AnswerTyped
    <3>7. QED BY <3>3, <3>5, <3>6
  <2>2. CASE i # d
    <3>1. k # n + 1 BY <1>0, <1>1, <1>6, <2>2
    <3>2. k \in DOMAIN effects /\ effects'[k] = effects[k] BY <1>1, <3>1
    <3>3. \A m \in DOMAIN effects : effects[m].decision = i => m <= k
      BY <1>1, <1>6
    <3>4. queue[i] = Effect(effects[k].verb)
      BY <1>6, <3>2, <3>3 DEF AnswerInv, RowsShow, On
    <3>5. queue'[i] = queue[i]
      <4>1. queue \in [Item -> {"none", "pending", "deferred", "approved"}]
        BY <1>0 DEF AnswerTyped
      <4>2. queue' = queue \/ queue' = [queue EXCEPT ![d] = Effect(answering[a].verb)]
        BY DEF DeliverAnswer, Apply, d
      <4>3. QED BY <2>2, <4>1, <4>2
    <3>6. QED BY <3>2, <3>4, <3>5
  <2>3. QED BY <2>1, <2>2
<1>7. RowsShow'
  <2>1. \A i \in Item : \A k \in On(effects', i) :
           (\A m \in On(effects', i) : m <= k) => queue'[i] = Effect(effects'[k].verb)
    BY <1>6 DEF On
  <2>2. QED BY <2>1 DEF RowsShow, On, Effect
<1>8. \A b \in Answerer : Answers(b)'
  <2>1. ASSUME NEW b \in Answerer, b # a PROVE Answers(b)'
    BY <1>4, <2>1 DEF Answers, Chosen
  <2>2. \A k \in LastAnswer(answering[a].decision) : ledger[k] # Answer(a)
    BY <1>0 DEF AnswerInv, Answers, Chosen
  <2>3. LastAnswer(answering[a].decision)' = LastAnswer(answering[a].decision)
    BY <1>0, <1>2, <1>3 DEF LastAnswer, On, d
  <2>4. effects' # <<>> /\ effects'[Len(effects')] = Answer(a)' BY <1>1, <1>3
  <2>5. Answers(a)' BY <1>0, <1>3, <2>2, <2>3, <2>4 DEF Answers
  <2>6. QED BY <2>1, <2>5
<1>9. (\E f \in [DOMAIN ledger -> DOMAIN effects] : Delivery(f))'
  <2>1. PICK f \in [DOMAIN ledger -> DOMAIN effects] : Delivery(f) BY DEF AnswerInv
  <2>2. f \in [DOMAIN ledger' -> DOMAIN effects'] BY <1>0, <1>1, <2>1
  <2>3. \A m \in DOMAIN ledger' : f[m] < Len(effects')
    BY <1>0, <1>1, <2>1
  <2>4. \A m \in DOMAIN ledger' : effects'[f[m]] = ledger'[m]
    BY <1>0, <1>1, <2>1 DEF Delivery
  <2>5. Delivery(f)' BY <1>0, <2>1, <2>2, <2>3, <2>4 DEF Delivery
  <2>6. QED BY <2>2, <2>5
<1>10. QED BY <1>5, <1>7, <1>8, <1>9 DEF AnswerInv

(* What is recorded was delivered last, and is no repetition.              *)
LEMMA Recorded ==
  ASSUME AnswerConstants, AnswerInv, AnswerTyped', NEW a \in Answerer, Record(a)
  PROVE  AnswerInv'
<1> DEFINE n == Len(ledger)
<1>0. /\ AnswerTyped /\ Answer(a) \in Given /\ At(a) = "record"
      /\ effects' = effects /\ queue' = queue
      /\ \A k \in LastAnswer(answering[a].decision) : ledger[k] # Answer(a)
      /\ effects # <<>> /\ effects[Len(effects)] = Answer(a)
      /\ Answer(a).decision = answering[a].decision
  BY DEF AnswerInv, AnswerTyped, Record, Chosen, Answers, Answer
<1>1. /\ n \in Nat /\ DOMAIN ledger = 1 .. n
      /\ DOMAIN ledger' = 1 .. n + 1 /\ ledger'[n + 1] = Answer(a)
      /\ \A i \in DOMAIN ledger : ledger'[i] = ledger[i]
  <2>1. ledger \in Seq(Given) /\ ledger' = Append(ledger, Answer(a))
    BY <1>0 DEF AnswerTyped, Record
  <2>2. QED BY <1>0, <2>1, ListGrows
<1>2. PICK command \in Command : Moves(a, command) /\ command.step = "emit"
  BY <1>0, CommandProceeds DEF Record, Step
<1>3. At(a)' = "emit" BY <1>2 DEF Moves, At
<1>4. \A b \in Answerer : b # a => At(b)' = "idle"
  <2>1. ASSUME NEW b \in Answerer, b # a PROVE At(b) = "idle"
    BY <1>0, <2>1 DEF AnswerTyped, AnswerTypeOK
  <2>2. QED BY <1>2, <2>1 DEF Moves, At
<1>5. \A b \in Answerer : Answers(b)'
  BY <1>3, <1>4 DEF Answers, Chosen
<1>6. RowsShow' BY <1>0, RowsStay DEF AnswerInv
<1> HIDE DEF n
<1>7. ASSUME NEW l \in DOMAIN ledger', NEW m \in DOMAIN ledger', l < m,
             ledger'[l].decision = ledger'[m].decision,
             \A k \in l + 1 .. m - 1 : ledger'[k].decision # ledger'[m].decision
      PROVE  ledger'[l] # ledger'[m]
  <2>1. l \in DOMAIN ledger /\ ledger'[l] = ledger[l] BY <1>1, <1>7
  <2>2. CASE m = n + 1
    <3>1. ledger[l].decision = answering[a].decision BY <1>0, <1>1, <1>7, <2>1, <2>2
    <3>2. ASSUME NEW k \in DOMAIN ledger, ledger[k].decision = answering[a].decision
          PROVE  k <= l
      <4>1. ledger'[k].decision = ledger'[m].decision BY <1>0, <1>1, <2>2, <3>2
      <4>2. k \in Nat /\ l \in Nat /\ k < m BY <1>1, <2>1, <2>2, <3>2
      <4>3. k \notin l + 1 .. m - 1 BY <1>7, <4>1
      <4>4. QED BY <1>1, <2>2, <4>2, <4>3
    <3>3. l \in LastAnswer(answering[a].decision) BY <2>1, <3>1, <3>2 DEF LastAnswer, On
    <3>4. QED BY <1>0, <1>1, <2>1, <2>2, <3>3
  <2>3. CASE m # n + 1
    <3>1. m \in DOMAIN ledger /\ ledger'[m] = ledger[m] BY <1>1, <2>3
    <3>2. \A k \in l + 1 .. m - 1 : ledger[k].decision # ledger[m].decision
      <4>1. ASSUME NEW k \in l + 1 .. m - 1 PROVE ledger[k].decision # ledger[m].decision
        <5>1. k \in DOMAIN ledger BY <1>1, <2>1, <3>1
        <5>2. QED BY <1>1, <1>7, <3>1, <5>1
      <4>2. QED BY <4>1
    <3>3. QED BY <1>7, <2>1, <3>1, <3>2 DEF AnswerInv, AnswersAlternate
  <2>4. QED BY <2>2, <2>3
<1>8. AnswersAlternate' BY <1>7 DEF AnswersAlternate
<1>9. (\E f \in [DOMAIN ledger -> DOMAIN effects] : Delivery(f))'
  <2>1. PICK f \in [DOMAIN ledger -> DOMAIN effects] : Delivery(f) BY DEF AnswerInv
  <2>0. PICK g : g = [i \in DOMAIN ledger' |-> IF i = n + 1 THEN Len(effects) ELSE f[i]]
    OBVIOUS
  <2>2. /\ Len(effects) \in DOMAIN effects /\ DOMAIN effects = 1 .. Len(effects)
        /\ Len(effects) \in Nat
    <3>1. effects \in Seq(Given) BY <1>0 DEF AnswerTyped
    <3>2. QED BY <1>0, <3>1
  <2>3. \A i \in DOMAIN ledger : f[i] \in DOMAIN effects /\ f[i] < Len(effects)
    BY <1>0, <2>1 DEF Delivery
  <2>4. \A i \in DOMAIN ledger' : i \in DOMAIN ledger \/ i = n + 1 BY <1>1
  <2>5. /\ g[n + 1] = Len(effects) /\ n + 1 \in DOMAIN ledger'
        /\ \A i \in DOMAIN ledger : i # n + 1 /\ i \in DOMAIN ledger' /\ g[i] = f[i]
    BY <1>1, <2>0
  <2>6. g \in [DOMAIN ledger' -> DOMAIN effects']
    BY <1>0, <2>0, <2>2, <2>3, <2>4, <2>5
  <2>7. ASSUME NEW l \in DOMAIN ledger', NEW m \in DOMAIN ledger', l < m PROVE g[l] < g[m]
    <3>1. l \in DOMAIN ledger BY <1>1, <2>7
    <3>2. CASE m = n + 1 BY <2>3, <2>5, <3>1, <3>2
    <3>3. CASE m \in DOMAIN ledger BY <2>1, <2>5, <2>7, <3>1, <3>3 DEF Delivery
    <3>4. QED BY <2>4, <3>2, <3>3
  <2>8. ASSUME NEW i \in DOMAIN ledger' PROVE effects'[g[i]] = ledger'[i]
    <3>1. CASE i = n + 1 BY <1>0, <1>1, <2>5, <3>1
    <3>2. CASE i \in DOMAIN ledger BY <1>0, <1>1, <2>1, <2>5, <3>2 DEF Delivery
    <3>3. QED BY <2>4, <3>1, <3>2
  <2>9. \A b \in Answerer : At(b)' # "record" BY <1>3, <1>4
  <2>10. Delivery(g)' BY <2>6, <2>7, <2>8, <2>9 DEF Delivery
  <2>11. QED BY <2>6, <2>10
<1>10. QED BY <1>5, <1>6, <1>8, <1>9 DEF AnswerInv

(* No step of a command, of the operator or of the gate breaks this.       *)
LEMMA AnswerStep ==
  ASSUME AnswerConstants, AnswerInv, [AnswerNext]_vars
  PROVE  AnswerInv'
<1>0. AnswerTyped /\ AnswerTyped' BY AnswerTypedStep DEF AnswerInv
<1>1. CASE UNCHANGED answerVars
  <2>1. UNCHANGED <<answering, queue, ledger, effects>> BY <1>1 DEF answerVars
  <2>2. \A b \in Answerer : Answers(b)'
    BY <2>1 DEF AnswerInv, Answers, Chosen, At, Answer, LastAnswer, On
  <2>3. RowsShow' /\ AnswersAlternate'
    BY <2>1, RowsStay DEF AnswerInv, AnswersAlternate
  <2>4. (\E f \in [DOMAIN ledger -> DOMAIN effects] : Delivery(f))'
    BY <2>1 DEF AnswerInv, Delivery, At
  <2>5. QED BY <1>0, <2>2, <2>3, <2>4 DEF AnswerInv
<1>2. ASSUME NEW a \in Answerer, NEW command \in Command, Moves(a, command),
             command.step \notin {"archive", "deliver", "record"},
             UNCHANGED <<queue, ledger, effects>>
      PROVE  AnswerInv'
  <2>1. At(a)' = command.step BY <1>2 DEF Moves, At
  <2>2. \A b \in Answerer : b # a => answering'[b] = answering[b] BY <1>2 DEF Moves
  <2>3. ~(Chosen(a)' /\ At(a)' # "emit") /\ At(a)' # "record" BY <1>2, <2>1 DEF Chosen
  <2>4. QED BY <1>0, <1>2, <2>2, <2>3, AnswerFrame
<1>3. ASSUME NEW a \in Answerer, TakeLock(a) \/ Kill(a) PROVE AnswerInv'
  <2>1. \E command \in Command : Moves(a, command) /\ command.step \in {"look", "dead"}
    BY <1>0, <1>3, CommandProceeds DEF TakeLock, Kill, Step
  <2>2. UNCHANGED <<queue, ledger, effects>> BY <1>3 DEF TakeLock, Kill
  <2>3. QED BY <1>2, <2>1, <2>2
<1>4. ASSUME NEW a \in Answerer, End(a), UNCHANGED <<queue, ledger, effects>> PROVE AnswerInv'
  <2>1. Moves(a, NoAnswer) /\ NoAnswer.step = "idle" BY <1>0, <1>4, CommandEnds
  <2>2. NoAnswer \in Command BY DEF NoAnswer, Command, Step
  <2>3. QED BY <1>2, <1>4, <2>1, <2>2
<1>5. ASSUME NEW a \in Answerer, Accept(a) PROVE AnswerInv'
  <2>1. PICK command \in Command :
           /\ Moves(a, command) /\ command.step \in {"archive", "deliver"}
           /\ ~Repeats(command.decision, <<command.verb, command.about>>)
    BY <1>0, <1>5, Accepted
  <2>2. answering'[a] = command /\ \A b \in Answerer : b # a => answering'[b] = answering[b]
    BY <2>1 DEF Moves
  <2>3. UNCHANGED <<queue, ledger, effects>> BY <1>5 DEF Accept
  <2>4. Answer(a)' = [decision |-> command.decision, verb |-> command.verb,
                      about |-> command.about]
    BY <2>2 DEF Answer
  <2>5. \A k \in LastAnswer(command.decision) : ledger[k] # Answer(a)'
    <3>1. ASSUME NEW k \in LastAnswer(command.decision), ledger[k] = Answer(a)' PROVE FALSE
      <4>1. <<command.verb, command.about>> = <<ledger[k].verb, ledger[k].about>>
        BY <2>4, <3>1
      <4>2. QED BY <2>1, <4>1 DEF Repeats
    <3>2. QED BY <3>1
  <2>6. At(a)' # "record" BY <2>1, <2>2 DEF At
  <2>7. \A k \in LastAnswer(answering'[a].decision) : ledger[k] # Answer(a)' BY <2>2, <2>5
  <2>8. QED BY <1>0, <2>2, <2>3, <2>6, <2>7, AnswerFrame
<1>6. ASSUME NEW a \in Answerer, Archive(a) PROVE AnswerInv'
  <2>1. PICK command \in Command :
           /\ Moves(a, command) /\ command.step = "deliver"
           /\ command.decision = answering[a].decision
           /\ command.verb = answering[a].verb /\ command.about = answering[a].about
    BY <1>0, <1>6, CommandProceeds DEF Archive, Step
  <2>2. answering'[a] = command /\ \A b \in Answerer : b # a => answering'[b] = answering[b]
    BY <2>1 DEF Moves
  <2>3. At(a) = "archive" /\ UNCHANGED <<queue, ledger, effects>> BY <1>6 DEF Archive
  <2>4. Answer(a)' = Answer(a) BY <2>1, <2>2 DEF Answer
  <2>5. \A k \in LastAnswer(answering'[a].decision) : ledger[k] # Answer(a)'
    BY <2>1, <2>2, <2>3, <2>4 DEF AnswerInv, Answers, Chosen
  <2>6. At(a)' # "record" BY <2>1, <2>2 DEF At
  <2>7. QED BY <1>0, <2>2, <2>3, <2>5, <2>6, AnswerFrame
<1>7. ASSUME NEW a \in Answerer, Stop(a) PROVE AnswerInv' BY <1>4, <1>7 DEF Stop
<1>8. CASE RemoveLock
  <2>1. lock \in Answerer BY <1>0, <1>8 DEF RemoveLock, AnswerTyped, AnswerTypeOK
  <2>2. QED BY <1>4, <1>8, <2>1 DEF RemoveLock
<1>9. QED
  BY <1>0, <1>1, <1>3, <1>5, <1>6, <1>7, <1>8, Delivered, Recorded
     DEF AnswerNext, vars
--------------------------------------------------------------------------------
(* Nothing is judged, answered or recorded at first.                       *)
LEMMA InitTyped == ASSUME AnswerConstants, AnswerInit PROVE AnswerTyped
<1>1. GateConstants /\ MaxHead \in Nat \ {0} /\ MaxRuns \in Nat
  BY DEF AnswerConstants, GateConstants
<1>2. Idle \in Run /\ Idle.step = "idle" BY <1>1, IdleTyped DEF Idle
<1>3. judging \in [Judge -> Run] /\ \A j \in Judge : Now(j) = "idle"
  BY <1>2 DEF AnswerInit, Init, Now
<1>4. gatelog = <<>> /\ ledger = <<>> /\ effects = <<>> BY DEF AnswerInit, Init
<1>5. TypeOK
  <2>1. /\ head \in 1 .. MaxHead /\ runs \in 0 .. MaxRuns /\ merge = None /\ torn \in BOOLEAN
        /\ truth \in [1 .. MaxHead -> {"pass", "fail"}]
        /\ requests \subseteq Judgment /\ delivered \subseteq DOMAIN gatelog
        /\ audit.found = "none" /\ audit.floor = "none"
    <3>1. head \in 1 .. MaxHead /\ runs \in 0 .. MaxRuns BY <1>1 DEF AnswerInit, Init
    <3>2. merge = None /\ torn \in BOOLEAN /\ truth \in [1 .. MaxHead -> {"pass", "fail"}]
      BY DEF AnswerInit, Init
    <3>3. requests \subseteq Judgment /\ delivered \subseteq DOMAIN gatelog
      BY DEF AnswerInit, Init
    <3>4. audit.found = "none" /\ audit.floor = "none" BY DEF AnswerInit, Init
    <3>5. QED BY <3>1, <3>2, <3>3, <3>4
  <2>2. exceptions \in [(1 .. MaxHead) \X Excusable -> {"none", "granted", "revoked"}]
    BY DEF AnswerInit, Init
  <2>3. \A i \in DOMAIN gatelog : gatelog[i] \in Rec BY <1>4
  <2>4. judging \in [Judge -> [step : {"idle", "checks", "diff", "conclude", "history", "append",
                                      "returned"},
                               head : 0 .. MaxHead, late : BOOLEAN, results : Found,
                               already : {"judged", "not-judged", "cannot-tell"}]]
    BY <1>3 DEF Run
  <2>5. QED BY <2>1, <2>2, <2>3, <2>4 DEF TypeOK, Rec
<1>6. Typed BY <1>3, <1>4, <1>5 DEF Typed
<1>7. NoAnswer \in Command /\ NoAnswer.step = "idle" BY DEF NoAnswer, Command, Step
<1>8. answering \in [Answerer -> Command] /\ \A a \in Answerer : At(a) = "idle"
  BY <1>7 DEF AnswerInit, At
<1>9. {queue, archive} \subseteq [Item -> {"none", "pending", "deferred", "approved"}]
  BY DEF AnswerInit
<1>10. ToSet(ledger) = {} /\ ToSet(effects) = {} BY <1>4 DEF ToSet
<1>11. AnswerTypeOK
  <2>1. \A i \in Item : {queue[i], archive[i]} \subseteq {"none", "pending", "deferred", "approved"}
    BY <1>9
  <2>2. lock = None BY DEF AnswerInit
  <2>3. QED BY <1>5, <1>8, <1>10, <2>1, <2>2 DEF AnswerTypeOK
<1>12. QED
  BY <1>4, <1>6, <1>8, <1>9, <1>11 DEF AnswerTyped, Chosen

(* The invariants hold at first.                                           *)
LEMMA InitInvs ==
  ASSUME AnswerConstants, AnswerInit
  PROVE  StandsInv /\ AskedInv /\ AuditInv /\ AnswerInv
<1>1. AnswerTyped /\ Typed /\ MaxHead \in Nat \ {0}
  BY InitTyped DEF AnswerTyped, AnswerConstants, GateConstants
<1>2. /\ gatelog = <<>> /\ ledger = <<>> /\ effects = <<>> /\ delivered = {} /\ merge = None
      /\ head = 1 /\ audit.found = "none"
  BY DEF AnswerInit, Init
<1>3. \A j \in Judge : /\ judging[j] = Idle /\ Now(j) = "idle" /\ judging[j].head = NoHead
                       /\ judging[j].late = FALSE
                       /\ \A c \in Condition : judging[j].results[c] = "inconclusive"
  BY DEF AnswerInit, Init, Idle, Now
<1>4. \A a \in Answerer : At(a) = "idle" BY DEF AnswerInit, At, NoAnswer
<1>5. StandsInv
  <2>1. \A j \in Judge : Reads(j) BY <1>3 DEF Reads, Stands, Unread, Condition
  <2>2. QED BY <1>1, <1>2, <2>1 DEF StandsInv
<1>6. AskedInv
  <2>1. ASSUME NEW h \in 1 .. MaxHead, NEW c \in Condition PROVE exceptions[<<h, c>>] = "none"
    <3>1. <<h, c>> \in (1 .. MaxHead) \X Excusable BY DEF Excusable
    <3>2. QED BY <3>1 DEF AnswerInit, Init
  <2>2. \A a \in Answerer : Excusing(a) BY <1>4 DEF Excusing
  <2>3. ExcusedWasAsked BY <1>2 DEF ExcusedWasAsked
  <2>4. QED BY <1>1, <1>3, <2>1, <2>2, <2>3 DEF AskedInv
<1>7. AuditInv
  <2>1. OnceInv BY <1>1, <1>2, <1>3 DEF OnceInv, LastExists, Fresh
  <2>2. \A j \in Judge : Before(j)
    <3>1. ASSUME NEW j \in Judge PROVE judging[j].head <= head
      BY <1>2, <1>3 DEF NoHead
    <3>2. QED BY <1>2, <1>3, <3>1 DEF Before
  <2>3. AuditTells BY <1>2 DEF AuditTells
  <2>4. QED BY <1>2, <2>1, <2>2, <2>3 DEF AuditInv
<1>8. AnswerInv
  <2>1. AnswersAlternate BY <1>2 DEF AnswersAlternate
  <2>2. RowsShow BY <1>2 DEF RowsShow, On
  <2>3. \A a \in Answerer : Answers(a) BY <1>4 DEF Answers, Chosen
  <2>4. \E f \in [DOMAIN ledger -> DOMAIN effects] : Delivery(f)
    <3>1. DOMAIN ledger = {} BY <1>2
    <3>2. PICK f : f = [i \in DOMAIN ledger |-> i] OBVIOUS
    <3>3. f \in [DOMAIN ledger -> DOMAIN effects] BY <3>1, <3>2
    <3>4. QED BY <3>1, <3>3 DEF Delivery
  <2>5. QED BY <1>1, <2>1, <2>2, <2>3, <2>4 DEF AnswerInv
<1>9. QED BY <1>5, <1>6, <1>7, <1>8

(* The commands and the operator are outside of the gate.                  *)
LEMMA GateOrOutside == ASSUME [AnswerNext]_vars PROVE Next \/ Outside
BY AnswerStepOutside DEF AnswerNext, vars, gateVars, Outside
--------------------------------------------------------------------------------
(* AnswerTypeOK: no step of the gate, of a command or of the operator      *)
(* leaves the types, and a command at work holds the lock.                 *)
THEOREM AnswerTyping == ASSUME AnswerConstants PROVE AnswerSpec => []AnswerTypeOK
<1>1. AnswerInit => AnswerTyped BY InitTyped
<1>2. AnswerTyped /\ [AnswerNext]_vars => AnswerTyped' BY AnswerTypedStep
<1>3. AnswerTyped => AnswerTypeOK BY DEF AnswerTyped
<1>4. QED BY <1>1, <1>2, <1>3, PTL DEF AnswerSpec

(* PassStandsOnItsHead: however many runs of the gate overlap and are      *)
(* killed, a pass names the commit it judged, while nothing is pushed      *)
(* between the reads of a run and some condition changes without a commit. *)
THEOREM PassStands ==
  ASSUME AnswerConstants, ~PushesMidRead, Loose # {}
  PROVE  AnswerSpec => []PassStandsOnItsHead
<1>0. GateConstants BY DEF AnswerConstants
<1>1. AnswerInit => StandsInv BY InitInvs
<1>2. StandsInv /\ [AnswerNext]_vars => StandsInv' BY <1>0, StandsStep, GateOrOutside
<1>3. StandsInv => PassStandsOnItsHead
  <2>1. ASSUME StandsInv, NEW i \in DOMAIN gatelog, gatelog[i].verdict = "pass"
        PROVE  /\ gatelog[i].head \in DOMAIN truth
               /\ \A c \in Diff :
                     gatelog[i].results[c] = "excused" \/ truth[gatelog[i].head] = "pass"
    <3>1. Grounded(gatelog[i]) /\ gatelog[i] \in Rec /\ Typed BY <1>0, <2>1, Types DEF StandsInv
    <3>2. \A c \in Condition : gatelog[i].results[c] \in {"pass", "excused"}
      BY <2>1, <3>1 DEF Grounded, Passed
    <3>3. gatelog[i].head # NoHead BY <3>1, <3>2 DEF Grounded, Condition
    <3>4. gatelog[i].head \in 1 .. MaxHead BY <1>0, <3>1, <3>3 DEF Rec, NoHead, GateConstants
    <3>5. DOMAIN truth = 1 .. MaxHead BY <1>0, <3>1, Types
    <3>6. QED BY <3>1, <3>2, <3>3, <3>4, <3>5 DEF Grounded, Stands, Condition
  <2>2. QED BY <2>1 DEF PassStandsOnItsHead
<1>4. QED BY <1>1, <1>2, <1>3, PTL DEF AnswerSpec

(* ExcusedWasAsked: a condition is excused only for the head whose         *)
(* judgment asked about it, while nobody writes an exception of it by hand.*)
THEOREM ExcusedAsked ==
  ASSUME AnswerConstants, ByHand \cap Condition = {}
  PROVE  AnswerSpec => []ExcusedWasAsked
<1>1. AnswerInit => AskedInv BY InitInvs
<1>2. AskedInv /\ [AnswerNext]_vars => AskedInv' BY AskedStep
<1>3. AskedInv => ExcusedWasAsked BY DEF AskedInv
<1>4. QED BY <1>1, <1>2, <1>3, PTL DEF AnswerSpec

(* DeliveredOnce and AuditTells: one run of the gate at a time delivers a  *)
(* judgment again only after another of its head, however it is stopped    *)
(* and the journal torn; and the sweep tells what was merged.              *)
THEOREM OneJudge ==
  ASSUME AnswerConstants, Alone
  PROVE  AnswerSpec => [](DeliveredOnce /\ AuditTells)
<1>0. GateConstants BY DEF AnswerConstants
<1>1. AnswerInit => AuditInv BY InitInvs
<1>2. AuditInv /\ [AnswerNext]_vars => AuditInv' BY <1>0, AuditStep, GateOrOutside
<1>3. AuditInv => DeliveredOnce
  <2>1. ASSUME AuditInv, NEW m \in delivered, NEW n \in delivered, m < n,
               Identity(gatelog[m]) = Identity(gatelog[n])
        PROVE  \E k \in m .. n : /\ gatelog[k].head = gatelog[n].head
                                 /\ Identity(gatelog[k]) # Identity(gatelog[n])
    <3>1. m \in DOMAIN gatelog BY <2>1 DEF AuditInv, OnceInv, Typed, TypeOK
    <3>2. Told(n) BY <2>1 DEF AuditInv, OnceInv
    <3>3. QED BY <2>1, <3>1, <3>2 DEF Told
  <2>2. QED BY <2>1 DEF DeliveredOnce
<1>4. AuditInv => AuditTells BY DEF AuditInv
<1>5. QED BY <1>1, <1>2, <1>3, <1>4, PTL DEF AnswerSpec

(* AnswersAlternate and RecordedTookEffect: whoever answers, whatever is   *)
(* killed and fails, no answer is recorded twice in a row, and what is     *)
(* recorded was delivered, and shows until more is delivered.              *)
THEOREM AnswersTold ==
  ASSUME AnswerConstants
  PROVE  AnswerSpec => [](AnswersAlternate /\ RecordedTookEffect)
<1>1. AnswerInit => AnswerInv BY InitInvs
<1>2. AnswerInv /\ [AnswerNext]_vars => AnswerInv' BY AnswerStep
<1>3. AnswerInv => RecordedTookEffect
  <2>1. SUFFICES ASSUME AnswerInv PROVE RecordedTookEffect OBVIOUS
  <2>2. PICK f \in [DOMAIN ledger -> DOMAIN effects] : Delivery(f) BY <2>1 DEF AnswerInv
  <2>3. ASSUME NEW i \in Item, NEW n \in LastAnswer(i), queue[i] # Effect(ledger[n].verb)
        PROVE  \E k \in On(effects, i) : k > f[n]
    <3>1. n \in DOMAIN ledger /\ ledger[n].decision = i BY <2>3 DEF LastAnswer, On
    <3>2. f[n] \in DOMAIN effects /\ effects[f[n]] = ledger[n] BY <2>2, <3>1 DEF Delivery
    <3>3. f[n] \in On(effects, i) BY <3>1, <3>2 DEF On
    <3>4. ~\A k \in On(effects, i) : k <= f[n] BY <2>1, <2>3, <3>2, <3>3 DEF AnswerInv, RowsShow
    <3>5. PICK k \in On(effects, i) : ~(k <= f[n]) BY <3>4
    <3>6. DOMAIN effects = 1 .. Len(effects) /\ Len(effects) \in Nat
      <4>1. effects \in Seq(Given) BY <2>1 DEF AnswerInv, AnswerTyped
      <4>2. QED BY <4>1
    <3>7. k > f[n] BY <3>2, <3>5, <3>6 DEF On
    <3>8. QED BY <3>7
  <2>4. QED BY <2>2, <2>3 DEF RecordedTookEffect, Delivery
<1>4. AnswerInv => AnswersAlternate BY DEF AnswerInv
<1>5. QED BY <1>1, <1>2, <1>3, <1>4, PTL DEF AnswerSpec
--------------------------------------------------------------------------------
(* The repair loop, for any number of pull requests, attempts and versions *)
(* of the base branch.                                                     *)
CONSTANTS Pull, Cap, BaseStays, BranchStays, MaxBase, MaxOwn
VARIABLES branch, open, checks, tip, tipChecks, clash, scanPc, seen, todo, candidates, attempted,
          fetched, repaired
Scan == INSTANCE Repair WITH base <- tip, baseChecks <- tipChecks, pc <- scanPc

(* A head has at most one merge commit for each version of the base, next  *)
(* to those that were pushed to it.                                        *)
Grown(commit) == commit.own <= MaxOwn + commit.base

Bounded ==
    /\ \A p \in Pull : branch[p] # None => Grown(branch[p])
    /\ \A p \in Pull : seen[p] # None => Grown(seen[p].head)
    /\ fetched # None => Grown(fetched.head)
    /\ repaired <= attempted /\ (fetched # None => repaired < attempted)

(* What is yet to be read, attempted or merged has been listed, and what   *)
(* was admitted keeps the reason it was admitted for.                      *)
Listed ==
    /\ todo # {} \/ candidates # {} \/ fetched # None => scanPc = "classify"
    /\ \A p \in todo \cup candidates : seen[p] # None
    /\ \A p \in open : branch[p] # None
    /\ \A p \in candidates : seen[p].why # "none"
    /\ fetched # None => /\ todo = {} /\ seen[fetched.pull] # None
                         /\ seen[fetched.pull].why # "none"
                         /\ fetched.head = seen[fetched.pull].head

(* While a scan runs, the base is the listed one, and so is every branch,  *)
(* or it has moved on.                                                     *)
Stays ==
    \A p \in Pull : seen[p] # None => /\ scanPc = "classify" /\ branch[p] # None
                                      /\ seen[p].base = tip
                                      /\ fetched # None => fetched.base = tip

RepairInv == Scan!TypeOK /\ Bounded /\ Listed
--------------------------------------------------------------------------------
(* No step leaves the types, and a scan keeps what it listed.              *)
LEMMA RepairInvStep ==
  ASSUME Scan!Constants
  PROVE  RepairInv /\ [Scan!Next]_(Scan!vars) => RepairInv'
<1> SUFFICES ASSUME RepairInv, Scan!Next PROVE RepairInv'
  <2>1. CASE UNCHANGED Scan!vars
    BY <2>1 DEF Scan!vars, RepairInv, Scan!TypeOK, Bounded, Listed, Grown
  <2>2. QED BY <2>1
<1> USE DEF Scan!Constants
<1> UNCHANGED <<Scan!Head, Scan!Seen, Scan!Fetched, Scan!CheckState>>
  BY DEF Scan!Head, Scan!Seen, Scan!Fetched, Scan!CheckState
<1>1. CASE Scan!List
  <2>1. Scan!TypeOK' BY <1>1 DEF Scan!List, RepairInv, Scan!TypeOK, Listed, Scan!Seen, Scan!github
  <2>2. Bounded'
    BY <1>1 DEF Scan!List, RepairInv, Scan!TypeOK, Bounded, Listed, Grown, Scan!Seen, Scan!github
  <2>3. Listed'
    <3>1. ASSUME NEW p \in open PROVE seen'[p] # None
      <4>1. branch[p] \in Scan!Head BY <1>1, <3>1 DEF RepairInv, Scan!TypeOK, Listed
      <4>2. seen'[p] \in Scan!Seen
        BY <1>1, <3>1, <4>1 DEF Scan!List, RepairInv, Scan!TypeOK, Scan!Seen
      <4>3. QED BY <4>2
    <3>2. QED BY <1>1, <3>1 DEF Scan!List, RepairInv, Listed, Scan!github
  <2>4. QED BY <2>1, <2>2, <2>3 DEF RepairInv
<1>2. ASSUME NEW p \in Pull, Scan!Classify(p) PROVE RepairInv'
  <2>1. /\ todo' = todo \ {p} /\ p \in todo /\ scanPc = "classify" /\ seen[p] # None
        /\ UNCHANGED <<Scan!github, scanPc, attempted, fetched, repaired>>
        /\ \/ UNCHANGED <<candidates, seen>>
           \/ \E why \in {"conflicting", "born-conflicting", "red"} :
                 /\ candidates' = candidates \cup {p}
                 /\ seen' = [seen EXCEPT ![p].why = why]
    BY <1>2 DEF Scan!Classify, Scan!Admitted, Scan!Skipped, RepairInv, Listed
  <2>2. fetched = None BY <2>1 DEF RepairInv, Listed
  <2>3. /\ seen' \in [Pull -> Scan!Seen \cup {None}]
        /\ \A q \in candidates' : q \in candidates \/ (q = p /\ seen'[p].why # "none")
        /\ \A q \in Pull : /\ seen'[q] = None <=> seen[q] = None
                           /\ seen[q] # None => seen'[q].head = seen[q].head
                           /\ seen'[q] = seen[q] \/ (q = p /\ seen'[q].why # "none")
    <3>1. CASE UNCHANGED <<candidates, seen>> BY <3>1 DEF RepairInv, Scan!TypeOK
    <3>2. ASSUME NEW why \in {"conflicting", "born-conflicting", "red"},
                 candidates' = candidates \cup {p},
                 seen' = [seen EXCEPT ![p].why = why]
          PROVE  <2>3!1 /\ <2>3!2 /\ <2>3!3
      BY <2>1, <3>2 DEF RepairInv, Scan!TypeOK, Scan!Seen
    <3>3. QED BY <2>1, <3>1, <3>2
  <2>4. Scan!TypeOK' BY <2>1, <2>2, <2>3 DEF RepairInv, Scan!TypeOK, Scan!github
  <2>5. Bounded' BY <2>1, <2>2, <2>3 DEF RepairInv, Bounded, Grown, Scan!github
  <2>6. Listed' BY <2>1, <2>2, <2>3 DEF RepairInv, Scan!TypeOK, Listed, Scan!github
  <2>7. QED BY <2>4, <2>5, <2>6 DEF RepairInv
<1>3. ASSUME NEW p \in Pull, Scan!ReadFails(p) PROVE RepairInv'
  BY <1>3 DEF Scan!ReadFails, RepairInv, Scan!TypeOK, Bounded, Listed, Grown, Scan!github
<1>4. ASSUME NEW p \in Pull, Scan!Fetch(p) PROVE RepairInv'
  <2>1. /\ fetched' \in Scan!Fetched \cup {None}
        /\ fetched' # None => /\ fetched'.pull = p /\ fetched'.head = seen[p].head
                              /\ seen[p] # None
    BY <1>4 DEF Scan!Fetch, RepairInv, Scan!TypeOK, Listed, Scan!Seen, Scan!Fetched
  <2>2. QED
    BY <1>4, <2>1 DEF Scan!Fetch, RepairInv, Scan!TypeOK, Bounded, Listed, Grown, Scan!github
<1>5. CASE Scan!MergeAndPush
  <2>1. fetched \in Scan!Fetched BY <1>5 DEF Scan!MergeAndPush, RepairInv, Scan!TypeOK
  <2>2. /\ branch' = branch \/ /\ branch' = [branch EXCEPT ![fetched.pull] = Scan!Merged]
                               /\ fetched.head.base < fetched.base
        /\ checks' \in [Pull -> Scan!CheckState] /\ clash' \subseteq open
        /\ repaired' \in {repaired, repaired + 1}
    BY <1>5, <2>1 DEF Scan!MergeAndPush, RepairInv, Scan!TypeOK, Scan!Fetched, Scan!CheckState
  <2>3. ASSUME fetched.head.base < fetched.base
        PROVE  Scan!Merged \in Scan!Head /\ Grown(Scan!Merged)
    BY <2>1, <2>3 DEF Scan!Merged, Scan!Head, Scan!Fetched, Grown, RepairInv, Bounded
  <2>4. /\ branch' \in [Pull -> Scan!Head \cup {None}]
        /\ \A q \in Pull : /\ branch'[q] # None => Grown(branch'[q])
                           /\ branch[q] # None => branch'[q] # None
    BY <2>1, <2>2, <2>3 DEF RepairInv, Scan!TypeOK, Bounded, Scan!Fetched
  <2>5. QED
    BY <1>5, <2>1, <2>2, <2>4 DEF Scan!MergeAndPush, RepairInv, Scan!TypeOK, Bounded, Listed,
       Grown
<1>6. CASE Scan!Finish
  BY <1>6 DEF Scan!Finish, RepairInv, Scan!TypeOK, Bounded, Listed, Grown, Scan!github
<1>7. ASSUME NEW p \in Pull, Scan!PushOther(p) PROVE RepairInv'
  <2>1. branch[p] \in Scan!Head /\ branch[p].own < MaxOwn
    BY <1>7 DEF Scan!PushOther, RepairInv, Scan!TypeOK, Listed
  <2>2. [branch[p] EXCEPT !.own = @ + 1] \in Scan!Head /\ Grown([branch[p] EXCEPT !.own = @ + 1])
    BY <2>1 DEF Scan!Head, Grown
  <2>3. /\ branch' \in [Pull -> Scan!Head \cup {None}]
        /\ \A q \in Pull : /\ branch'[q] # None => Grown(branch'[q])
                           /\ branch[q] # None => branch'[q] # None
    BY <1>7, <2>2 DEF Scan!PushOther, RepairInv, Scan!TypeOK, Bounded
  <2>4. QED
    BY <1>7, <2>3 DEF Scan!PushOther, RepairInv, Scan!TypeOK, Bounded, Listed, Grown,
       Scan!CheckState, Scan!scan
<1>8. ASSUME NEW p \in Pull, Scan!ChecksRun(p) PROVE RepairInv'
  BY <1>8 DEF Scan!ChecksRun, RepairInv, Scan!TypeOK, Bounded, Listed, Grown, Scan!CheckState,
     Scan!scan
<1>9. CASE Scan!BaseChecksRun \/ Scan!BaseMoves
  BY <1>9 DEF Scan!BaseChecksRun, Scan!BaseMoves, RepairInv, Scan!TypeOK, Bounded, Listed, Grown,
     Scan!scan
<1>10. ASSUME NEW p \in Pull, Scan!Resolve(p) PROVE RepairInv'
  <2>1. branch' = branch \/ branch' = [branch EXCEPT ![p] = None]
    BY <1>10 DEF Scan!Resolve
  <2>2. /\ branch' \in [Pull -> Scan!Head \cup {None}]
        /\ \A q \in Pull : branch'[q] = branch[q] \/ (q = p /\ branch'[q] = None)
    BY <2>1 DEF RepairInv, Scan!TypeOK
  <2>3. QED
    BY <1>10, <2>2 DEF Scan!Resolve, RepairInv, Scan!TypeOK, Bounded, Listed, Grown, Scan!scan
<1>11. QED
  BY <1>1, <1>2, <1>3, <1>4, <1>5, <1>6, <1>7, <1>8, <1>9, <1>10 DEF Scan!Next

(* No step of anyone changes what a running scan has listed, when the base *)
(* and the branches stay.                                                  *)
LEMMA StaysStep ==
  ASSUME Scan!Constants, BaseStays = TRUE, BranchStays = TRUE
  PROVE  RepairInv /\ Stays /\ [Scan!Next]_(Scan!vars) => Stays'
<1> SUFFICES ASSUME RepairInv, Stays, Scan!Next PROVE Stays'
  <2>1. CASE UNCHANGED Scan!vars
    BY <2>1 DEF Scan!vars, Stays
  <2>2. QED BY <2>1
<1> USE DEF Scan!Constants
<1>1. CASE Scan!List
  BY <1>1 DEF Scan!List, RepairInv, Scan!TypeOK, Listed, Stays, Scan!github
<1>2. ASSUME NEW p \in Pull, Scan!Classify(p) PROVE Stays'
  BY <1>2 DEF Scan!Classify, Scan!Admitted, Scan!Skipped, RepairInv, Scan!TypeOK, Listed,
     Scan!Seen, Stays, Scan!github
<1>3. ASSUME NEW p \in Pull, Scan!ReadFails(p) PROVE Stays'
  BY <1>3 DEF Scan!ReadFails, Stays, Scan!github
<1>4. ASSUME NEW p \in Pull, Scan!Fetch(p) PROVE Stays'
  BY <1>4 DEF Scan!Fetch, Stays, Scan!github
<1>5. CASE Scan!MergeAndPush
  <2>1. fetched \in Scan!Fetched /\ (fetched.head.base < fetched.base => Scan!Merged # None)
    <3>1. fetched \in Scan!Fetched BY <1>5 DEF Scan!MergeAndPush, RepairInv, Scan!TypeOK
    <3>2. fetched.head.base < fetched.base => Scan!Merged \in Scan!Head
      BY <3>1, <1>5 DEF Scan!MergeAndPush, Scan!Merged, Scan!Head, Scan!Fetched, RepairInv,
         Bounded, Grown
    <3>3. QED BY <3>1, <3>2
  <2>2. QED BY <1>5, <2>1 DEF Scan!MergeAndPush, RepairInv, Scan!TypeOK, Stays
<1>6. CASE Scan!Finish
  BY <1>6 DEF Scan!Finish, Stays
<1>7. ASSUME NEW p \in Pull, Scan!PushOther(p) PROVE Stays'
  <2>1. branch[p] \in Scan!Head
    BY <1>7 DEF Scan!PushOther, RepairInv, Scan!TypeOK, Listed
  <2>2. [branch[p] EXCEPT !.own = @ + 1] # None
    BY <2>1, <1>7 DEF Scan!Head, Scan!PushOther
  <2>3. QED BY <1>7, <2>2 DEF Scan!PushOther, RepairInv, Scan!TypeOK, Stays, Scan!scan
<1>8. ASSUME NEW p \in Pull, Scan!ChecksRun(p) \/ Scan!Resolve(p) PROVE Stays'
  BY <1>8 DEF Scan!ChecksRun, Scan!Resolve, RepairInv, Scan!TypeOK, Stays, Scan!scan
<1>9. CASE Scan!BaseChecksRun \/ Scan!BaseMoves
  BY <1>9 DEF Scan!BaseChecksRun, Scan!BaseMoves, Stays, Scan!scan
<1>10. QED
  BY <1>1, <1>2, <1>3, <1>4, <1>5, <1>6, <1>7, <1>8, <1>9 DEF Scan!Next

(* The invariants hold at first.                                           *)
LEMMA RepairInit == ASSUME Scan!Constants PROVE Scan!Init => RepairInv /\ Stays
<1> SUFFICES ASSUME Scan!Constants, Scan!Init PROVE RepairInv /\ Stays
  OBVIOUS
<1>1. [base |-> 0, own |-> 1] \in Scan!Head /\ Grown([base |-> 0, own |-> 1])
  BY DEF Scan!Constants, Scan!Head, Grown
<1>2. [base |-> 0, own |-> 1] # None
  BY <1>1 DEF Scan!Constants
<1>3. QED
  BY <1>1, <1>2 DEF Scan!Init, Scan!Constants, RepairInv, Scan!TypeOK, Bounded, Listed, Stays,
     Scan!CheckState

(* Every variable keeps its type, however GitHub moves.                    *)
THEOREM RepairTyping == ASSUME Scan!Constants PROVE Scan!Spec => []Scan!TypeOK
<1>1. RepairInv => Scan!TypeOK BY DEF RepairInv
<1>2. QED BY <1>1, RepairInit, RepairInvStep, PTL DEF Scan!Spec

(* A step that repairs a pull request starts from its listed head.         *)
LEMMA RepairStep ==
  ASSUME Scan!Constants, RepairInv, Stays, [Scan!Next]_(Scan!vars), NEW p \in Pull,
         repaired' > repaired, branch'[p] # branch[p]
  PROVE  /\ branch[p] = seen[p].head /\ seen[p].why # "none"
         /\ branch'[p].base > branch[p].base
         /\ seen[p].why = "red" => branch'[p].base = seen[p].base
<1>1. Scan!MergeAndPush
  BY DEF Scan!Next, Scan!vars, Scan!github, Scan!scan, Scan!List, Scan!Classify, Scan!ReadFails,
     Scan!Fetch, Scan!Finish, Scan!PushOther, Scan!ChecksRun, Scan!BaseChecksRun, Scan!BaseMoves,
     Scan!Resolve, RepairInv, Scan!TypeOK, Scan!Constants
<1>2. fetched \in Scan!Fetched /\ p = fetched.pull /\ fetched.head.base < fetched.base
      /\ Scan!Pushes /\ branch' = [branch EXCEPT ![fetched.pull] = Scan!Merged]
  BY <1>1 DEF Scan!MergeAndPush, RepairInv, Scan!TypeOK, Scan!Constants
<1>3. branch[p] = fetched.head /\ fetched.head = seen[p].head /\ seen[p].base = fetched.base
      /\ seen[p].why # "none"
  BY <1>1, <1>2 DEF Scan!MergeAndPush, RepairInv, Scan!TypeOK, Listed, Stays, Scan!Pushes
<1>4. branch'[p].base = fetched.base
  BY <1>2 DEF Scan!Merged, RepairInv, Scan!TypeOK
<1>5. QED BY <1>2, <1>3, <1>4 DEF Scan!Fetched, Scan!Head

(* A repair merges a base the head did not have into the very head whose   *)
(* checks were read, and for a failed head the base that was found green,  *)
(* as long as neither the base moves nor a branch goes during a scan.      *)
THEOREM StandsOnListing ==
  ASSUME Scan!Constants, BaseStays = TRUE, BranchStays = TRUE
  PROVE  Scan!Spec => Scan!RepairStandsOnListing
<1>1. RepairInv /\ Stays /\ [Scan!Next]_(Scan!vars) =>
        [\A p \in Pull :
            repaired' > repaired /\ branch'[p] # branch[p] =>
               /\ branch[p] = seen[p].head /\ seen[p].why # "none"
               /\ branch'[p].base > branch[p].base
               /\ seen[p].why = "red" => branch'[p].base = seen[p].base]_(Scan!vars)
  BY RepairStep
<1>2. QED
  BY <1>1, RepairInit, RepairInvStep, StaysStep, PTL DEF Scan!Spec, Scan!RepairStandsOnListing
--------------------------------------------------------------------------------
(* Publication, for any number of hosts, days, changes, failures and       *)
(* commits.                                                                *)
CONSTANTS Host, FirstLands, Keep, MaxDay, MaxEdits, MaxFaults, MaxCommits
VARIABLES today, records, remote, chainOf, files, pc, tree, base, edits, faults
Hosts == INSTANCE Publish WITH head <- chainOf

(* A snapshot is whole, and a chain of commits keeps the gate records it   *)
(* says it preserves.                                                      *)
WholeFiles(f) == f.count = Cardinality(f.gate) /\ f.gate \subseteq f.verdicts

Follows(c, before) ==
    c.preserves => c.files.gate = before.files.gate /\ c.files.verdicts = before.files.verdicts

WholeChain(commits) ==
    \A i \in DOMAIN commits :
        WholeFiles(commits[i].files) /\ (i > 1 => Follows(commits[i], commits[i - 1]))

Extends(longer, shorter) ==
    Len(shorter) <= Len(longer) /\ \A i \in 1 .. Len(shorter) : longer[i] = shorter[i]

(* Where a host is, with what it derived and what its checkout holds.      *)
Label == {"idle", "restore", "install", "commit", "push"}

Derivation(h) ==
    /\ pc[h] # "idle" => /\ tree[h] # None /\ base[h] \in {"empty", "state"}
                         /\ base[h] = "state" => remote # <<>>
    /\ pc[h] \in {"restore", "install", "commit"} /\ base[h] = "empty" => chainOf[h] = <<>>
    /\ tree[h] # None => WholeFiles(tree[h].files)

Checkout(h) ==
    /\ pc[h] = "install" =>
          /\ files[h] = IF chainOf[h] = <<>> THEN None ELSE Last(chainOf[h]).files
          /\ base[h] = "state" => chainOf[h] # <<>> /\ Extends(remote, chainOf[h])
    /\ pc[h] = "commit" =>
          /\ files[h] # None /\ WholeFiles(files[h])
          /\ chainOf[h] # <<>> =>
                Follows([files |-> files[h], preserves |-> tree[h].preserves], Last(chainOf[h]))
    /\ pc[h] = "push" => chainOf[h] # <<>>
    /\ remote = <<>> => chainOf[h] = <<>> \/ (pc[h] = "push" /\ base[h] = "empty")

Chains == WholeChain(remote) /\ \A h \in Host : WholeChain(chainOf[h])

PublishInv ==
    /\ Hosts!TypeOK /\ pc \in [Host -> Label] /\ Chains
    /\ \A h \in Host : Derivation(h) /\ Checkout(h)
--------------------------------------------------------------------------------
(* What a host derives is a whole snapshot.                                *)
LEMMA DerivedWhole ==
  ASSUME Hosts!Constants, Hosts!TypeOK, NEW h \in Host
  PROVE  Hosts!Derived(h) \in Hosts!Commit /\ WholeFiles(Hosts!Derived(h).files)
<1> DEFINE days == IF records[h].gate = None THEN {} ELSE records[h].gate
           kept == {d \in days : d + Keep > today}
<1>1. days \subseteq Hosts!Day /\ kept \subseteq days /\ records[h].queue \in Nat
  BY DEF Hosts!TypeOK
<1>2. IsFiniteSet(Hosts!Day) BY FS_Interval DEF Hosts!Day, Hosts!Constants
<1>3. Cardinality(kept) \in Nat
  BY <1>1, <1>2, FS_Subset, FS_CardinalityType
<1>4. Hosts!Derived(h) = [files |-> [queue |-> records[h].queue, verdicts |-> days,
                               count |-> Cardinality(kept), gate |-> kept],
                    preserves |-> records[h].gate = None]
  BY DEF Hosts!Derived, Hosts!Cardinality, Cardinality
<1> HIDE DEF days, kept
<1>5. days \in SUBSET Hosts!Day /\ kept \in SUBSET Hosts!Day BY <1>1
<1>6. Hosts!Derived(h).files \in Hosts!Snapshot BY <1>1, <1>3, <1>4, <1>5 DEF Hosts!Snapshot
<1>7. QED BY <1>1, <1>4, <1>6 DEF Hosts!Commit, WholeFiles

(* A chain with a commit that follows its last one.                        *)
LEMMA ChainGrows ==
  ASSUME NEW chain \in Seq(Hosts!Commit), WholeChain(chain),
         NEW c \in Hosts!Commit, WholeFiles(c.files),
         chain # <<>> => Follows(c, Last(chain)),
         NEW longer, longer = Append(chain, c)
  PROVE  WholeChain(longer) /\ longer \in Seq(Hosts!Commit) /\ longer # <<>>
<1> DEFINE n == Len(chain)
<1>1. /\ longer[n + 1] = c /\ n \in Nat /\ DOMAIN longer = 1 .. (n + 1)
      /\ \A i \in 1 .. n : longer[i] = chain[i]
      /\ longer \in Seq(Hosts!Commit) /\ DOMAIN chain = 1 .. n /\ (n > 0 => chain # <<>>)
  OBVIOUS
<1>2. n > 0 => Follows(c, chain[n]) BY <1>1 DEF Last
<1>3. longer # <<>> BY <1>1
<1> HIDE DEF n
<1>4. ASSUME NEW i \in 1 .. (n + 1)
      PROVE  WholeFiles(longer[i].files) /\ (i > 1 => Follows(longer[i], longer[i - 1]))
  <2>1. CASE i = n + 1
    <3>1. WholeFiles(longer[i].files) BY <1>1, <2>1
    <3>2. ASSUME i > 1 PROVE Follows(longer[i], longer[i - 1])
      <4>1. n > 0 /\ i - 1 = n /\ n \in 1 .. n BY <1>1, <2>1, <3>2
      <4>2. longer[i - 1] = chain[n] BY <1>1, <4>1
      <4>3. QED BY <1>1, <1>2, <2>1, <4>1, <4>2
    <3>3. QED BY <3>1, <3>2
  <2>2. CASE i \in 1 .. n
    <3>1. WholeFiles(longer[i].files) BY <1>1, <2>2 DEF WholeChain
    <3>2. ASSUME i > 1 PROVE Follows(longer[i], longer[i - 1])
      <4>1. i - 1 \in 1 .. n BY <1>1, <2>2, <3>2
      <4>2. QED BY <1>1, <2>2, <3>2, <4>1 DEF WholeChain
    <3>3. QED BY <3>1, <3>2
  <2>3. QED BY <1>1, <2>1, <2>2
<1>5. QED BY <1>1, <1>3, <1>4 DEF WholeChain

(* A chain that is extended is a part of what extends it.                  *)
LEMMA PrefixExtends ==
  ASSUME NEW s \in Seq(Hosts!Commit), NEW t \in Seq(Hosts!Commit), IsPrefix(s, t)
  PROVE  Extends(t, s)
<1>1. Len(s) <= Len(t) /\ SubSeq(s, 1, Len(s)) = SubSeq(t, 1, Len(s))
  BY DEF IsPrefix
<1>2. ASSUME NEW i \in 1 .. Len(s) PROVE t[i] = s[i]
  <2>1. /\ \A k \in 1 .. Len(s) : s[k] \in Hosts!Commit /\ t[k] \in Hosts!Commit
        /\ Len(s) \in Nat /\ Len(s) - 1 + 1 = Len(s) /\ 1 + i - 1 = i
    BY <1>1
  <2>2. SubSeq(s, 1, Len(s))[i] = s[i] /\ SubSeq(t, 1, Len(s))[i] = t[i]
    BY <2>1, SubSeqProperties
  <2>3. QED BY <1>1, <2>2
<1>3. QED BY <1>1, <1>2 DEF Extends

(* To extend is transitive.                                                *)
LEMMA ExtendsFurther ==
  ASSUME NEW s \in Seq(Hosts!Commit), NEW t \in Seq(Hosts!Commit), NEW u \in Seq(Hosts!Commit),
         Extends(t, s), Extends(u, t)
  PROVE  Extends(u, s)
<1>1. Len(s) \in Nat /\ Len(t) \in Nat /\ Len(u) \in Nat OBVIOUS
<1>2. Len(s) <= Len(u) /\ 1 .. Len(s) \subseteq 1 .. Len(t) BY <1>1 DEF Extends
<1>3. QED BY <1>2 DEF Extends
--------------------------------------------------------------------------------
(* A host keeps its place when others move.                                *)
LEMMA HostFrame ==
  ASSUME NEW g \in Host, Derivation(g), Checkout(g),
         UNCHANGED <<pc[g], tree[g], base[g], chainOf[g], files[g], remote>>
  PROVE  Derivation(g)' /\ Checkout(g)'
BY DEF Derivation, Checkout

(* What a host may change of its own.                                      *)
Only(h) == \A g \in Host \ {h} : UNCHANGED <<pc[g], tree[g], base[g], chainOf[g], files[g]>>

(* A step of one host that leaves the published commits alone.             *)
LEMMA OwnStep ==
  ASSUME PublishInv, NEW h \in Host, Only(h), UNCHANGED remote,
         Hosts!TypeOK', pc' \in [Host -> Label],
         WholeChain(chainOf'[h]), Derivation(h)', Checkout(h)'
  PROVE  PublishInv'
<1>1. \A g \in Host : Derivation(g)' /\ Checkout(g)'
  BY HostFrame DEF PublishInv, Only
<1>2. Chains' BY DEF PublishInv, Chains, Only
<1>3. QED BY <1>1, <1>2 DEF PublishInv

(* A publication begins with a whole snapshot.                             *)
LEMMA BeginStep ==
  ASSUME Hosts!Constants, PublishInv, NEW h \in Host, Hosts!Begin(h)
  PROVE  PublishInv'
<1>1. /\ tree'[h] = Hosts!Derived(h) /\ Hosts!Derived(h) \in Hosts!Commit
      /\ WholeFiles(Hosts!Derived(h).files)
  BY DerivedWhole DEF Hosts!Begin, PublishInv, Hosts!TypeOK
<1>2. Hosts!TypeOK'
  <2>1. /\ base' \in [Host -> {"none", "empty", "state"}]
        /\ tree' \in [Host -> Hosts!Commit \cup {None}]
    BY <1>1 DEF Hosts!Begin, PublishInv, Hosts!TypeOK
  <2>2. chainOf' \in [Host -> Seq(Hosts!Commit)] /\ files' \in [Host -> Hosts!Snapshot \cup {None}]
    <3>1. <<>> \in Seq(Hosts!Commit) OBVIOUS
    <3>2. QED BY <3>1 DEF Hosts!Begin, PublishInv, Hosts!TypeOK
  <2>3. QED BY <2>1, <2>2 DEF Hosts!Begin, PublishInv, Hosts!TypeOK
<1>3. pc' \in [Host -> Label] /\ pc'[h] = "restore" /\ Only(h) /\ UNCHANGED remote
  BY DEF Hosts!Begin, PublishInv, Hosts!TypeOK, Hosts!Goto, Label, Only
<1>4. chainOf'[h] = chainOf[h] \/ chainOf'[h] = <<>>
  BY DEF Hosts!Begin, PublishInv, Hosts!TypeOK
<1>5. WholeChain(chainOf'[h]) BY <1>4 DEF PublishInv, Chains, WholeChain
<1>6. base'[h] = IF remote = <<>> THEN "empty" ELSE "state"
  BY DEF Hosts!Begin, PublishInv, Hosts!TypeOK
<1>7. remote = <<>> => chainOf[h] = <<>> BY DEF Hosts!Begin, PublishInv, Checkout
<1>8. Derivation(h)' BY <1>1, <1>3, <1>4, <1>6, <1>7 DEF Derivation, Hosts!Constants
<1>9. Checkout(h)' BY <1>3, <1>4, <1>7 DEF Checkout
<1>10. QED BY <1>2, <1>3, <1>5, <1>8, <1>9, OwnStep

(* A restored checkout is at the published state, or empty.                *)
LEMMA RestoreStep ==
  ASSUME Hosts!Constants, PublishInv, NEW h \in Host, Hosts!Restore(h)
  PROVE  PublishInv'
<1>1. /\ chainOf' \in [Host -> Seq(Hosts!Commit)]
      /\ chainOf'[h] = IF base[h] = "state" THEN remote ELSE chainOf[h]
      /\ pc[h] = "restore" /\ pc' \in [Host -> Label] /\ pc'[h] = "install" /\ Only(h)
      /\ UNCHANGED <<remote, tree, base, today, records>>
      /\ files'[h] = IF chainOf'[h] = <<>> THEN None ELSE Last(chainOf'[h]).files
  BY DEF Hosts!Restore, PublishInv, Hosts!TypeOK, Hosts!Goto, Hosts!Last, Label, Only, Last
<1>2. chainOf'[h] # <<>> => Last(chainOf'[h]) \in Hosts!Commit
  BY <1>1 DEF Last
<1>3. Hosts!TypeOK' BY <1>1, <1>2 DEF Hosts!Restore, PublishInv, Hosts!TypeOK, Hosts!Commit
<1>4. WholeChain(chainOf'[h]) BY <1>1 DEF PublishInv, Chains
<1>5. Derivation(h)' BY <1>1 DEF PublishInv, Derivation
<1>6. Checkout(h)'
  <2>1. Extends(remote, remote) BY DEF Extends, PublishInv, Hosts!TypeOK
  <2>2. QED BY <1>1, <2>1 DEF PublishInv, Derivation, Checkout
<1>7. QED BY <1>1, <1>3, <1>4, <1>5, <1>6, OwnStep

(* What is installed is whole, and keeps the records it says it preserves. *)
LEMMA Reconciling ==
  ASSUME Hosts!Constants, PublishInv, NEW h \in Host, pc[h] = "install"
  PROVE  /\ Hosts!Reconciled(h) \in Hosts!Snapshot /\ WholeFiles(Hosts!Reconciled(h))
         /\ Hosts!Staged(h) = Hosts!Reconciled(h)
         /\ chainOf[h] # <<>> =>
               Follows([files |-> Hosts!Reconciled(h), preserves |-> tree[h].preserves],
                       Last(chainOf[h]))
<1>1. /\ tree[h] \in Hosts!Commit /\ tree[h].files \in Hosts!Snapshot /\ WholeFiles(tree[h].files)
      /\ base[h] \in {"empty", "state"}
      /\ (base[h] = "empty" => chainOf[h] = <<>> /\ files[h] = None)
      /\ (base[h] = "state" => chainOf[h] # <<>> /\ files[h] = Last(chainOf[h]).files)
  BY DEF PublishInv, Hosts!TypeOK, Derivation, Checkout, Hosts!Commit
<1>2. chainOf[h] # <<>> => Last(chainOf[h]) \in Hosts!Commit /\ WholeFiles(Last(chainOf[h]).files)
  <2>1. chainOf[h] # <<>> => /\ Len(chainOf[h]) \in DOMAIN chainOf[h]
                             /\ chainOf[h][Len(chainOf[h])] \in Hosts!Commit
    BY DEF PublishInv, Hosts!TypeOK
  <2>2. QED BY <2>1 DEF PublishInv, Chains, WholeChain, Last
<1>3. Hosts!Staged(h) = Hosts!Reconciled(h) BY <1>1 DEF Hosts!Staged
<1>4. CASE Hosts!Authoritative(h) \/ base[h] = "empty"
  BY <1>1, <1>3, <1>4 DEF Hosts!Reconciled, Hosts!Authoritative, Follows
<1>5. CASE ~Hosts!Authoritative(h) /\ base[h] = "state"
  <2>1. files[h] \in Hosts!Snapshot /\ WholeFiles(files[h]) BY <1>1, <1>2, <1>5 DEF Hosts!Commit
  <2>2. Cardinality(files[h].gate) \in Nat BY <2>1 DEF WholeFiles, Hosts!Snapshot
  <2>3. Hosts!Reconciled(h) =
          [tree[h].files EXCEPT !.verdicts = files[h].verdicts,
                                !.gate = files[h].gate, !.count = Cardinality(files[h].gate)]
    BY <1>5 DEF Hosts!Reconciled, Hosts!Cardinality, Cardinality
  <2>4. /\ Hosts!Reconciled(h) \in Hosts!Snapshot /\ Hosts!Reconciled(h).gate = files[h].gate
        /\ Hosts!Reconciled(h).verdicts = files[h].verdicts
        /\ Hosts!Reconciled(h).count = Cardinality(files[h].gate)
    BY <1>1, <2>1, <2>2, <2>3 DEF Hosts!Snapshot
  <2>5. QED BY <1>1, <1>3, <1>5, <2>1, <2>4 DEF WholeFiles, Follows
<1>6. QED BY <1>1, <1>4, <1>5

(* A step that installs a snapshot keeps the invariant.                    *)
LEMMA InstallStep ==
  ASSUME Hosts!Constants, PublishInv, NEW h \in Host, Hosts!Install(h)
  PROVE  PublishInv'
<1>0. pc[h] = "install" /\ Only(h) /\ UNCHANGED <<today, records, remote, chainOf>>
  BY DEF Hosts!Install, PublishInv, Hosts!TypeOK, Hosts!Return, Hosts!Goto, Label, Only
<1>1. CASE Hosts!Reconciled(h) = files[h]
  <2>1. /\ Hosts!TypeOK' /\ pc' \in [Host -> Label] /\ pc'[h] = "idle" /\ tree'[h] = None
        /\ UNCHANGED files
    BY <1>1, <1>0 DEF Hosts!Install, Hosts!Return, Hosts!Goto, PublishInv, Hosts!TypeOK, Label
  <2>2. WholeChain(chainOf'[h]) BY <1>0 DEF PublishInv, Chains
  <2>3. Derivation(h)' /\ Checkout(h)'
    BY <1>0, <2>1 DEF PublishInv, Derivation, Checkout
  <2>4. QED BY <1>0, <2>1, <2>2, <2>3, OwnStep
<1>2. CASE Hosts!Reconciled(h) # files[h]
  <2>1. /\ pc' \in [Host -> Label] /\ pc'[h] = "commit" /\ UNCHANGED <<tree, base>>
        /\ files' = [files EXCEPT ![h] = Hosts!Staged(h)]
    BY <1>2, <1>0 DEF Hosts!Install, Hosts!Goto, PublishInv, Hosts!TypeOK, Label
  <2>2. Hosts!TypeOK' /\ files'[h] = Hosts!Reconciled(h)
    BY <1>0, <2>1, Reconciling DEF Hosts!Install, PublishInv, Hosts!TypeOK
  <2>3. WholeChain(chainOf'[h]) BY <1>0 DEF PublishInv, Chains
  <2>4. Derivation(h)' BY <1>0, <2>1 DEF PublishInv, Derivation
  <2>5. Checkout(h)' BY <1>0, <2>1, <2>2, Reconciling DEF PublishInv, Checkout, Hosts!Constants
  <2>6. QED BY <1>0, <2>1, <2>2, <2>3, <2>4, <2>5, OwnStep
<1>3. QED BY <1>1, <1>2

(* A commit follows the last one.                                          *)
LEMMA CommitStep ==
  ASSUME Hosts!Constants, PublishInv, NEW h \in Host, Hosts!MakeCommit(h)
  PROVE  PublishInv'
<1> DEFINE c == [files |-> files[h], preserves |-> tree[h].preserves]
<1>1. /\ c \in Hosts!Commit /\ WholeFiles(c.files)
      /\ (chainOf[h] # <<>> => Follows(c, Last(chainOf[h])))
  BY DEF Hosts!MakeCommit, PublishInv, Hosts!TypeOK, Derivation, Checkout, Hosts!Commit
<1>2. /\ pc[h] = "commit" /\ pc' \in [Host -> Label] /\ pc'[h] = "push" /\ Only(h)
      /\ UNCHANGED <<today, records, remote, files, tree, base>>
      /\ chainOf'[h] = Append(chainOf[h], c)
  BY DEF Hosts!MakeCommit, Hosts!Goto, PublishInv, Hosts!TypeOK, Label, Only
<1> HIDE DEF c
<1>3. WholeChain(chainOf'[h]) /\ chainOf'[h] \in Seq(Hosts!Commit) /\ chainOf'[h] # <<>>
  BY <1>1, <1>2, ChainGrows DEF PublishInv, Hosts!TypeOK, Chains
<1>4. Hosts!TypeOK' BY <1>2, <1>3 DEF Hosts!MakeCommit, PublishInv, Hosts!TypeOK
<1>5. Derivation(h)' BY <1>2 DEF PublishInv, Derivation
<1>6. Checkout(h)' BY <1>2, <1>3 DEF PublishInv, Derivation, Checkout
<1>7. QED BY <1>2, <1>3, <1>4, <1>5, <1>6, OwnStep

(* A push that is taken extends what is published, for every host.         *)
LEMMA PushStep ==
  ASSUME Hosts!Constants, PublishInv, NEW h \in Host, Hosts!Push(h)
  PROVE  PublishInv'
<1>0. Hosts!Return(h) /\ pc[h] = "push" /\ remote' \in {remote, chainOf[h]}
      /\ UNCHANGED <<today, records, chainOf, files>>
  BY DEF Hosts!Push
<1>1. /\ pc[h] = "push" /\ Only(h) /\ pc' \in [Host -> Label] /\ pc'[h] = "idle" /\ tree'[h] = None
      /\ UNCHANGED <<today, records, chainOf, files>> /\ Hosts!TypeOK'
  <2>1. /\ pc' \in [Host -> Label] /\ pc'[h] = "idle" /\ tree'[h] = None
        /\ tree' \in [Host -> Hosts!Commit \cup {None}]
        /\ base' \in [Host -> {"none", "empty", "state"}]
    BY <1>0 DEF Hosts!Return, Hosts!Goto, PublishInv, Hosts!TypeOK, Label
  <2>2. Only(h) BY <1>0 DEF Hosts!Return, Hosts!Goto, PublishInv, Hosts!TypeOK, Label, Only
  <2>3. remote' \in Seq(Hosts!Commit) BY <1>0 DEF PublishInv, Hosts!TypeOK
  <2>4. QED BY <1>0, <2>1, <2>2, <2>3 DEF PublishInv, Hosts!TypeOK
<1>2. chainOf[h] # <<>> BY <1>1 DEF PublishInv, Checkout
<1>3. CASE IsPrefix(remote, chainOf[h])
  <2>1. remote' = chainOf[h] BY <1>3 DEF Hosts!Push, Hosts!IsPrefix, IsPrefix
  <2>2. Extends(remote', remote) BY <1>3, <2>1, PrefixExtends DEF PublishInv, Hosts!TypeOK
  <2>3. Chains' BY <1>1, <2>1 DEF PublishInv, Chains
  <2>4. ASSUME NEW g \in Host PROVE Derivation(g)' /\ Checkout(g)'
    <3>1. CASE g = h BY <1>1, <1>2, <2>1, <3>1 DEF Derivation, Checkout
    <3>2. CASE g # h
      <4>1. UNCHANGED <<pc[g], tree[g], base[g], chainOf[g], files[g]>> BY <1>1, <3>2 DEF Only
      <4>2. Extends(remote, chainOf[g]) => Extends(remote', chainOf[g])
        BY <1>1, <2>2, ExtendsFurther DEF PublishInv, Hosts!TypeOK
      <4>3. QED BY <1>2, <2>1, <4>1, <4>2 DEF PublishInv, Derivation, Checkout
    <3>3. QED BY <3>1, <3>2
  <2>5. QED BY <1>1, <2>3, <2>4 DEF PublishInv
<1>4. CASE ~IsPrefix(remote, chainOf[h])
  <2>1. UNCHANGED remote BY <1>4 DEF Hosts!Push, Hosts!IsPrefix, IsPrefix
  <2>2. remote # <<>>
    <3>1. remote = <<>> => IsPrefix(remote, chainOf[h])
      <4>1. SubSeq(chainOf[h], 1, 0) = <<>> /\ SubSeq(<<>>, 1, 0) = <<>> BY SubSeqEmpty
      <4>2. QED BY <4>1 DEF IsPrefix, PublishInv, Hosts!TypeOK
    <3>2. QED BY <3>1, <1>4
  <2>3. Derivation(h)' /\ Checkout(h)' BY <1>1, <2>1, <2>2 DEF PublishInv, Derivation, Checkout
  <2>4. WholeChain(chainOf'[h]) BY <1>1 DEF PublishInv, Chains
  <2>5. QED BY <1>1, <2>1, <2>3, <2>4, OwnStep
<1>5. QED BY <1>3, <1>4

(* A failure leaves no commits of the checkout alone behind.               *)
LEMMA FailStep ==
  ASSUME Hosts!Constants, FirstLands = TRUE, PublishInv, NEW h \in Host, Hosts!Fail(h)
  PROVE  PublishInv'
<1>1. /\ Only(h) /\ pc' \in [Host -> Label] /\ pc'[h] = "idle" /\ tree'[h] = None
      /\ UNCHANGED <<today, records, remote, chainOf, files>> /\ Hosts!TypeOK'
      /\ ~(pc[h] = "push" /\ base[h] = "empty" /\ remote = <<>>)
  BY DEF Hosts!Fail, Hosts!Return, Hosts!Goto, PublishInv, Hosts!TypeOK, Label, Only
<1>2. WholeChain(chainOf'[h]) BY <1>1 DEF PublishInv, Chains
<1>3. Derivation(h)' /\ Checkout(h)' BY <1>1 DEF PublishInv, Derivation, Checkout
<1>4. QED BY <1>1, <1>2, <1>3, OwnStep

(* A change of the local records disturbs no publication.                  *)
LEMMA EditStep ==
  ASSUME Hosts!Constants, PublishInv, NEW h \in Host, Hosts!Edit(h)
  PROVE  PublishInv'
<1>1. records' \in [Host -> [queue : Nat, gate : (SUBSET Hosts!Day) \cup {None}]]
  <2>1. /\ records \in [Host -> [queue : Nat, gate : (SUBSET Hosts!Day) \cup {None}]]
        /\ records[h].queue + 1 \in Nat /\ {} \in SUBSET Hosts!Day
        /\ records[h].gate # None => records[h].gate \cup {today} \in SUBSET Hosts!Day
        /\ {today} \in SUBSET Hosts!Day
    BY DEF PublishInv, Hosts!TypeOK
  <2>2. CASE records' = [records EXCEPT ![h].queue = @ + 1]
    BY <2>1, <2>2
  <2>3. CASE \E days \in (SUBSET Hosts!Day) \cup {None} :
                records' = [records EXCEPT ![h].gate = days]
    BY <2>1, <2>3
  <2>4. \/ records' = [records EXCEPT ![h].queue = @ + 1]
        \/ \E days \in (SUBSET Hosts!Day) \cup {None} : records' = [records EXCEPT ![h].gate = days]
    <3>1. CASE records' = [records EXCEPT ![h].gate = IF @ = None THEN {today} ELSE @ \cup {today}]
      BY <2>1, <3>1
    <3>2. QED BY <2>1, <3>1 DEF Hosts!Edit
  <2>5. QED BY <2>2, <2>3, <2>4
<1>2. UNCHANGED <<today, remote, chainOf, files, pc, tree, base>> BY DEF Hosts!Edit
<1>3. Hosts!TypeOK' BY <1>1, <1>2 DEF PublishInv, Hosts!TypeOK
<1>4. QED BY <1>2, <1>3 DEF PublishInv, Chains, Derivation, Checkout

(* The invariant holds at first.                                           *)
LEMMA PublishInit == ASSUME Hosts!Constants PROVE Hosts!Init => PublishInv
<1> SUFFICES ASSUME Hosts!Init PROVE PublishInv
  OBVIOUS
<1>1. WholeChain(<<>>) BY DEF WholeChain
<1>2. Hosts!TypeOK BY DEF Hosts!Init, Hosts!TypeOK, Hosts!Constants, Hosts!Day
<1>3. QED BY <1>1, <1>2 DEF Hosts!Init, PublishInv, Chains, Derivation, Checkout, Label

(* The invariant is inductive.                                             *)
LEMMA PublishInvStep ==
  ASSUME Hosts!Constants, FirstLands = TRUE
  PROVE  PublishInv /\ [Hosts!Next]_(Hosts!vars) => PublishInv'
<1> SUFFICES ASSUME PublishInv, [Hosts!Next]_(Hosts!vars) PROVE PublishInv'
  OBVIOUS
<1>1. CASE Hosts!NextDay
  <2>1. today' \in Hosts!Day
    BY <1>1 DEF Hosts!NextDay, PublishInv, Hosts!TypeOK, Hosts!Day, Hosts!Constants
  <2>2. Hosts!TypeOK' BY <1>1, <2>1 DEF Hosts!NextDay, PublishInv, Hosts!TypeOK
  <2>3. QED BY <1>1, <2>2 DEF Hosts!NextDay, PublishInv, Chains, Derivation, Checkout
<1>2. CASE UNCHANGED Hosts!vars
  BY <1>2 DEF Hosts!vars, PublishInv, Hosts!TypeOK, Chains, Derivation, Checkout
<1>3. QED
  BY <1>1, <1>2, BeginStep, RestoreStep, InstallStep, CommitStep, PushStep, FailStep, EditStep DEF
     Hosts!Next

(* Every variable keeps its type.                                          *)
THEOREM PublishTyping ==
  ASSUME Hosts!Constants, FirstLands = TRUE
  PROVE  Hosts!Spec => []Hosts!TypeOK
<1>1. PublishInv => Hosts!TypeOK BY DEF PublishInv
<1>2. QED BY <1>1, PublishInit, PublishInvStep, PTL DEF Hosts!Spec

(* Every published snapshot is whole, whichever hosts it comes from.       *)
THEOREM PublishedIsWhole ==
  ASSUME Hosts!Constants, FirstLands = TRUE
  PROVE  Hosts!Spec => []Hosts!PublishedWhole
<1>1. PublishInv => Hosts!PublishedWhole
  BY DEF PublishInv, Chains, WholeChain, WholeFiles, Follows, Hosts!PublishedWhole,
     Hosts!Cardinality, Cardinality
<1>2. QED BY <1>1, PublishInit, PublishInvStep, PTL DEF Hosts!Spec

(* A publication that finds nothing to change has published it before.     *)
THEOREM UnchangedStands ==
  ASSUME Hosts!Constants, FirstLands = TRUE
  PROVE  Hosts!Spec => Hosts!UnchangedIsPublished
<1>1. ASSUME PublishInv, NEW h \in Host, Hosts!Install(h), pc'[h] = "idle"
      PROVE  \E i \in DOMAIN remote : remote[i].files = Hosts!Reconciled(h)
  <2>1. pc[h] = "install" /\ Hosts!Reconciled(h) = files[h]
    BY <1>1 DEF Hosts!Install, Hosts!Goto, PublishInv, Hosts!TypeOK
  <2>2. files[h] # None BY <1>1, <2>1, Reconciling DEF Hosts!Constants
  <2>3. chainOf[h] # <<>> /\ files[h] = Last(chainOf[h]).files /\ Extends(remote, chainOf[h])
    BY <1>1, <2>1, <2>2 DEF PublishInv, Hosts!TypeOK, Derivation, Checkout
  <2>4. Len(chainOf[h]) \in 1 .. Len(chainOf[h]) /\ Len(chainOf[h]) \in DOMAIN remote
    BY <1>1, <2>3 DEF Extends, PublishInv, Hosts!TypeOK
  <2>5. remote[Len(chainOf[h])].files = files[h]
    BY <2>3, <2>4 DEF Extends, Last
  <2>6. QED BY <2>1, <2>4, <2>5
<1>2. PublishInv => Hosts!AsPublished BY <1>1 DEF Hosts!AsPublished
<1>3. PublishInv /\ [Hosts!Next]_(Hosts!vars) => [Hosts!AsPublished]_(Hosts!vars) BY <1>2
<1>4. QED BY <1>3, PublishInit, PublishInvStep, PTL DEF Hosts!Spec, Hosts!UnchangedIsPublished
================================================================================
